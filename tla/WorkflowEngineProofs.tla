------------------------- MODULE WorkflowEngineProofs -------------------------
(***************************************************************************)
(* Theorems about the workflow engine that hold whatever the handlers do   *)
(* at the same time and wherever they stop: for any definitions, handlers, *)
(* requests and failures.                                                  *)
(***************************************************************************)
EXTENDS WorkflowEngine, FiniteSetTheorems, WellFoundedInduction, TLAPS

-----------------------------------------------------------------------------
(* Definitions, steps and sequences. *)

LEMMA BoundsTyped == MaxReworks \in Nat /\ MaxRequests \in Nat /\ MaxFaults \in Nat
  BY WorkflowAssumption

LEMMA WfTyped ==
    ASSUME Shape
    PROVE  /\ Len(wf.type) \in Nat /\ Len(wf.type) > 0
           /\ Steps \subseteq Nat \ {0} /\ 1 \in Steps /\ Len(wf.type) \in Steps
           /\ \A s \in Steps : wf.type[s] \in StepTypes
           /\ wf.test \in BOOLEAN /\ wf.rule \in BOOLEAN
<1>1. wf \in Workflows
  BY DEF Shape
<1>2. wf.type \in Seq(StepTypes) /\ Len(wf.type) > 0 /\ wf.test \in BOOLEAN /\ wf.rule \in BOOLEAN
  BY <1>1, WorkflowAssumption
<1>3. Len(wf.type) \in Nat /\ \A s \in 1..Len(wf.type) : wf.type[s] \in StepTypes
  BY <1>2
<1> QED BY <1>2, <1>3 DEF Steps

LEMMA TargetsTyped ==
    ASSUME Shape, NEW s \in Steps
    PROVE  AllTargets(s) \subseteq Steps
<1>1. wf \in Workflows
  BY DEF Shape
<1>2. \A k \in DOMAIN wf.routes[s] : wf.routes[s][k] \in 0..Len(wf.type)
  BY <1>1, WorkflowAssumption DEF Steps
<1>3. Len(wf.type) \in Nat
  BY WfTyped
<1> QED BY <1>2, <1>3 DEF AllTargets, Steps, End

LEMMA NextTyped ==
    ASSUME Shape, NEW s \in Steps, NEW d
    PROVE  ResolveNext(s, d) \subseteq AllTargets(s) /\ ResolveNext(s, d) \subseteq Steps
<1>1. ResolveNext(s, d) \subseteq AllTargets(s)
  BY DEF ResolveNext, AllTargets
<1> QED BY <1>1, TargetsTyped

LEMMA StepsFinite ==
    ASSUME Shape, NEW S \in SUBSET Steps
    PROVE  IsFiniteSet(S) /\ Cardinality(S) \in Nat
<1>1. Len(wf.type) \in Nat
  BY WfTyped
<1>2. IsFiniteSet(Steps)
  BY <1>1, FS_Interval DEF Steps
<1> QED BY <1>2, FS_Subset, FS_CardinalityType

\* The loops in document order take a step that is there.
LEMMA FirstLeast ==
    ASSUME NEW S \in SUBSET Nat, S # {}
    PROVE  First(S) \in S /\ \A n \in S : First(S) <= n
<1> DEFINE R == OpToRel(<, Nat)
<1>1. IsWellFoundedOn(R, Nat)
  BY NatLessThanWellFounded
<1>2. PICK x \in S : \A y \in S : ~(<<y, x>> \in R)
  <2> HIDE DEF R
  <2> QED BY <1>1, WFMin
<1>3. R = {ss \in Nat \X Nat : ss[1] < ss[2]}
  BY Zenon DEF OpToRel
<1>4. ASSUME NEW y \in S PROVE x <= y
  <2> HIDE DEF R
  <2>1. x \in Nat /\ y \in Nat /\ <<y, x>> \in Nat \X Nat
    OBVIOUS
  <2>2. ~(y < x)
    BY <1>2, <1>3, <2>1
  <2> QED BY <2>1, <2>2
<1> QED BY <1>4 DEF First

LEMMA FirstIn ==
    ASSUME NEW S \in SUBSET Nat, S # {}
    PROVE  First(S) \in S
BY FirstLeast

\* What is on the stack after the top frame was replaced by fs.
LEMMA Replaced ==
    ASSUME NEW F, NEW q \in Seq(F), q # <<>>, NEW fs \in Seq(F), NEW r, r = fs \o Tail(q)
    PROVE  /\ r \in Seq(F)
           /\ Len(r) = Len(fs) + Len(q) - 1
           /\ Len(q) \in Nat \ {0} /\ Len(fs) \in Nat
           /\ \A i \in 1..Len(r) : r[i] = IF i <= Len(fs) THEN fs[i] ELSE q[i - Len(fs) + 1]
  OBVIOUS

LEMMA TopTwo ==
    ASSUME NEW F, NEW q \in Seq(F), q # <<>>, NEW a \in F, NEW b \in F, NEW fs, fs = <<a>> \o <<b>>,
           NEW r, r = fs \o Tail(q)
    PROVE  2 \in DOMAIN r /\ r[1] = a /\ r[2] = b
<1>1. fs \in Seq(F) /\ Len(fs) = 2 /\ fs[1] = a /\ fs[2] = b
  OBVIOUS
<1>2. r \in Seq(F) /\ Len(r) = Len(fs) + Len(q) - 1 /\ Len(q) \in Nat \ {0}
      /\ \A i \in 1..Len(r) : r[i] = IF i <= Len(fs) THEN fs[i] ELSE q[i - Len(fs) + 1]
  BY <1>1, Replaced
<1>3. DOMAIN r = 1..Len(r) /\ 1 \in 1..Len(r) /\ 2 \in 1..Len(r)
  BY <1>1, <1>2
<1> QED BY <1>1, <1>2, <1>3

\* What is on the stack after the two top frames were replaced by a and b.
LEMMA SecondReplaced ==
    ASSUME NEW F, NEW q \in Seq(F), Len(q) >= 2, NEW a \in F, NEW b \in F
    PROVE  LET r == <<a>> \o <<b>> \o Tail(Tail(q))
           IN  /\ r \in Seq(F) /\ Len(r) = Len(q) /\ Len(r) \in Nat /\ DOMAIN r = 1..Len(r)
               /\ r[1] = a /\ r[2] = b /\ \A i \in 3..Len(r) : r[i] = q[i]
<1> DEFINE t == Tail(q)
           fs == <<a>> \o <<b>>
           r == fs \o Tail(t)
<1>1. t \in Seq(F) /\ Len(t) = Len(q) - 1 /\ Len(q) \in Nat /\ \A i \in 1..(Len(q) - 1) : t[i] = q[i + 1]
  OBVIOUS
<1>2. t # <<>>
  <2>1. Len(t) >= 1
    BY <1>1
  <2> HIDE DEF t
  <2> QED BY <2>1
<1>3. fs \in Seq(F) /\ Len(fs) = 2 /\ fs[1] = a /\ fs[2] = b
  OBVIOUS
<1>4. r = fs \o Tail(t)
  OBVIOUS
<1> HIDE DEF t, fs, r
<1>5. /\ r \in Seq(F) /\ Len(r) = Len(fs) + Len(t) - 1
      /\ \A i \in 1..Len(r) : r[i] = IF i <= Len(fs) THEN fs[i] ELSE t[i - Len(fs) + 1]
  <2>1. t \in Seq(F) /\ fs \in Seq(F)
    BY <1>1, <1>3
  <2> QED BY <1>2, <1>4, <2>1, Replaced
<1>6. Len(r) = Len(q) /\ Len(r) \in Nat /\ DOMAIN r = 1..Len(r) /\ 1 \in 1..Len(r) /\ 2 \in 1..Len(r)
  BY <1>1, <1>3, <1>5
<1>7. r[1] = a /\ r[2] = b
  BY <1>3, <1>5, <1>6
<1>8. ASSUME NEW i \in 3..Len(r) PROVE r[i] = q[i]
  <2>1. i \in 1..Len(r) /\ ~(i <= 2) /\ i - 1 \in 1..(Len(q) - 1) /\ i - 2 + 1 = i - 1 /\ i - 1 + 1 = i
    BY <1>6
  <2>2. r[i] = t[i - 1]
    BY <1>3, <1>5, <2>1
  <2>3. t[i - 1] = q[i - 1 + 1]
    BY <1>1, <2>1
  <2> QED BY <2>1, <2>2, <2>3
<1> QED BY <1>5, <1>6, <1>7, <1>8 DEF r, fs, t

-----------------------------------------------------------------------------
(* Frames. *)

LEMMA FrameFields ==
    ASSUME NEW f \in Frames
    PROVE  /\ f.op = "create" => f.step \in Steps
           /\ f.op = "auto" => f.step \in Steps /\ IsAuto(f.step)
           /\ f.op \in {"rework", "reset", "revive"} => f.step \in Steps \ Joins
           /\ f.op = "activate" => f.to \in Steps
           /\ f.op \in {"preds", "fire", "any"} => f.join \in Joins /\ f.left \subseteq Steps
           /\ f.op = "preds" => f.then \in {"fire", "any"}
           /\ f.op \in {"reach", "sweep", "joins"} => f.pass \in Nat
           /\ f.op = "sweep" => f.reach \subseteq Steps
           /\ f.op = "joins" => f.changed \in BOOLEAN /\ f.left \subseteq Joins
           /\ f.op = "drive" => f.event \in {"started", "cancelled", "finished"}
           /\ f.op = "record" => f.status \in {"running", "cancelled", "completed"}
  BY DEF Frames

\* A loop that has gone on to the next step.
LEMMA FrameRest ==
    ASSUME NEW f \in Frames, f.op \in {"preds", "any", "joins"}
    PROVE  /\ [f EXCEPT !.left = Rest(@)] \in Frames
           /\ [f EXCEPT !.left = Rest(@)].op = f.op
           /\ [f EXCEPT !.left = Rest(@)].left = Rest(f.left)
           /\ f.op \in {"preds", "any"} => [f EXCEPT !.left = Rest(@)].join = f.join
           /\ f.op = "preds" => [f EXCEPT !.left = Rest(@)].then = f.then
           /\ f.op = "joins" => [f EXCEPT !.left = Rest(@)].changed = f.changed
<1>1. Rest(f.left) \subseteq f.left
  BY DEF Rest
<1>2. CASE f.op = "preds"
  <2>1. f \in [op : {"preds"}, join : Joins, left : SUBSET Steps, then : {"fire", "any"}]
    BY <1>2 DEF Frames
  <2> QED BY <1>1, <2>1 DEF Frames
<1>3. CASE f.op = "any"
  <2>1. f \in [op : {"fire", "any"}, join : Joins, left : SUBSET Steps]
    BY <1>3 DEF Frames
  <2> QED BY <1>1, <1>3, <2>1 DEF Frames
<1>4. CASE f.op = "joins"
  <2>1. f \in [op : {"joins"}, pass : Nat, changed : BOOLEAN, left : SUBSET Joins]
    BY <1>4 DEF Frames
  <2> QED BY <1>1, <2>1 DEF Frames
<1> QED BY <1>2, <1>3, <1>4

LEMMA FrameChanged ==
    ASSUME NEW f \in Frames, f.op = "joins"
    PROVE  [f EXCEPT !.changed = TRUE] \in Frames /\ [f EXCEPT !.changed = TRUE].op = "joins"
<1>1. f \in [op : {"joins"}, pass : Nat, changed : BOOLEAN, left : SUBSET Joins]
  BY DEF Frames
<1> QED BY <1>1 DEF Frames

\* The frames that may be anywhere on a stack.
Plain ==
    {f \in Frames : /\ f.op \notin {"create", "preds", "any", "fire", "reset", "revive"}
                    /\ f.op = "drive" => f.event # "started"}

\* f leads to a read of the join's completed predecessors.
Asks(f) == f.op = "any" \/ (f.op = "preds" /\ f.then = "any")

\* The others are at the top, over the frame they return to.
Orderly(q) ==
    \A i \in DOMAIN q :
        /\ q[i].op \in {"create", "preds", "any", "fire"} => i = 1
        /\ Asks(q[i]) => 2 \in DOMAIN q /\ q[2].op = "joins"
        /\ q[i].op = "revive" => i = 1 \/ (i = 2 /\ q[1].op = "reset" /\ q[1].step = q[2].step)

Calls == \A h \in Handlers : Orderly(stack[h])

LEMMA AutoPushed ==
    ASSUME Shape, NEW s \in Steps
    PROVE  /\ ProcessAutoStep(s) \in Seq(Plain)
           /\ Len(ProcessAutoStep(s)) \in {0, 1}
           /\ \A i \in DOMAIN ProcessAutoStep(s) : ProcessAutoStep(s)[i] = [op |-> "auto", step |-> s] /\ IsAuto(s)
<1>1. CASE IsAuto(s)
  <2>1. [op |-> "auto", step |-> s] \in Plain
    BY <1>1 DEF Plain, Frames
  <2>2. ProcessAutoStep(s) = <<[op |-> "auto", step |-> s]>>
    BY <1>1 DEF ProcessAutoStep
  <2> QED BY <1>1, <2>1, <2>2
<1>2. CASE ~IsAuto(s)
  BY <1>2 DEF ProcessAutoStep
<1> QED BY <1>1, <1>2

LEMMA ActivatePushed ==
    ASSUME Shape, NEW s \in Steps, NEW d, NEW next \in ActivateNextSteps(s, d)
    PROVE  /\ next \in Seq(Plain)
           /\ \/ Routeless(s) /\ next = <<[op |-> "fallback"]>>
              \/ ~Routeless(s) /\ \A i \in DOMAIN next : next[i].op = "activate"
<1>1. CASE Routeless(s)
  <2>1. [op |-> "fallback"] \in Plain
    BY <1>1 DEF Plain, Frames
  <2>2. ActivateNextSteps(s, d) = {<<[op |-> "fallback"]>>}
    BY <1>1 DEF ActivateNextSteps
  <2>3. next = <<[op |-> "fallback"]>>
    BY <2>2
  <2>4. <<[op |-> "fallback"]>> \in Seq(Plain)
    BY <2>1
  <2> QED BY <1>1, <2>3, <2>4
<1>2. CASE ~Routeless(s)
  <2>1. PICK q \in SetToSeqs(ResolveNext(s, d)) : next = [i \in DOMAIN q |-> [op |-> "activate", to |-> q[i]]]
    BY <1>2 DEF ActivateNextSteps
  <2>2. ResolveNext(s, d) \in SUBSET Steps /\ Cardinality(ResolveNext(s, d)) \in Nat
    BY NextTyped, StepsFinite
  <2>3. PICK n \in Nat : q \in [1..n -> ResolveNext(s, d)]
    BY <2>1, <2>2 DEF SetToSeqs
  <2>4. \A i \in 1..n : q[i] \in Steps
    BY <2>2, <2>3
  <2>5. \A i \in 1..n : [op |-> "activate", to |-> q[i]] \in Plain
    BY <2>4 DEF Plain, Frames
  <2>6. next = [i \in 1..n |-> [op |-> "activate", to |-> q[i]]]
    BY <2>1, <2>3
  <2>7. next \in Seq(Plain)
    BY <2>5, <2>6
  <2>8. DOMAIN next = 1..n /\ \A i \in DOMAIN next : next[i].op = "activate"
    BY <2>6
  <2> QED BY <1>2, <2>7, <2>8
<1> QED BY <1>1, <1>2

LEMMA ReconcilePushed ==
    ASSUME NEW pass \in Nat
    PROVE  /\ ReconcileInstance(pass) \in Seq(Plain)
           /\ ReconcileInstance(pass) = <<>> \/ ReconcileInstance(pass) = <<[op |-> "reach", pass |-> pass]>>
<1>1. [op |-> "reach", pass |-> pass] \in Plain
  BY DEF Plain, Frames
<1> QED BY <1>1 DEF ReconcileInstance

LEMMA PassPushed ==
    ASSUME NEW f \in Frames, f.op \in {"reach", "sweep", "joins"}, NEW reach \in SUBSET Steps, NEW changed \in BOOLEAN
    PROVE  /\ SweepFrom(f.pass, reach) \in Seq(Plain)
           /\ f.op = "sweep" => FireJoins(f, changed) \in Seq(Plain)
<1>1. f.pass \in Nat /\ (f.op = "sweep" => f.reach \subseteq Steps)
  BY FrameFields
<1>2. [op |-> "sweep", pass |-> f.pass, reach |-> reach] \in Plain
  BY <1>1 DEF Plain, Frames
<1>3. ASSUME f.op = "sweep"
      PROVE  [op |-> "joins", pass |-> f.pass, changed |-> changed, left |-> Joins \cap f.reach] \in Plain
  BY <1>1, <1>3 DEF Plain, Frames
<1> QED BY <1>2, <1>3 DEF SweepFrom, FireJoins

LEMMA OthersPushed ==
    ASSUME NEW as \in {"running", "cancelled", "completed"},
           NEW event \in {"cancelled", "finished"}
    PROVE  /\ CloseInstanceIfIdle \in Seq(Plain) /\ CloseInstance \in Seq(Plain)
           /\ RecordMirror(as) \in Seq(Plain) /\ Drive(event) \in Seq(Plain)
           /\ <<[op |-> "fail"], [op |-> "failexec"]>> \in Seq(Plain)
           /\ <<[op |-> "started"]>> \in Seq(Plain)
<1>1. \A op \in {"idle", "skip", "end", "endexec", "fail", "failexec", "started"} : [op |-> op] \in Plain
  BY DEF Plain, Frames
<1>2. [op |-> "record", status |-> as] \in Plain /\ [op |-> "drive", event |-> event] \in Plain
  BY DEF Plain, Frames
<1>3. [op |-> "idle"] \in Plain /\ [op |-> "skip"] \in Plain /\ [op |-> "end"] \in Plain /\ [op |-> "endexec"] \in Plain
      /\ [op |-> "fail"] \in Plain /\ [op |-> "failexec"] \in Plain /\ [op |-> "started"] \in Plain
  BY <1>1
<1> QED BY <1>2, <1>3 DEF CloseInstanceIfIdle, CloseInstance, RecordMirror, Drive

-----------------------------------------------------------------------------
(* A step of one handler leaves every stack in order. *)

\* The definition of a run never changes, nor what is defined from it.
LEMMA SameWorkflow ==
    ASSUME wf' = wf
    PROVE  /\ Steps' = Steps /\ Joins' = Joins /\ Frames' = Frames /\ HasRouting' = HasRouting
           /\ \A s : IsAuto(s)' = IsAuto(s) /\ AllTargets(s)' = AllTargets(s) /\ Routeless(s)' = Routeless(s)
  BY DEF Steps, Joins, Frames, IsAuto, AllTargets, Routeless, HasRouting

LEMMA PushedOrderly ==
    ASSUME NEW q \in Seq(Frames), q # <<>>, Orderly(q),
           NEW fs \in Seq(Frames), fs = <<>> \/ q[1].op # "reset",
           NEW r, r = fs \o Tail(q),
           \A i \in DOMAIN fs :
              /\ fs[i].op \in {"create", "preds", "any", "fire"} => i = 1
              /\ fs[i].op = "revive" => i = 2 /\ fs[1].op = "reset" /\ fs[1].step = fs[2].step
              /\ Asks(fs[i]) => 2 \in DOMAIN r /\ r[2].op = "joins"
    PROVE  r \in Seq(Frames) /\ Orderly(r)
<1>1. /\ r \in Seq(Frames)
      /\ Len(r) = Len(fs) + Len(q) - 1
      /\ Len(q) \in Nat \ {0} /\ Len(fs) \in Nat
      /\ \A i \in 1..Len(r) : r[i] = IF i <= Len(fs) THEN fs[i] ELSE q[i - Len(fs) + 1]
  BY Replaced
<1>2. DOMAIN r = 1..Len(r) /\ DOMAIN fs = 1..Len(fs) /\ DOMAIN q = 1..Len(q)
  BY <1>1
<1>3. ASSUME NEW i \in DOMAIN r, i <= Len(fs)
      PROVE  /\ r[i].op \in {"create", "preds", "any", "fire"} => i = 1
             /\ Asks(r[i]) => 2 \in DOMAIN r /\ r[2].op = "joins"
             /\ r[i].op = "revive" => i = 1 \/ (i = 2 /\ r[1].op = "reset" /\ r[1].step = r[2].step)
  <2>1. i \in DOMAIN fs /\ r[i] = fs[i]
    BY <1>1, <1>2, <1>3
  <2>2. i = 2 => r[1] = fs[1]
    BY <1>1, <1>2, <1>3
  <2> QED BY <2>1, <2>2
<1>4. ASSUME NEW i \in DOMAIN r, ~(i <= Len(fs))
      PROVE  /\ r[i].op \in {"create", "preds", "any", "fire"} => i = 1
             /\ Asks(r[i]) => 2 \in DOMAIN r /\ r[2].op = "joins"
             /\ r[i].op = "revive" => i = 1 \/ (i = 2 /\ r[1].op = "reset" /\ r[1].step = r[2].step)
  <2> DEFINE j == i - Len(fs) + 1
  <2>1. j \in DOMAIN q /\ j > 1 /\ r[i] = q[j]
    BY <1>1, <1>2, <1>4
  <2>2. /\ q[j].op \notin {"create", "preds", "any", "fire"}
        /\ q[j].op = "revive" => j = 2 /\ q[1].op = "reset"
    BY <2>1 DEF Orderly
  <2>3. ~Asks(q[j])
    BY <2>2 DEF Asks
  <2>4. q[j].op = "revive" => fs = <<>> /\ j = 2
    BY <2>2
  <2>5. fs = <<>> /\ j = 2 => i = 1
    BY <1>1, <1>2
  <2> QED BY <2>1, <2>2, <2>3, <2>4, <2>5
<1>5. Orderly(r)
  BY <1>3, <1>4 DEF Orderly
<1> QED BY <1>1, <1>5

\* Stacks that hold what the other handlers had, and q for h.
LEMMA StackUpdated ==
    ASSUME Shape, Calls, wf' = wf, NEW h \in Handlers, NEW q \in Seq(Frames), Orderly(q),
           stack' = [stack EXCEPT ![h] = q]
    PROVE  stack' \in [Handlers -> Seq(Frames')] /\ Calls'
<1>1. Frames' = Frames
  BY SameWorkflow
<1>2. stack \in [Handlers -> Seq(Frames)]
  BY DEF Shape
<1>3. stack' \in [Handlers -> Seq(Frames)]
  BY <1>2
<1>4. \A g \in Handlers : Orderly(stack'[g])
  BY <1>2 DEF Calls
<1>5. Calls'
  BY <1>4 DEF Calls, Orderly, Asks
<1> QED BY <1>1, <1>3, <1>5

LEMMA StackTyped ==
    ASSUME Shape, Calls, NEW h \in Handlers
    PROVE  /\ stack[h] \in Seq(Frames) /\ Orderly(stack[h])
           /\ ~Idle(h) => /\ stack[h] # <<>> /\ Len(stack[h]) \in Nat \ {0}
                          /\ Top(h) \in Frames /\ Top(h) = stack[h][1]
<1>1. stack[h] \in Seq(Frames) /\ Orderly(stack[h])
  BY DEF Shape, Calls
<1>2. ASSUME ~Idle(h)
      PROVE  stack[h] # <<>> /\ Len(stack[h]) \in Nat \ {0} /\ Head(stack[h]) = stack[h][1] /\ stack[h][1] \in Frames
  BY <1>1, <1>2 DEF Idle
<1> QED BY <1>1, <1>2 DEF Top

LEMMA PushPlain ==
    ASSUME Shape, Calls, wf' = wf, NEW h \in Handlers, ~Idle(h), NEW fs \in Seq(Plain),
           fs = <<>> \/ Top(h).op # "reset", Continue(h, fs)
    PROVE  stack' \in [Handlers -> Seq(Frames')] /\ Calls'
<1> DEFINE q == stack[h]
           r == fs \o Tail(q)
<1>1. /\ q \in Seq(Frames) /\ q # <<>> /\ Orderly(q)
      /\ Top(h) = q[1]
  BY StackTyped
<1>2. \A f \in Plain : f \in Frames /\ f.op \notin {"create", "preds", "any", "fire", "revive"} /\ ~Asks(f)
  BY DEF Plain, Asks
<1>3. fs \in Seq(Frames)
  BY <1>2
<1>4. \A i \in DOMAIN fs : fs[i] \in Plain
  OBVIOUS
<1>5. stack' = [stack EXCEPT ![h] = r]
  BY DEF Continue
<1>6. r \in Seq(Frames) /\ Orderly(r)
  <2> HIDE DEF q
  <2> QED BY <1>1, <1>2, <1>3, <1>4, PushedOrderly
<1> HIDE DEF r
<1> QED BY <1>5, <1>6, StackUpdated

\* One frame that belongs at the top.
LEMMA PushTop ==
    ASSUME Shape, Calls, wf' = wf, NEW h \in Handlers, ~Idle(h), Top(h).op # "reset",
           NEW f \in Frames, f.op # "revive", Asks(f) => Asks(Top(h)), Continue(h, <<f>>)
    PROVE  stack' \in [Handlers -> Seq(Frames')] /\ Calls'
<1> DEFINE q == stack[h]
           r == <<f>> \o Tail(q)
<1>1. /\ q \in Seq(Frames) /\ q # <<>> /\ Orderly(q) /\ Len(q) \in Nat \ {0}
      /\ Top(h) = q[1]
  BY StackTyped
<1>2. <<f>> \in Seq(Frames) /\ DOMAIN <<f>> = {1} /\ <<f>>[1] = f /\ Len(<<f>>) = 1
  OBVIOUS
<1>3. ASSUME Asks(f) PROVE 2 \in DOMAIN r /\ r[2].op = "joins"
  <2>1. 2 \in DOMAIN q /\ q[2].op = "joins"
    BY <1>1, <1>3 DEF Orderly
  <2> QED BY <1>1, <1>2, <2>1
<1>4. stack' = [stack EXCEPT ![h] = r]
  BY DEF Continue
<1>5. r \in Seq(Frames) /\ Orderly(r)
  <2> HIDE DEF q
  <2>1. r = <<f>> \o Tail(q)
    OBVIOUS
  <2> HIDE DEF r
  <2> QED BY <1>1, <1>2, <1>3, <2>1, PushedOrderly
<1> HIDE DEF r
<1> QED BY <1>4, <1>5, StackUpdated

-----------------------------------------------------------------------------
(* Type correctness. *)

Statuses == Open \cup Resolved \cup {"absent"}

\* What a statement may do to the rows and the statuses, as far as types go.
LEMMA ShapeFrom ==
    ASSUME Shape, wf' = wf, stack' \in [Handlers -> Seq(Frames')],
           status' \in [Steps -> Statuses],
           decision' \in [Steps -> {"", "approve", "reject", "true", "false", "complete", "sent"}],
           rework' \in [Steps -> Nat], earlier' \in [Steps -> SUBSET Steps],
           copies' \in [Steps -> Nat], reopened' \subseteq Steps,
           instance' \in {"absent", "running"} \cup Ended,
           execution' \in {"none", "running"} \cup Ended,
           record' \in {"draft", "submitted", "approved", "rejected"},
           requests' \in 0..MaxRequests, faults' \in 0..MaxFaults
    PROVE  Shape'
<1>1. Steps' = Steps
  BY SameWorkflow
<1> QED BY <1>1 DEF Shape, Statuses, Ended, Open, Resolved, Finished

\* The handler goes on from a statement that changed no type.
LEMMA ShapeFrame ==
    ASSUME Shape, wf' = wf, stack' \in [Handlers -> Seq(Frames')],
           status' \in [Steps -> Statuses], UNCHANGED <<decision, rework, earlier, copies, reopened>>,
           instance' \in {"absent", "running"} \cup Ended,
           execution' \in {"none", "running"} \cup Ended,
           record' \in {"draft", "submitted", "approved", "rejected"},
           requests' \in 0..MaxRequests, faults' \in 0..MaxFaults
    PROVE  Shape'
<1>1. /\ decision' \in [Steps -> {"", "approve", "reject", "true", "false", "complete", "sent"}]
      /\ rework' \in [Steps -> Nat] /\ earlier' \in [Steps -> SUBSET Steps]
      /\ copies' \in [Steps -> Nat] /\ reopened' \subseteq Steps
  BY DEF Shape
<1> QED BY <1>1, ShapeFrom

LEMMA ShapeParts ==
    ASSUME Shape
    PROVE  /\ status \in [Steps -> Statuses]
           /\ decision \in [Steps -> {"", "approve", "reject", "true", "false", "complete", "sent"}]
           /\ rework \in [Steps -> Nat] /\ earlier \in [Steps -> SUBSET Steps]
           /\ copies \in [Steps -> Nat] /\ reopened \subseteq Steps
           /\ instance \in {"absent", "running"} \cup Ended
           /\ execution \in {"none", "running"} \cup Ended
           /\ record \in {"draft", "submitted", "approved", "rejected"}
           /\ requests \in 0..MaxRequests /\ faults \in 0..MaxFaults
  BY DEF Shape, Statuses

\* Only the stacks and one status column move.
LEMMA ShapeStatus ==
    ASSUME Shape, wf' = wf, stack' \in [Handlers -> Seq(Frames')], status' \in [Steps -> Statuses],
           UNCHANGED <<decision, rework, earlier, copies, reopened, instance, execution, record, requests, faults>>
    PROVE  Shape'
  BY ShapeParts, ShapeFrame

LEMMA TopIs ==
    ASSUME NEW h, NEW op, At(h, op)
    PROVE  ~Idle(h) /\ Top(h).op = op
  BY DEF At

\* A frame that comes off the stack.
LEMMA PopPlain ==
    ASSUME Shape, Calls, wf' = wf, NEW h \in Handlers, ~Idle(h), Continue(h, <<>>)
    PROVE  stack' \in [Handlers -> Seq(Frames')] /\ Calls'
<1>1. <<>> \in Seq(Plain)
  OBVIOUS
<1> QED BY <1>1, PushPlain

DriveStarted == [op |-> "drive", event |-> "started"]

\* c, what the start of the run makes of its record, and plain frames below.
Over(c, q) ==
    /\ q \in Seq(Frames) /\ Len(q) > 1
    /\ q[1] = c /\ q[2] = DriveStarted /\ \A i \in 3..Len(q) : q[i] \in Plain

LEMMA OverMore ==
    ASSUME NEW c, NEW q, Over(c, q), NEW gs \in Seq(Plain)
    PROVE  Over(c, q \o gs)
<1>1. \A f \in Plain : f \in Frames
  BY DEF Plain
<1>2. gs \in Seq(Frames)
  BY <1>1
<1>3. q \in Seq(Frames) /\ Len(q) > 1
  BY DEF Over
<1>4. q \o gs \in Seq(Frames) /\ Len(q \o gs) > 1 /\ (q \o gs)[1] = q[1] /\ (q \o gs)[2] = q[2]
  BY <1>2, <1>3
<1>5. ASSUME NEW i \in 3..Len(q \o gs) PROVE (q \o gs)[i] \in Plain
  <2>1. CASE i <= Len(q)
    BY <1>2, <1>3, <2>1 DEF Over
  <2>2. CASE i > Len(q)
    <3>1. (q \o gs)[i] = gs[i - Len(q)] /\ i - Len(q) \in 1..Len(gs)
      BY <1>2, <1>3, <2>2
    <3> QED BY <3>1
  <2> QED BY <1>3, <2>1, <2>2
<1> QED BY <1>4, <1>5 DEF Over

LEMMA OverOrderly ==
    ASSUME NEW c, NEW q, Over(c, q), c.op # "revive", ~Asks(c)
    PROVE  q \in Seq(Frames) /\ Orderly(q)
<1>1. \A f \in Plain : f.op \notin {"create", "preds", "any", "fire", "revive"} /\ ~Asks(f)
  BY DEF Plain, Asks
<1>2. ASSUME NEW i \in DOMAIN q
      PROVE  (i = 1 /\ q[i] = c) \/ q[i] = DriveStarted \/ q[i] \in Plain
  <2>1. i = 1 \/ i = 2 \/ i \in 3..Len(q)
    BY DEF Over
  <2> QED BY <2>1 DEF Over
<1>3. DriveStarted.op = "drive" /\ ~Asks(DriveStarted)
  BY DEF DriveStarted, Asks
<1>4. Orderly(q)
  BY <1>1, <1>2, <1>3 DEF Orderly
<1> QED BY <1>4 DEF Over

LEMMA StartStack ==
    ASSUME Shape, Calls, NEW h \in Handlers, StartWorkflow(h)
    PROVE  /\ Over([op |-> "create", step |-> 1], stack'[h])
           /\ stack' = [stack EXCEPT ![h] = stack'[h]]
<1> DEFINE c == [op |-> "create", step |-> 1]
           q == <<c>> \o Drive("started") \o ProcessAutoStep(1) \o ReconcileInstance(1)
                  \o CloseInstanceIfIdle \o <<[op |-> "started"]>>
<1>1. 1 \in Steps
  BY WfTyped
<1>2. CloseInstanceIfIdle \in Seq(Plain) /\ <<[op |-> "started"]>> \in Seq(Plain)
  BY OthersPushed
<1>3. ProcessAutoStep(1) \in Seq(Plain) /\ ReconcileInstance(1) \in Seq(Plain)
  BY <1>1, AutoPushed, ReconcilePushed
<1>4. Over(c, <<c>> \o Drive("started"))
  <2>1. c \in Frames /\ DriveStarted \in Frames
    BY <1>1 DEF Frames, DriveStarted
  <2>2. Drive("started") = <<DriveStarted>>
    BY DEF Drive, DriveStarted
  <2> HIDE DEF c
  <2> DEFINE p == <<c>> \o <<DriveStarted>>
  <2>3. p \in Seq(Frames) /\ Len(p) = 2 /\ p[1] = c /\ p[2] = DriveStarted
    BY <2>1
  <2>4. <<c>> \o Drive("started") = p /\ \A i \in 3..2 : FALSE
    BY <2>2
  <2> HIDE DEF p
  <2>5. Over(c, p)
    BY <2>3, <2>4 DEF Over
  <2> QED BY <2>4, <2>5
<1>5. Over(c, q)
  <2> HIDE DEF c
  <2>2. Over(c, <<c>> \o Drive("started") \o ProcessAutoStep(1))
    BY <1>3, <1>4, OverMore
  <2>3. Over(c, <<c>> \o Drive("started") \o ProcessAutoStep(1) \o ReconcileInstance(1))
    BY <1>3, <2>2, OverMore
  <2>4. Over(c, <<c>> \o Drive("started") \o ProcessAutoStep(1) \o ReconcileInstance(1) \o CloseInstanceIfIdle)
    BY <1>2, <2>3, OverMore
  <2> QED BY <1>2, <2>4, OverMore
<1>6. stack' = [stack EXCEPT ![h] = q]
  BY DEF StartWorkflow, Request
<1>7. stack'[h] = q
  <2> HIDE DEF q
  <2> QED BY <1>6 DEF Shape
<1> HIDE DEF q
<1> QED BY <1>5, <1>6, <1>7

LEMMA RequestTyped ==
    ASSUME Shape, NEW h, NEW fs, Request(h, fs)
    PROVE  requests' \in 0..MaxRequests /\ faults' \in 0..MaxFaults
<1>1. requests \in 0..MaxRequests /\ faults \in 0..MaxFaults
  BY ShapeParts
<1> QED BY <1>1, BoundsTyped DEF Request

LEMMA StartStep ==
    ASSUME Shape, Calls, NEW h \in Handlers, StartWorkflow(h)
    PROVE  Shape' /\ Calls'
<1>1. wf' = wf /\ instance' = "running" /\ UNCHANGED <<rows, execution, record>>
  BY DEF StartWorkflow
<1>2. requests' \in 0..MaxRequests /\ faults' \in 0..MaxFaults
  BY RequestTyped DEF StartWorkflow
<1>3. stack'[h] \in Seq(Frames) /\ Orderly(stack'[h])
  <2> DEFINE c == [op |-> "create", step |-> 1]
  <2>1. Over(c, stack'[h])
    BY StartStack
  <2>2. c.op # "revive" /\ ~Asks(c)
    BY DEF Asks
  <2> HIDE DEF c
  <2> QED BY <2>1, <2>2, OverOrderly
<1>4. stack' \in [Handlers -> Seq(Frames')] /\ Calls'
  BY <1>1, <1>3, StartStack, StackUpdated
<1>5. Shape'
  BY <1>1, <1>2, <1>4, ShapeParts, ShapeFrame DEF rows
<1> QED BY <1>4, <1>5

LEMMA PlainOrderly ==
    ASSUME NEW q \in Seq(Plain)
    PROVE  q \in Seq(Frames) /\ Orderly(q)
<1>1. \A f \in Plain : f \in Frames /\ f.op \notin {"create", "preds", "any", "fire", "revive"} /\ ~Asks(f)
  BY DEF Plain, Asks
<1>2. q \in Seq(Frames) /\ \A i \in DOMAIN q : q[i] \in Plain
  BY <1>1
<1> QED BY <1>1, <1>2 DEF Orderly

\* The frames of a request that is not the start of the run.
LEMMA RequestStack ==
    ASSUME Shape, Calls, wf' = wf, NEW h \in Handlers, NEW fs \in Seq(Plain), Request(h, fs)
    PROVE  stack' \in [Handlers -> Seq(Frames')] /\ Calls'
  BY PlainOrderly, StackUpdated DEF Request

LEMMA DecisionsTyped ==
    ASSUME Shape, NEW s \in Steps, NEW d \in Decisions(s)
    PROVE  d \in {"approve", "reject", "true", "false", "complete"}
  BY DEF Decisions

LEMMA CompleteFrames ==
    ASSUME Shape, NEW s \in Steps, NEW d, NEW next \in ActivateNextSteps(s, d)
    PROVE  next \o ReconcileInstance(1) \o CloseInstanceIfIdle \in Seq(Plain)
<1>1. next \in Seq(Plain)
  BY ActivatePushed
<1>2. ReconcileInstance(1) \in Seq(Plain) /\ CloseInstanceIfIdle \in Seq(Plain)
  BY ReconcilePushed, OthersPushed
<1> QED BY <1>1, <1>2

LEMMA CompleteShape ==
    ASSUME Shape, Calls, NEW h \in Handlers, NEW s \in Steps, NEW d \in Decisions(s), CompleteStep(h, s, d)
    PROVE  Shape' /\ Calls'
<1>1. wf' = wf /\ UNCHANGED <<rework, reopened, instance, execution, record>>
  BY DEF CompleteStep
<1>2. PICK next \in ActivateNextSteps(s, d) : Request(h, next \o ReconcileInstance(1) \o CloseInstanceIfIdle)
  BY DEF CompleteStep
<1>3. next \o ReconcileInstance(1) \o CloseInstanceIfIdle \in Seq(Plain)
  BY CompleteFrames
<1>4. stack' \in [Handlers -> Seq(Frames')] /\ Calls' /\ requests' \in 0..MaxRequests /\ faults' \in 0..MaxFaults
  BY <1>1, <1>2, <1>3, RequestStack, RequestTyped
<1>5. d \in {"approve", "reject", "true", "false", "complete"}
  BY DecisionsTyped
<1>6. status' \in [Steps -> Statuses]
  BY ShapeParts DEF CompleteStep, Statuses, Resolved, Finished
<1>7. decision' \in [Steps -> {"", "approve", "reject", "true", "false", "complete", "sent"}]
  BY <1>5, ShapeParts DEF CompleteStep
<1>8. earlier' \in [Steps -> SUBSET Steps] /\ copies' \in [Steps -> Nat]
  <2>1. Decided \in SUBSET Steps
    BY DEF Decided
  <2>2. earlier \in [Steps -> SUBSET Steps] /\ copies \in [Steps -> Nat]
    BY ShapeParts
  <2>3. earlier' \in [Steps -> SUBSET Steps]
    BY <2>1, <2>2 DEF CompleteStep
  <2>4. copies' \in [Steps -> Nat]
    BY <2>2 DEF CompleteStep
  <2> QED BY <2>3, <2>4
<1>9. Shape'
  BY <1>1, <1>4, <1>6, <1>7, <1>8, ShapeParts, ShapeFrom
<1> QED BY <1>4, <1>9

LEMMA CancelShape ==
    ASSUME Shape, Calls, NEW h \in Handlers, CancelInstance(h)
    PROVE  Shape' /\ Calls'
<1>1. wf' = wf /\ UNCHANGED <<decision, rework, earlier, copies, reopened, record>> /\ Request(h, Drive("cancelled"))
  BY DEF CancelInstance
<1>2. Drive("cancelled") \in Seq(Plain)
  BY OthersPushed
<1>3. stack' \in [Handlers -> Seq(Frames')] /\ Calls' /\ requests' \in 0..MaxRequests /\ faults' \in 0..MaxFaults
  BY <1>1, <1>2, RequestStack, RequestTyped
<1>4. status' \in [Steps -> Statuses]
  BY ShapeParts DEF CancelInstance, Statuses, Resolved
<1>5. instance' \in {"absent", "running"} \cup Ended /\ execution' \in {"none", "running"} \cup Ended
  BY ShapeParts DEF CancelInstance, Ended
<1>6. Shape'
  BY <1>1, <1>3, <1>4, <1>5, ShapeParts, ShapeFrame
<1> QED BY <1>3, <1>6

\* The failure of a handler or of one of its statements changes no row.
LEMMA EmptyStack ==
    ASSUME Shape, Calls, wf' = wf, NEW h \in Handlers, stack' = [stack EXCEPT ![h] = <<>>]
    PROVE  stack' \in [Handlers -> Seq(Frames')] /\ Calls'
<1>1. <<>> \in Seq(Plain)
  OBVIOUS
<1> QED BY <1>1, PlainOrderly, StackUpdated

\* What the cascade goes on with when a statement failed.
LEMMA FailurePlain ==
    ASSUME Shape, NEW f \in Frames, NEW next \in AfterFailure(f), Queries(f), f.op \notin {"joins", "any"}
    PROVE  next \in Seq(Plain)
<1>1. CASE f.op \in {"reach", "sweep"}
  <2>1. {} \in SUBSET Steps /\ FALSE \in BOOLEAN
    OBVIOUS
  <2>2. f.op = "reach" => next = SweepFrom(f.pass, {})
    BY DEF AfterFailure
  <2>3. f.op = "sweep" => next = FireJoins(f, FALSE)
    BY DEF AfterFailure
  <2> QED BY <1>1, <2>1, <2>2, <2>3, PassPushed
<1>2. CASE f.op = "idle"
  <2>1. next = CloseInstance
    BY <1>2 DEF AfterFailure
  <2> QED BY <2>1, OthersPushed
<1>3. CASE f.op = "activate"
  <2>1. next = <<[op |-> "rework", step |-> f.to]>>
    BY <1>3 DEF AfterFailure
  <2>2. f.to \in Steps \ Joins
    BY <1>3, FrameFields DEF Queries, Joins
  <2>3. [op |-> "rework", step |-> f.to] \in Plain
    BY <2>2 DEF Plain, Frames
  <2> QED BY <2>1, <2>3
<1>4. CASE f.op = "fire"
  <2>1. f.join \in Steps /\ next \in ActivateNextSteps(f.join, "complete")
    BY <1>4, FrameFields DEF AfterFailure, Joins
  <2> QED BY <2>1, ActivatePushed
<1>5. CASE f.op = "auto"
  <2>1. f.step \in Steps /\ \E d \in AutoDecisions(f.step) : next \in ActivateNextSteps(f.step, d)
    BY <1>5, FrameFields DEF AfterFailure
  <2> QED BY <2>1, ActivatePushed
<1>6. CASE f.op = "started"
  <2>1. next = RecordMirror("running")
    BY <1>6 DEF AfterFailure
  <2> QED BY <2>1, OthersPushed
<1>7. CASE f.op \notin {"reach", "sweep", "joins", "any", "idle", "activate", "fire", "auto", "started"}
  <2>1. next = <<>>
    BY <1>7 DEF AfterFailure
  <2> QED BY <2>1
<1> QED BY <1>1, <1>2, <1>3, <1>4, <1>5, <1>6, <1>7

LEMMA FailureStack ==
    ASSUME Shape, Calls, wf' = wf, NEW h \in Handlers, ~Idle(h), NEW next \in AfterFailure(Top(h)),
           Queries(Top(h)), Continue(h, next)
    PROVE  stack' \in [Handlers -> Seq(Frames')] /\ Calls'
<1> DEFINE f == Top(h)
<1>1. f \in Frames
  BY StackTyped
<1>2. CASE f.op \in {"joins", "any"}
  <2> DEFINE g == [f EXCEPT !.left = Rest(@)]
  <2>1. next = <<g>>
    BY <1>2 DEF AfterFailure
  <2>2. g \in Frames /\ g.op = f.op
    BY <1>1, <1>2, FrameRest
  <2>3. Asks(g) => Asks(f)
    BY <1>2, <2>2 DEF Asks
  <2> HIDE DEF g
  <2> QED BY <1>2, <2>1, <2>2, <2>3, PushTop
<1>3. CASE f.op = "reset"
  <2>1. next = <<>>
    BY <1>3 DEF AfterFailure
  <2> QED BY <2>1, PopPlain
<1>4. CASE f.op \notin {"joins", "any", "reset"}
  BY <1>1, <1>4, FailurePlain, PushPlain
<1> QED BY <1>2, <1>3, <1>4

LEMMA FaultShape ==
    ASSUME Shape, Calls, NEW h \in Handlers, Abandon(h) \/ StatementFails(h)
    PROVE  Shape' /\ Calls'
<1>1. wf' = wf /\ UNCHANGED <<rows, instance, execution, record, requests>> /\ faults < MaxFaults /\ faults' = faults + 1 /\ ~Idle(h)
  BY DEF Abandon, StatementFails
<1>2. stack' \in [Handlers -> Seq(Frames')] /\ Calls'
  <2>1. CASE stack' = [stack EXCEPT ![h] = <<>>]
    BY <1>1, <2>1, EmptyStack
  <2>2. CASE stack' # [stack EXCEPT ![h] = <<>>]
    <3>1. /\ Queries(Top(h)) /\ Top(h).op # "create"
          /\ \E next \in AfterFailure(Top(h)) : Continue(h, next)
      BY <2>2 DEF Abandon, StatementFails
    <3> QED BY <1>1, <3>1, FailureStack
  <2> QED BY <2>1, <2>2
<1>3. faults' \in 0..MaxFaults
  <2>1. faults \in 0..MaxFaults
    BY ShapeParts
  <2> QED BY <1>1, <2>1, BoundsTyped
<1>4. Shape'
  BY <1>1, <1>2, <1>3, ShapeParts, ShapeFrame DEF rows
<1> QED BY <1>2, <1>4

LEMMA CreateShape ==
    ASSUME Shape, Calls, NEW h \in Handlers, CreateStep(h)
    PROVE  Shape' /\ Calls'
<1> DEFINE s == Top(h).step
           g == [op |-> "create", step |-> s + 1]
<1>1. ~Idle(h) /\ Top(h).op = "create" /\ Top(h) \in Frames
  BY TopIs, StackTyped DEF CreateStep
<1>2. s \in Steps
  BY <1>1, FrameFields
<1>3. wf' = wf /\ UNCHANGED <<decision, rework, earlier, copies, reopened, instance, execution, record, requests, faults>>
  BY DEF CreateStep, bounds
<1>4. stack' \in [Handlers -> Seq(Frames')] /\ Calls'
  <2>1. CASE s = Len(wf.type)
    BY <1>1, <1>3, <2>1, PopPlain DEF CreateStep
  <2>2. CASE s # Len(wf.type)
    <3>1. s + 1 \in Steps
      BY <1>2, <2>2, WfTyped DEF Steps
    <3>2. g \in Frames /\ g.op # "revive" /\ ~Asks(g)
      BY <3>1 DEF Frames, Asks
    <3>3. Continue(h, <<g>>)
      BY <2>2 DEF CreateStep
    <3> HIDE DEF g
    <3> QED BY <1>1, <1>3, <3>2, <3>3, PushTop
  <2> QED BY <2>1, <2>2
<1>5. status' \in [Steps -> Statuses]
  BY ShapeParts DEF CreateStep, Statuses, Open
<1>6. Shape'
  BY <1>3, <1>4, <1>5, ShapeStatus
<1> QED BY <1>4, <1>6

LEMMA FallbackShape ==
    ASSUME Shape, Calls, NEW h \in Handlers, Fallback(h)
    PROVE  Shape' /\ Calls'
<1>1. ~Idle(h) /\ wf' = wf /\ UNCHANGED <<decision, rework, earlier, copies, reopened, instance, execution, record, requests, faults>>
  BY TopIs DEF Fallback, bounds
<1>2. stack' \in [Handlers -> Seq(Frames')] /\ Calls'
  BY <1>1, PopPlain DEF Fallback
<1>3. status' \in [Steps -> Statuses]
  BY ShapeParts DEF Fallback, Statuses, Open
<1> QED BY <1>1, <1>2, <1>3, ShapeStatus

LEMMA ActivateShape ==
    ASSUME Shape, Calls, NEW h \in Handlers, Activate(h)
    PROVE  Shape' /\ Calls'
<1> DEFINE s == Top(h).to
<1>1. ~Idle(h) /\ Top(h).op = "activate" /\ Top(h) \in Frames
  BY TopIs, StackTyped DEF Activate
<1>2. s \in Steps /\ s \in Steps \ Joins
  BY <1>1, FrameFields DEF Activate, Joins
<1>3. wf' = wf /\ UNCHANGED <<decision, rework, earlier, copies, reopened, instance, execution, record, requests, faults>>
  BY DEF Activate, bounds
<1>4. stack' \in [Handlers -> Seq(Frames')] /\ Calls'
  <2>1. CASE status[s] = "pending"
    BY <1>1, <1>2, <1>3, <2>1, AutoPushed, PushPlain DEF Activate
  <2>2. CASE status[s] # "pending"
    <3>1. [op |-> "rework", step |-> s] \in Plain
      BY <1>2 DEF Plain, Frames
    <3>2. <<[op |-> "rework", step |-> s]>> \in Seq(Plain)
      BY <3>1
    <3>3. Continue(h, <<[op |-> "rework", step |-> s]>>)
      BY <2>2 DEF Activate
    <3> QED BY <1>1, <1>3, <3>2, <3>3, PushPlain
  <2> QED BY <2>1, <2>2
<1>5. status' \in [Steps -> Statuses]
  BY ShapeParts DEF Activate, Statuses, Open
<1> QED BY <1>3, <1>4, <1>5, ShapeStatus

LEMMA AskFrame ==
    ASSUME Shape, NEW j \in Joins, NEW then \in {"fire", "any"}
    PROVE  /\ [op |-> "preds", join |-> j, left |-> Predecessors(j), then |-> then] \in Frames
           /\ [op |-> then, join |-> j, left |-> Predecessors(j)] \in Frames
<1>1. Predecessors(j) \subseteq Steps
  BY DEF Predecessors
<1> QED BY <1>1 DEF Frames

LEMMA ActivateJoinShape ==
    ASSUME Shape, Calls, NEW h \in Handlers, ActivateJoin(h)
    PROVE  Shape' /\ Calls'
<1> DEFINE j == Top(h).to
           g == [op |-> "preds", join |-> j, left |-> Predecessors(j), then |-> "fire"]
<1>1. ~Idle(h) /\ Top(h).op = "activate" /\ Top(h) \in Frames
  BY TopIs, StackTyped DEF ActivateJoin
<1>2. j \in Joins
  BY <1>1, FrameFields DEF ActivateJoin, Joins
<1>3. wf' = wf /\ UNCHANGED <<rows, instance, execution, record, requests, faults>> /\ Continue(h, <<g>>)
  BY DEF ActivateJoin, ReadPredecessors, bounds
<1>4. g \in Frames /\ g.op # "revive" /\ ~Asks(g)
  BY <1>2, AskFrame DEF Asks
<1>5. stack' \in [Handlers -> Seq(Frames')] /\ Calls'
  <2> HIDE DEF g
  <2> QED BY <1>1, <1>3, <1>4, PushTop
<1> QED BY <1>3, <1>5, ShapeStatus, ShapeParts DEF rows

LEMMA PredecessorShape ==
    ASSUME Shape, Calls, NEW h \in Handlers, ReadPredecessor(h)
    PROVE  Shape' /\ Calls'
<1> DEFINE f == Top(h)
           g == [op |-> f.then, join |-> f.join, left |-> Predecessors(f.join)]
           k == [f EXCEPT !.left = Rest(@)]
<1>1. ~Idle(h) /\ f.op = "preds" /\ f \in Frames /\ f.join \in Joins /\ f.then \in {"fire", "any"}
  BY TopIs, StackTyped, FrameFields DEF ReadPredecessor
<1>2. wf' = wf /\ UNCHANGED <<rows, instance, execution, record, requests, faults>>
  BY DEF ReadPredecessor, bounds
<1>3. Continue(h, <<g>>) \/ Continue(h, <<k>>) \/ Continue(h, <<>>)
  BY DEF ReadPredecessor
<1>4. g \in Frames /\ g.op # "revive" /\ (Asks(g) => Asks(f))
  BY <1>1, AskFrame DEF Asks
<1>5. k \in Frames /\ k.op # "revive" /\ (Asks(k) => Asks(f))
  BY <1>1, FrameRest DEF Asks
<1>6. stack' \in [Handlers -> Seq(Frames')] /\ Calls'
  <2> HIDE DEF g, k
  <2>1. f.op # "reset"
    BY <1>1
  <2>2. CASE Continue(h, <<g>>)
    BY <1>1, <1>2, <1>4, <2>1, <2>2, PushTop
  <2>3. CASE Continue(h, <<k>>)
    BY <1>1, <1>2, <1>5, <2>1, <2>3, PushTop
  <2>4. CASE Continue(h, <<>>)
    BY <1>1, <1>2, <2>4, PopPlain
  <2> QED BY <1>3, <2>2, <2>3, <2>4
<1> QED BY <1>2, <1>6, ShapeStatus, ShapeParts DEF rows

LEMMA FireShape ==
    ASSUME Shape, Calls, NEW h \in Handlers, FireJoin(h)
    PROVE  Shape' /\ Calls'
<1> DEFINE j == Top(h).join
<1>1. ~Idle(h) /\ Top(h).op = "fire" /\ Top(h) \in Frames /\ j \in Joins
  BY TopIs, StackTyped, FrameFields DEF FireJoin
<1>2. wf' = wf /\ UNCHANGED <<decision, rework, earlier, copies, reopened, instance, execution, record, requests, faults>>
  BY DEF FireJoin, bounds
<1>3. PICK next \in ActivateNextSteps(j, "complete") : Continue(h, next)
  BY DEF FireJoin
<1>4. j \in Steps
  BY <1>1 DEF Joins
<1>5. next \in Seq(Plain)
  BY <1>4, ActivatePushed
<1>6. stack' \in [Handlers -> Seq(Frames')] /\ Calls'
  BY <1>1, <1>2, <1>3, <1>5, PushPlain
<1>7. status' \in [Steps -> Statuses]
  BY ShapeParts DEF FireJoin, Statuses, Resolved, Finished
<1> QED BY <1>2, <1>6, <1>7, ShapeStatus

LEMMA ReworkFrames ==
    ASSUME Shape, NEW s \in Steps \ Joins
    PROVE  [op |-> "reset", step |-> s] \in Frames /\ [op |-> "revive", step |-> s] \in Frames
  BY DEF Frames

LEMMA ReworkShape ==
    ASSUME Shape, Calls, NEW h \in Handlers, ReadRework(h)
    PROVE  Shape' /\ Calls'
<1> DEFINE s == Top(h).step
           a == [op |-> "reset", step |-> s]
           b == [op |-> "revive", step |-> s]
<1>1. ~Idle(h) /\ Top(h).op = "rework" /\ Top(h) \in Frames /\ s \in Steps \ Joins
  BY TopIs, StackTyped, FrameFields DEF ReadRework
<1>2. wf' = wf /\ UNCHANGED <<rows, instance, execution, record, requests, faults>>
  BY DEF ReadRework, bounds
<1>3. Continue(h, <<>>) \/ Continue(h, <<[op |-> "fail"], [op |-> "failexec"]>>) \/ Continue(h, <<a, b>>)
  BY DEF ReadRework
<1>4. a \in Frames /\ b \in Frames /\ a.op = "reset" /\ b.op = "revive" /\ ~Asks(a) /\ ~Asks(b)
      /\ a.step = b.step
  BY <1>1, ReworkFrames DEF Asks
<1>5. stack' \in [Handlers -> Seq(Frames')] /\ Calls'
  <2>1. CASE Continue(h, <<>>)
    BY <1>1, <1>2, <2>1, PopPlain
  <2>2. CASE Continue(h, <<[op |-> "fail"], [op |-> "failexec"]>>)
    BY <1>1, <1>2, <2>2, OthersPushed, PushPlain
  <2>3. CASE Continue(h, <<a, b>>)
    <3> DEFINE q == stack[h]
               fs == <<a, b>>
               r == fs \o Tail(q)
    <3>1. stack' = [stack EXCEPT ![h] = r]
      BY <2>3 DEF Continue
    <3>2. q \in Seq(Frames) /\ q # <<>> /\ Orderly(q) /\ q[1].op # "reset"
      BY <1>1, StackTyped
    <3>3. fs \in Seq(Frames) /\ DOMAIN fs = 1..2 /\ fs[1] = a /\ fs[2] = b
      <4> HIDE DEF a, b
      <4> QED BY <1>4
    <3>4. \A i \in DOMAIN fs :
              /\ fs[i].op \in {"create", "preds", "any", "fire"} => i = 1
              /\ fs[i].op = "revive" => i = 2 /\ fs[1].op = "reset" /\ fs[1].step = fs[2].step
              /\ Asks(fs[i]) => 2 \in DOMAIN r /\ r[2].op = "joins"
      <4> HIDE DEF a, b, r
      <4> QED BY <1>4, <3>3
    <3>5. r \in Seq(Frames) /\ Orderly(r)
      <4>1. r = fs \o Tail(q)
        OBVIOUS
      <4> HIDE DEF q, fs, r
      <4> QED BY <3>2, <3>3, <3>4, <4>1, PushedOrderly
    <3> HIDE DEF r
    <3> QED BY <1>2, <3>1, <3>5, StackUpdated
  <2> QED BY <1>3, <2>1, <2>2, <2>3
<1> QED BY <1>2, <1>5, ShapeStatus, ShapeParts DEF rows

\* Actions that take their frame off and move the statuses of the run only.
LEMMA PopShape ==
    ASSUME Shape, Calls, NEW h \in Handlers, ~Idle(h), Continue(h, <<>>), wf' = wf,
           UNCHANGED <<rows, requests, faults>>,
           instance' \in {"absent", "running"} \cup Ended,
           execution' \in {"none", "running"} \cup Ended,
           record' \in {"draft", "submitted", "approved", "rejected"}
    PROVE  Shape' /\ Calls'
<1>1. stack' \in [Handlers -> Seq(Frames')] /\ Calls'
  BY PopPlain
<1>2. status' \in [Steps -> Statuses] /\ requests' \in 0..MaxRequests /\ faults' \in 0..MaxFaults
  BY ShapeParts DEF rows
<1>3. Shape'
  BY <1>1, <1>2, ShapeFrame DEF rows
<1> QED BY <1>1, <1>3

LEMMA ClosingShape ==
    ASSUME Shape, Calls, NEW h \in Handlers,
           FailInstance(h) \/ FailExecution(h) \/ EndExecution(h) \/ RecordExecution(h) \/ DriveRecords(h)
    PROVE  Shape' /\ Calls'
<1>1. ~Idle(h) /\ Continue(h, <<>>) /\ wf' = wf /\ UNCHANGED <<rows, requests, faults>>
  BY TopIs DEF FailInstance, FailExecution, EndExecution, RecordExecution, DriveRecords, bounds
<1>2. instance' \in {"absent", "running"} \cup Ended
  BY ShapeParts DEF FailInstance, FailExecution, EndExecution, RecordExecution, DriveRecords, Ended
<1>3. execution' \in {"none", "running"} \cup Ended
  <2>1. CASE RecordExecution(h)
    <3>1. Top(h).op = "record" /\ Top(h) \in Frames
      BY <2>1, TopIs, StackTyped DEF RecordExecution
    <3>2. Top(h).status \in {"running", "cancelled", "completed"}
      BY <3>1, FrameFields
    <3> QED BY <2>1, <3>2 DEF RecordExecution, Ended
  <2>2. CASE ~RecordExecution(h)
    BY <2>2, ShapeParts DEF FailInstance, FailExecution, EndExecution, DriveRecords, Ended
  <2> QED BY <2>1, <2>2
<1>4. record' \in {"draft", "submitted", "approved", "rejected"}
  BY ShapeParts DEF FailInstance, FailExecution, EndExecution, RecordExecution, DriveRecords, RecordAfter
<1> QED BY <1>1, <1>2, <1>3, <1>4, PopShape

LEMMA ReopenTyped ==
    ASSUME Shape, NEW S \in SUBSET Steps, NEW to \in Open, Reopen(S, to)
    PROVE  /\ status' \in [Steps -> Statuses]
           /\ decision' \in [Steps -> {"", "approve", "reject", "true", "false", "complete", "sent"}]
           /\ earlier' \in [Steps -> SUBSET Steps] /\ copies' \in [Steps -> Nat] /\ reopened' \subseteq Steps
<1>1. status' \in [Steps -> Statuses]
  BY ShapeParts DEF Reopen, Statuses
<1>2. decision' \in [Steps -> {"", "approve", "reject", "true", "false", "complete", "sent"}]
  BY ShapeParts DEF Reopen
<1>3. earlier' \in [Steps -> SUBSET Steps]
  <2>1. \A s \in Steps : earlier[s] \subseteq Steps
    BY ShapeParts
  <2> QED BY <2>1 DEF Reopen
<1>4. copies' \in [Steps -> Nat] /\ reopened' \subseteq Steps
  BY ShapeParts DEF Reopen
<1> QED BY <1>1, <1>2, <1>3, <1>4

LEMMA ClosureTyped ==
    ASSUME NEW S, NEW succ
    PROVE  Closure(S, succ) \subseteq DOMAIN succ
  BY DEF Closure

LEMMA DownstreamTyped ==
    ASSUME NEW t
    PROVE  Downstream(t) \subseteq Steps
<1> DEFINE succ == [s \in Steps |-> IF s = t THEN {} ELSE AllTargets(s)]
<1>1. DOMAIN succ = Steps
  OBVIOUS
<1>2. Downstream(t) = Closure(AllTargets(t), succ) \ {t}
  BY DEF Downstream
<1> HIDE DEF succ
<1> QED BY <1>1, <1>2, ClosureTyped

LEMMA ResetShape ==
    ASSUME Shape, Calls, NEW h \in Handlers, ResetDownstream(h)
    PROVE  Shape' /\ Calls'
<1> DEFINE S == Reset(Top(h).step)
<1>1. ~Idle(h) /\ Continue(h, <<>>) /\ wf' = wf /\ UNCHANGED <<rework, instance, execution, record, requests, faults>>
  BY TopIs DEF ResetDownstream, bounds
<1>2. S \in SUBSET Steps /\ "pending" \in Open /\ Reopen(S, "pending")
  BY DownstreamTyped DEF Reset, Open, ResetDownstream
<1>3. stack' \in [Handlers -> Seq(Frames')] /\ Calls'
  BY <1>1, PopPlain
<1>4. Shape'
  <2> HIDE DEF S
  <2> QED BY <1>1, <1>2, <1>3, ReopenTyped, ShapeParts, ShapeFrom
<1> QED BY <1>3, <1>4

LEMMA ReviveShape ==
    ASSUME Shape, Calls, NEW h \in Handlers, Revive(h)
    PROVE  Shape' /\ Calls'
<1> DEFINE s == Top(h).step
<1>1. ~Idle(h) /\ Top(h).op = "revive" /\ Top(h) \in Frames /\ s \in Steps
  BY TopIs, StackTyped, FrameFields DEF Revive
<1>2. wf' = wf /\ UNCHANGED <<instance, execution, record, requests, faults>> /\ Continue(h, ProcessAutoStep(s))
  BY DEF Revive, bounds
<1>3. {s} \in SUBSET Steps /\ "in_progress" \in Open /\ Reopen({s}, "in_progress")
  BY <1>1 DEF Open, Revive
<1>4. stack' \in [Handlers -> Seq(Frames')] /\ Calls'
  BY <1>1, <1>2, AutoPushed, PushPlain
<1>5. rework' \in [Steps -> Nat]
  <2>1. rework \in [Steps -> Nat] /\ rework' = [rework EXCEPT ![s] = rework[s] + 1]
    BY ShapeParts DEF Revive, ReworkCount
  <2> QED BY <1>1, <2>1
<1>6. Shape'
  <2> HIDE DEF s
  <2> QED BY <1>2, <1>3, <1>4, <1>5, ReopenTyped, ShapeParts, ShapeFrom
<1> QED BY <1>4, <1>6

LEMMA AutoShape ==
    ASSUME Shape, Calls, NEW h \in Handlers, RunAutoStep(h)
    PROVE  Shape' /\ Calls'
<1> DEFINE s == Top(h).step
<1>1. ~Idle(h) /\ Top(h).op = "auto" /\ Top(h) \in Frames /\ s \in Steps
  BY TopIs, StackTyped, FrameFields DEF RunAutoStep
<1>2. wf' = wf /\ UNCHANGED <<rework, earlier, copies, reopened, instance, execution, record, requests, faults>>
  BY DEF RunAutoStep, bounds
<1>3. \/ Continue(h, <<>>)
      \/ \E d : \E next \in ActivateNextSteps(s, d) : Continue(h, next)
  BY DEF RunAutoStep
<1>4. stack' \in [Handlers -> Seq(Frames')] /\ Calls'
  <2>1. CASE Continue(h, <<>>)
    BY <1>1, <1>2, <2>1, PopPlain
  <2>2. ASSUME NEW d, NEW next \in ActivateNextSteps(s, d), Continue(h, next)
        PROVE  stack' \in [Handlers -> Seq(Frames')] /\ Calls'
    BY <1>1, <1>2, <2>2, ActivatePushed, PushPlain
  <2> QED BY <1>3, <2>1, <2>2
<1>5. status' \in [Steps -> Statuses]
  BY ShapeParts DEF RunAutoStep, Statuses, Resolved, Finished
<1>6. decision' \in [Steps -> {"", "approve", "reject", "true", "false", "complete", "sent"}]
  BY ShapeParts DEF RunAutoStep, AutoDecisions
<1>7. Shape'
  BY <1>2, <1>4, <1>5, <1>6, ShapeParts, ShapeFrom
<1> QED BY <1>4, <1>7

LEMMA ReachableTyped == Reachable \subseteq Steps
<1> DEFINE S == {s \in Steps : status[s] \in Finished \cup {"in_progress"}}
           succ == [s \in Steps |-> IF status[s] \in Finished THEN ResolveNext(s, decision[s]) ELSE AllTargets(s)]
<1>1. DOMAIN succ = Steps
  OBVIOUS
<1>2. Reachable = Closure(S, succ)
  BY DEF Reachable
<1> HIDE DEF S, succ
<1> QED BY <1>1, <1>2, ClosureTyped

LEMMA PassShape ==
    ASSUME Shape, Calls, NEW h \in Handlers, ReadReachable(h) \/ Sweep(h)
    PROVE  Shape' /\ Calls'
<1> DEFINE f == Top(h)
<1>1. ~Idle(h) /\ f.op \in {"reach", "sweep"} /\ f \in Frames
  BY TopIs, StackTyped DEF ReadReachable, Sweep
<1>2. wf' = wf /\ UNCHANGED <<decision, rework, earlier, copies, reopened, instance, execution, record, requests, faults>>
  BY DEF ReadReachable, Sweep, rows, bounds
<1>3. stack' \in [Handlers -> Seq(Frames')] /\ Calls'
  <2>1. CASE ReadReachable(h)
    <3>1. f.op = "reach" /\ Continue(h, SweepFrom(f.pass, Reachable))
      BY <2>1, TopIs DEF ReadReachable
    <3>2. SweepFrom(f.pass, Reachable) \in Seq(Plain)
      BY <1>1, ReachableTyped, PassPushed
    <3> QED BY <1>1, <1>2, <3>1, <3>2, PushPlain
  <2>2. CASE Sweep(h)
    <3>1. f.op = "sweep" /\ \E changed \in BOOLEAN : Continue(h, FireJoins(f, changed))
      BY <2>2, TopIs DEF Sweep
    <3>2. \A changed \in BOOLEAN : FireJoins(f, changed) \in Seq(Plain)
      BY <1>1, <3>1, PassPushed
    <3> QED BY <1>1, <1>2, <3>1, <3>2, PushPlain
  <2> QED BY <2>1, <2>2
<1>4. status' \in [Steps -> Statuses]
  BY ShapeParts DEF ReadReachable, Sweep, rows, Statuses, Resolved
<1> QED BY <1>2, <1>3, <1>4, ShapeStatus

LEMMA NextJoinShape ==
    ASSUME Shape, Calls, NEW h \in Handlers, NextJoin(h)
    PROVE  Shape' /\ Calls'
<1> DEFINE f == Top(h)
           j == First(f.left)
           a == [op |-> "preds", join |-> j, left |-> Predecessors(j), then |-> "any"]
           b == [f EXCEPT !.left = Rest(@)]
<1>1. ~Idle(h) /\ f.op = "joins" /\ f \in Frames /\ f.pass \in Nat /\ f.left \subseteq Joins
  BY TopIs, StackTyped, FrameFields DEF NextJoin
<1>2. wf' = wf /\ UNCHANGED <<rows, instance, execution, record, requests, faults>>
  BY DEF NextJoin, bounds
<1>3. b \in Frames /\ b.op = "joins"
  BY <1>1, FrameRest
<1>4. stack' \in [Handlers -> Seq(Frames')] /\ Calls'
  <2>1. CASE f.left = {}
    <3>1. \E fs \in {ReconcileInstance(f.pass + 1), <<>>} : Continue(h, fs)
      BY <2>1 DEF NextJoin
    <3>2. ReconcileInstance(f.pass + 1) \in Seq(Plain) /\ <<>> \in Seq(Plain)
      BY <1>1, ReconcilePushed
    <3> QED BY <1>1, <1>2, <3>1, <3>2, PushPlain
  <2>2. CASE f.left # {} /\ status[j] # "pending"
    <3>1. Continue(h, <<>> \o <<b>>)
      BY <2>2 DEF NextJoin
    <3>2. Continue(h, <<b>>)
      <4> HIDE DEF b
      <4> QED BY <1>3, <3>1
    <3>3. ~Asks(b) /\ b.op # "revive" /\ f.op # "reset"
      BY <1>1, <1>3 DEF Asks
    <3> HIDE DEF b
    <3> QED BY <1>1, <1>2, <1>3, <3>2, <3>3, PushTop
  <2>3. CASE f.left # {} /\ status[j] = "pending"
    <3> DEFINE q == stack[h]
               fs == <<a>> \o <<b>>
               r == fs \o Tail(q)
    <3>1. j \in Joins
      <4>1. f.left \in SUBSET Nat
        BY <1>1, WfTyped DEF Joins
      <4> QED BY <1>1, <2>3, <4>1, FirstIn
    <3>2. a \in Frames
      BY <3>1, AskFrame
    <3>3. stack' = [stack EXCEPT ![h] = r]
      BY <2>3 DEF NextJoin, ReadPredecessors, Continue
    <3>4. q \in Seq(Frames) /\ q # <<>> /\ Orderly(q) /\ q[1].op # "reset"
      BY <1>1, StackTyped
    <3>5. fs \in Seq(Frames) /\ DOMAIN fs = 1..2 /\ Len(fs) = 2 /\ fs[1] = a /\ fs[2] = b
      <4> HIDE DEF a, b
      <4> QED BY <1>3, <3>2
    <3>6. 2 \in DOMAIN r /\ r[2] = b
      <4>1. fs = <<a>> \o <<b>> /\ r = fs \o Tail(q)
        OBVIOUS
      <4> HIDE DEF a, b, q, fs, r
      <4> QED BY <1>3, <3>2, <3>4, <4>1, TopTwo
    <3>7. \A i \in DOMAIN fs :
              /\ fs[i].op \in {"create", "preds", "any", "fire"} => i = 1
              /\ fs[i].op = "revive" => i = 2 /\ fs[1].op = "reset" /\ fs[1].step = fs[2].step
              /\ Asks(fs[i]) => 2 \in DOMAIN r /\ r[2].op = "joins"
      <4>1. a.op = "preds"
        OBVIOUS
      <4> HIDE DEF a, b, r
      <4> QED BY <1>3, <3>5, <3>6, <4>1
    <3>8. r \in Seq(Frames) /\ Orderly(r)
      <4>1. r = fs \o Tail(q)
        OBVIOUS
      <4> HIDE DEF q, fs, r
      <4> QED BY <3>4, <3>5, <3>7, <4>1, PushedOrderly
    <3> HIDE DEF r
    <3> QED BY <1>2, <3>3, <3>8, StackUpdated
  <2> QED BY <2>1, <2>2, <2>3
<1> QED BY <1>2, <1>4, ShapeStatus, ShapeParts DEF rows

\* ReadCompleted changes the frame it returns to.
LEMMA CompletedStack ==
    ASSUME Shape, Calls, NEW h \in Handlers, At(h, "any"), NEW j \in Joins
    PROVE  LET r == <<[op |-> "fire", join |-> j, left |-> {}]>>
                    \o <<[stack[h][2] EXCEPT !.changed = TRUE]>> \o Tail(Tail(stack[h])) IN
           /\ r \in Seq(Frames) /\ Orderly(r) /\ Len(r) = Len(stack[h]) /\ Len(r) \in Nat
           /\ r[1] = [op |-> "fire", join |-> j, left |-> {}]
           /\ r[2] = [stack[h][2] EXCEPT !.changed = TRUE] /\ r[2].op = "joins" /\ stack[h][2].op = "joins"
           /\ \A i \in 3..Len(r) : r[i] = stack[h][i]
<1> DEFINE q == stack[h]
           a == [op |-> "fire", join |-> j, left |-> {}]
           b == [q[2] EXCEPT !.changed = TRUE]
           r == <<a>> \o <<b>> \o Tail(Tail(q))
<1>1. ~Idle(h) /\ q[1].op = "any" /\ q \in Seq(Frames) /\ Orderly(q) /\ q # <<>>
  BY TopIs, StackTyped
<1>2. 1 \in DOMAIN q
  BY <1>1
<1>3. 2 \in DOMAIN q /\ q[2].op = "joins" /\ q[2] \in Frames /\ Len(q) >= 2
  <2>1. Asks(q[1])
    BY <1>1 DEF Asks
  <2>2. 2 \in DOMAIN q /\ q[2].op = "joins"
    BY <1>1, <1>2, <2>1 DEF Orderly
  <2> HIDE DEF q
  <2> QED BY <1>1, <2>2
<1>4. b \in Frames /\ b.op = "joins"
  BY <1>3, FrameChanged
<1>5. a \in Frames /\ a.op = "fire"
  BY DEF Frames
<1>8. /\ r \in Seq(Frames) /\ Len(r) = Len(q) /\ Len(r) \in Nat /\ DOMAIN r = 1..Len(r) /\ r[1] = a /\ r[2] = b
      /\ \A i \in 3..Len(r) : r[i] = q[i]
  <2> HIDE DEF q, a, b
  <2> QED BY <1>1, <1>3, <1>4, <1>5, SecondReplaced
<1>9. Orderly(r)
  <2> HIDE DEF a, b, q, r
  <2>1. DOMAIN r = 1..Len(r)
    BY <1>8
  <2>2. ~Asks(a) /\ ~Asks(b)
    BY <1>4, <1>5 DEF Asks
  <2>3. ASSUME NEW i \in 3..Len(r)
        PROVE  q[i].op \notin {"create", "preds", "any", "fire", "revive"}
    <3>1. i \in DOMAIN q /\ i # 1 /\ i # 2
      <4>1. DOMAIN q = 1..Len(q) /\ Len(q) \in Nat
        BY <1>1
      <4> QED BY <1>8, <4>1
    <3> QED BY <1>1, <3>1 DEF Orderly
  <2>4. ASSUME NEW i \in DOMAIN r
        PROVE  r[i].op \notin {"create", "preds", "any", "revive"} /\ ~Asks(r[i]) /\ (r[i].op = "fire" => i = 1)
    <3>1. CASE i \in 3..Len(r)
      BY <1>8, <2>3, <3>1 DEF Asks
    <3>2. CASE i \in {1, 2}
      BY <1>4, <1>5, <1>8, <2>2, <3>2
    <3>3. i \in 3..Len(r) \/ i \in {1, 2}
      BY <1>8, <2>1
    <3> QED BY <3>1, <3>2, <3>3
  <2> QED BY <2>4 DEF Orderly
<1> QED BY <1>3, <1>4, <1>8, <1>9

LEMMA CompletedShape ==
    ASSUME Shape, Calls, NEW h \in Handlers, ReadCompleted(h)
    PROVE  Shape' /\ Calls'
<1> DEFINE f == Top(h)
           k == [f EXCEPT !.left = Rest(@)]
           r == <<[op |-> "fire", join |-> f.join, left |-> {}]>>
                \o <<[stack[h][2] EXCEPT !.changed = TRUE]>> \o Tail(Tail(stack[h]))
<1>1. ~Idle(h) /\ f.op = "any" /\ f \in Frames /\ f.join \in Joins /\ At(h, "any")
  BY TopIs, StackTyped, FrameFields DEF ReadCompleted
<1>2. wf' = wf /\ UNCHANGED <<rows, instance, execution, record, requests, faults>>
  BY DEF ReadCompleted, bounds
<1>3. Continue(h, <<>>) \/ Continue(h, <<k>>) \/ stack' = [stack EXCEPT ![h] = r]
  BY DEF ReadCompleted
<1>4. stack' \in [Handlers -> Seq(Frames')] /\ Calls'
  <2>1. CASE Continue(h, <<>>)
    BY <1>1, <1>2, <2>1, PopPlain
  <2>2. CASE Continue(h, <<k>>)
    <3>1. k \in Frames /\ k.op # "revive" /\ (Asks(k) => Asks(f)) /\ f.op # "reset"
      BY <1>1, FrameRest DEF Asks
    <3> HIDE DEF k
    <3> QED BY <1>1, <1>2, <2>2, <3>1, PushTop
  <2>3. CASE stack' = [stack EXCEPT ![h] = r]
    <3>1. r \in Seq(Frames) /\ Orderly(r)
      BY <1>1, CompletedStack
    <3> HIDE DEF r
    <3> QED BY <1>2, <2>3, <3>1, StackUpdated
  <2> QED BY <1>3, <2>1, <2>2, <2>3
<1> QED BY <1>2, <1>4, ShapeStatus, ShapeParts DEF rows

LEMMA IdleShape ==
    ASSUME Shape, Calls, NEW h \in Handlers, ReadIdle(h) \/ ReadMirror(h)
    PROVE  Shape' /\ Calls'
<1>1. ~Idle(h) /\ Top(h).op # "reset"
  BY TopIs DEF ReadIdle, ReadMirror
<1>2. wf' = wf /\ UNCHANGED <<rows, instance, execution, record, requests, faults>>
  BY DEF ReadIdle, ReadMirror, bounds
<1>3. \/ \E fs \in {<<>>, CloseInstance} : Continue(h, fs)
      \/ \E as \in {"running", "cancelled", "completed"} : Continue(h, RecordMirror(as))
  BY DEF ReadIdle, ReadMirror
<1>4. \E fs \in Seq(Plain) : Continue(h, fs)
  <2>1. <<>> \in Seq(Plain) /\ CloseInstance \in Seq(Plain)
    BY OthersPushed
  <2>2. \A as \in {"running", "cancelled", "completed"} : RecordMirror(as) \in Seq(Plain)
    BY OthersPushed
  <2> QED BY <1>3, <2>1, <2>2
<1>5. stack' \in [Handlers -> Seq(Frames')] /\ Calls'
  BY <1>1, <1>2, <1>4, PushPlain
<1> QED BY <1>2, <1>5, ShapeStatus, ShapeParts DEF rows

LEMMA SkipShape ==
    ASSUME Shape, Calls, NEW h \in Handlers, SkipPending(h)
    PROVE  Shape' /\ Calls'
<1>1. ~Idle(h) /\ wf' = wf /\ UNCHANGED <<decision, rework, earlier, copies, reopened, instance, execution, record, requests, faults>>
  BY TopIs DEF SkipPending, bounds
<1>2. stack' \in [Handlers -> Seq(Frames')] /\ Calls'
  BY <1>1, PopPlain DEF SkipPending
<1>3. status' \in [Steps -> Statuses]
  BY ShapeParts DEF SkipPending, Statuses, Resolved
<1> QED BY <1>1, <1>2, <1>3, ShapeStatus

LEMMA EndShape ==
    ASSUME Shape, Calls, NEW h \in Handlers, EndInstance(h)
    PROVE  Shape' /\ Calls'
<1>1. ~Idle(h) /\ Top(h).op # "reset"
  BY TopIs DEF EndInstance
<1>2. wf' = wf /\ UNCHANGED <<rows, execution, record, requests, faults>>
  BY DEF EndInstance, bounds
<1>3. \E fs \in {<<>>, Drive("finished")} : Continue(h, fs)
  BY DEF EndInstance
<1>4. <<>> \in Seq(Plain) /\ Drive("finished") \in Seq(Plain)
  BY OthersPushed
<1>5. stack' \in [Handlers -> Seq(Frames')] /\ Calls'
  BY <1>1, <1>2, <1>3, <1>4, PushPlain
<1>6. instance' \in {"absent", "running"} \cup Ended
  BY ShapeParts DEF EndInstance, Ended
<1> QED BY <1>2, <1>5, <1>6, ShapeFrame, ShapeParts DEF rows

LEMMA StatementShape ==
    ASSUME Shape, Calls, NEW h \in Handlers, Statement(h)
    PROVE  Shape' /\ Calls'
<1>1. CASE CreateStep(h) \/ Fallback(h) \/ Activate(h) \/ ActivateJoin(h) \/ ReadPredecessor(h) \/ FireJoin(h)
  BY <1>1, CreateShape, FallbackShape, ActivateShape, ActivateJoinShape, PredecessorShape, FireShape
<1>2. CASE ReadRework(h) \/ FailInstance(h) \/ FailExecution(h) \/ ResetDownstream(h) \/ Revive(h) \/ RunAutoStep(h)
  BY <1>2, ReworkShape, ClosingShape, ResetShape, ReviveShape, AutoShape
<1>3. CASE ReadReachable(h) \/ Sweep(h) \/ NextJoin(h) \/ ReadCompleted(h) \/ ReadIdle(h) \/ SkipPending(h)
  BY <1>3, PassShape, NextJoinShape, CompletedShape, IdleShape, SkipShape
<1>4. CASE EndInstance(h) \/ EndExecution(h) \/ DriveRecords(h) \/ ReadMirror(h) \/ RecordExecution(h)
  BY <1>4, EndShape, ClosingShape, IdleShape
<1> QED BY <1>1, <1>2, <1>3, <1>4 DEF Statement

LEMMA ShapeStep == Shape /\ Calls /\ [Next]_vars => Shape' /\ Calls'
<1> SUFFICES ASSUME Shape, Calls, [Next]_vars PROVE Shape' /\ Calls'
  OBVIOUS
<1>1. ASSUME NEW h \in Handlers, StartWorkflow(h) PROVE Shape' /\ Calls'
  BY <1>1, StartStep
<1>2. ASSUME NEW h \in Handlers, NEW s \in Steps, NEW d \in Decisions(s), CompleteStep(h, s, d) PROVE Shape' /\ Calls'
  BY <1>2, CompleteShape
<1>3. ASSUME NEW h \in Handlers, CancelInstance(h) PROVE Shape' /\ Calls'
  BY <1>3, CancelShape
<1>4. ASSUME NEW h \in Handlers, Statement(h) PROVE Shape' /\ Calls'
  BY <1>4, StatementShape
<1>5. ASSUME NEW h \in Handlers, Abandon(h) \/ StatementFails(h) PROVE Shape' /\ Calls'
  BY <1>5, FaultShape
<1>6. CASE UNCHANGED vars
  <2>1. wf' = wf /\ stack' = stack /\ UNCHANGED <<rows, instance, execution, record, requests, faults>>
    BY <1>6 DEF vars, bounds
  <2>2. stack' \in [Handlers -> Seq(Frames')]
    BY <2>1, SameWorkflow DEF Shape
  <2>3. Shape'
    BY <2>1, <2>2, ShapeStatus, ShapeParts DEF rows
  <2>4. Calls'
    BY <2>1 DEF Calls, Orderly, Asks
  <2> QED BY <2>3, <2>4
<1> QED BY <1>1, <1>2, <1>3, <1>4, <1>5, <1>6 DEF Next

LEMMA ShapeInit == Init => Shape /\ Calls
<1> SUFFICES ASSUME Init PROVE Shape /\ Calls
  OBVIOUS
<1>1. stack = [h \in Handlers |-> <<>>] /\ requests = 0 /\ faults = 0
  BY DEF Init
<1>2. stack \in [Handlers -> Seq(Frames)] /\ Calls
  BY <1>1 DEF Calls, Orderly
<1>3. requests \in 0..MaxRequests /\ faults \in 0..MaxFaults
  BY <1>1, BoundsTyped
<1> QED BY <1>2, <1>3 DEF Init, Shape

\* Every variable keeps the shape of the column it stands for and every
\* handler's stack holds frames that the code can be in, whatever the
\* handlers do at the same time and wherever they fail.
THEOREM ShapeCorrect == Spec => []Shape
<1>1. Init => Shape /\ Calls
  BY ShapeInit
<1>2. Shape /\ Calls /\ [Next]_vars => Shape' /\ Calls'
  BY ShapeStep
<1> QED BY <1>1, <1>2, PTL DEF Spec

-----------------------------------------------------------------------------
(* Rows that are there stay, and a decision stands until a rework. *)

\* The step rows are inserted once, by the handler that started the run.
Inserting ==
    /\ instance = "absent" => (\A s \in Steps : status[s] = "absent") /\ \A h \in Handlers : Idle(h)
    /\ \A h \in Handlers : At(h, "create") => \A s \in Steps : s >= Top(h).step => status[s] = "absent"
    /\ \A g, h \in Handlers : At(g, "create") /\ At(h, "create") => g = h

\* A step that is sent back was there.
SentBack ==
    \A h \in Handlers : \A i \in DOMAIN stack[h] :
        stack[h][i].op \in {"reset", "revive"} => status[stack[h][i].step] # "absent"

\* Facts were copied for a step that is finished, and once.
CopiesStand ==
    \A s \in Steps :
        /\ copies[s] <= IF wf.test THEN 0 ELSE 1
        /\ copies[s] > 0 => status[s] \in Finished

\* The handlers that are about to open s again.
Reviving(s) ==
    {h \in Handlers : \E i \in DOMAIN stack[h] : stack[h][i].op = "revive" /\ stack[h][i].step = s}

\* Each of them found the count below the cap.
ReworkInv ==
    \A s \in Steps :
        rework[s] > 0 \/ Reviving(s) # {}
        => rework[s] + Cardinality(Reviving(s)) <= MaxReworks + Cardinality(Handlers) - 1

\* The handlers' steps, as seen by the frames: h has pushed frames of F and
\* has left at least its top frame behind, the others stand still.
Pushed(h, F) ==
    /\ \A g \in Handlers \ {h} : stack'[g] = stack[g]
    /\ \A i \in DOMAIN stack'[h] :
        stack'[h][i] \in F \/ \E k \in DOMAIN stack[h] : k > 1 /\ stack'[h][i] = stack[h][k]

\* What a handler pushes once the run is created.
Fresh ==
    {f \in Frames :
        /\ f.op # "create"
        /\ f.op = "drive" => f.event # "started"
        /\ f.op \in {"reset", "revive"} => status[f.step] \notin Open \cup {"absent"} /\ ~AtCap(f.step)}

LEMMA PlainFresh ==
    ASSUME NEW fs \in Seq(Plain)
    PROVE  fs \in Seq(Fresh)
<1>1. \A f \in Plain : f \in Fresh
  BY DEF Plain, Fresh
<1> QED BY <1>1

LEMMA ContinuePushes ==
    ASSUME Shape, Calls, NEW h \in Handlers, ~Idle(h), NEW F, NEW fs \in Seq(F), F \subseteq Frames, Continue(h, fs)
    PROVE  Pushed(h, F)
<1> DEFINE q == stack[h]
           r == fs \o Tail(q)
<1>1. q \in Seq(Frames) /\ q # <<>>
  BY StackTyped
<1>2. fs \in Seq(Frames)
  OBVIOUS
<1>3. stack' = [stack EXCEPT ![h] = r] /\ stack \in [Handlers -> Seq(Frames)]
  BY DEF Continue, Shape
<1>4. /\ r \in Seq(Frames) /\ Len(r) = Len(fs) + Len(q) - 1
      /\ Len(q) \in Nat \ {0} /\ Len(fs) \in Nat
      /\ \A i \in 1..Len(r) : r[i] = IF i <= Len(fs) THEN fs[i] ELSE q[i - Len(fs) + 1]
  <2>1. r = fs \o Tail(q)
    OBVIOUS
  <2> HIDE DEF q, r
  <2> QED BY <1>1, <1>2, <2>1, Replaced
<1>5. ASSUME NEW i \in DOMAIN r PROVE r[i] \in F \/ \E k \in DOMAIN q : k > 1 /\ r[i] = q[k]
  <2> HIDE DEF q, r
  <2>1. i \in 1..Len(r) /\ DOMAIN q = 1..Len(q) /\ DOMAIN fs = 1..Len(fs)
    BY <1>1, <1>4
  <2>2. CASE i <= Len(fs)
    <3>1. i \in DOMAIN fs /\ r[i] = fs[i]
      BY <1>4, <2>1, <2>2
    <3> QED BY <3>1
  <2>3. CASE ~(i <= Len(fs))
    <3>1. i - Len(fs) + 1 \in DOMAIN q /\ i - Len(fs) + 1 > 1 /\ r[i] = q[i - Len(fs) + 1]
      BY <1>4, <2>1, <2>3
    <3> QED BY <3>1
  <2> QED BY <2>2, <2>3
<1>6. stack'[h] = r /\ \A g \in Handlers \ {h} : stack'[g] = stack[g]
  <2> HIDE DEF r
  <2> QED BY <1>3
<1> HIDE DEF q, r
<1> QED BY <1>5, <1>6 DEF Pushed, q

LEMMA RequestPushes ==
    ASSUME Shape, NEW h \in Handlers, NEW F, NEW fs \in Seq(F), stack' = [stack EXCEPT ![h] = fs]
    PROVE  Pushed(h, F)
<1>1. stack'[h] = fs /\ \A g \in Handlers \ {h} : stack'[g] = stack[g]
  BY DEF Shape
<1> QED BY <1>1 DEF Pushed

\* A single frame.
LEMMA OnePushed ==
    ASSUME Shape, Calls, NEW h \in Handlers, ~Idle(h), NEW f \in Fresh, Continue(h, <<f>>)
    PROVE  Pushed(h, Fresh)
<1>1. <<f>> \in Seq(Fresh) /\ Fresh \subseteq Frames
  BY DEF Fresh
<1> QED BY <1>1, ContinuePushes

LEMMA PlainPushed ==
    ASSUME Shape, Calls, NEW h \in Handlers, ~Idle(h), NEW fs \in Seq(Plain), Continue(h, fs)
    PROVE  Pushed(h, Fresh)
<1>1. Fresh \subseteq Frames
  BY DEF Fresh
<1> QED BY <1>1, PlainFresh, ContinuePushes

LEMMA RequestsPush ==
    ASSUME Shape, Calls, NEW h \in Handlers,
           \/ \E s \in Steps : \E d \in Decisions(s) : CompleteStep(h, s, d)
           \/ CancelInstance(h)
    PROVE  Pushed(h, Fresh)
<1>1. ASSUME NEW fs \in Seq(Plain), Request(h, fs) PROVE Pushed(h, Fresh)
  BY <1>1, PlainFresh, RequestPushes DEF Request
<1>2. CASE CancelInstance(h)
  BY <1>1, <1>2, OthersPushed DEF CancelInstance
<1>3. ASSUME NEW s \in Steps, NEW d \in Decisions(s), CompleteStep(h, s, d) PROVE Pushed(h, Fresh)
  <2>1. PICK next \in ActivateNextSteps(s, d) : Request(h, next \o ReconcileInstance(1) \o CloseInstanceIfIdle)
    BY <1>3 DEF CompleteStep
  <2> QED BY <1>1, <2>1, CompleteFrames
<1> QED BY <1>2, <1>3

LEMMA FaultsPush ==
    ASSUME Shape, Calls, NEW h \in Handlers, Abandon(h) \/ StatementFails(h)
    PROVE  Pushed(h, Fresh)
<1> DEFINE f == Top(h)
<1>1. ~Idle(h) /\ f \in Frames
  BY StackTyped DEF Abandon, StatementFails
<1>2. CASE stack' = [stack EXCEPT ![h] = <<>>]
  <2>1. <<>> \in Seq(Fresh)
    OBVIOUS
  <2> QED BY <1>2, <2>1, RequestPushes
<1>3. CASE stack' # [stack EXCEPT ![h] = <<>>]
  <2>1. PICK next \in AfterFailure(f) : Queries(f) /\ f.op # "create" /\ Continue(h, next)
    BY <1>3 DEF Abandon, StatementFails
  <2>2. CASE f.op \in {"joins", "any"}
    <3> DEFINE g == [f EXCEPT !.left = Rest(@)]
    <3>1. next = <<g>>
      BY <2>1, <2>2 DEF AfterFailure
    <3>2. g \in Fresh
      BY <1>1, <2>2, FrameRest DEF Fresh
    <3> HIDE DEF g
    <3> QED BY <1>1, <2>1, <3>1, <3>2, OnePushed
  <2>3. CASE f.op \notin {"joins", "any"}
    <3>1. next \in Seq(Plain)
      BY <1>1, <2>1, <2>3, FailurePlain
    <3> QED BY <1>1, <2>1, <3>1, PlainPushed
  <2> QED BY <2>2, <2>3
<1> QED BY <1>2, <1>3

LEMMA PopsPush ==
    ASSUME Shape, Calls, NEW h \in Handlers,
           \/ Fallback(h) \/ FailInstance(h) \/ FailExecution(h) \/ ResetDownstream(h) \/ SkipPending(h)
           \/ EndExecution(h) \/ DriveRecords(h) \/ RecordExecution(h)
    PROVE  Pushed(h, Fresh)
<1>1. ~Idle(h) /\ Continue(h, <<>>)
  BY TopIs DEF Fallback, FailInstance, FailExecution, ResetDownstream, SkipPending, EndExecution, DriveRecords, RecordExecution
<1>2. <<>> \in Seq(Plain)
  OBVIOUS
<1> QED BY <1>1, <1>2, PlainPushed

LEMMA PlainStatements ==
    ASSUME Shape, Calls, NEW h \in Handlers,
           \/ Activate(h) \/ FireJoin(h) \/ Revive(h) \/ RunAutoStep(h) \/ ReadReachable(h) \/ Sweep(h)
           \/ ReadIdle(h) \/ EndInstance(h) \/ ReadMirror(h)
    PROVE  ~Idle(h) /\ \E fs \in Seq(Plain) : Continue(h, fs)
<1> DEFINE f == Top(h)
<1>1. ~Idle(h) /\ f \in Frames
  BY TopIs, StackTyped
  DEF Activate, FireJoin, Revive, RunAutoStep, ReadReachable, Sweep, ReadIdle, EndInstance, ReadMirror
<1>2. <<>> \in Seq(Plain)
  OBVIOUS
<1>3. CASE Activate(h)
  <2>1. f.op = "activate" /\ f.to \in Steps \ Joins
    BY <1>1, <1>3, TopIs, FrameFields DEF Activate, Joins
  <2>2. [op |-> "rework", step |-> f.to] \in Plain
    BY <2>1 DEF Plain, Frames
  <2>3. <<[op |-> "rework", step |-> f.to]>> \in Seq(Plain) /\ ProcessAutoStep(f.to) \in Seq(Plain)
    BY <2>1, <2>2, AutoPushed
  <2>4. Continue(h, <<[op |-> "rework", step |-> f.to]>>) \/ Continue(h, ProcessAutoStep(f.to))
    BY <1>3 DEF Activate
  <2> QED BY <1>1, <2>3, <2>4
<1>4. CASE FireJoin(h)
  <2>1. f.join \in Steps /\ \E next \in ActivateNextSteps(f.join, "complete") : Continue(h, next)
    BY <1>1, <1>4, TopIs, FrameFields DEF FireJoin, Joins
  <2> QED BY <1>1, <2>1, ActivatePushed
<1>5. CASE Revive(h)
  <2>1. f.step \in Steps /\ Continue(h, ProcessAutoStep(f.step))
    BY <1>1, <1>5, TopIs, FrameFields DEF Revive
  <2> QED BY <1>1, <2>1, AutoPushed
<1>6. CASE RunAutoStep(h)
  <2>1. f.step \in Steps
    BY <1>1, <1>6, TopIs, FrameFields DEF RunAutoStep
  <2>2. Continue(h, <<>>) \/ \E d : \E next \in ActivateNextSteps(f.step, d) : Continue(h, next)
    BY <1>6 DEF RunAutoStep
  <2>3. ASSUME NEW d, NEW next \in ActivateNextSteps(f.step, d) PROVE next \in Seq(Plain)
    BY <2>1, ActivatePushed
  <2> QED BY <1>1, <1>2, <2>2, <2>3
<1>7. CASE ReadReachable(h)
  <2>1. f.op = "reach" /\ Continue(h, SweepFrom(f.pass, Reachable))
    BY <1>7, TopIs DEF ReadReachable
  <2>2. SweepFrom(f.pass, Reachable) \in Seq(Plain)
    BY <1>1, <2>1, ReachableTyped, PassPushed
  <2> QED BY <1>1, <2>1, <2>2
<1>8. CASE Sweep(h)
  <2>1. f.op = "sweep" /\ \E changed \in BOOLEAN : Continue(h, FireJoins(f, changed))
    BY <1>8, TopIs DEF Sweep
  <2>2. \A changed \in BOOLEAN : FireJoins(f, changed) \in Seq(Plain)
    BY <1>1, <2>1, PassPushed
  <2> QED BY <1>1, <2>1, <2>2
<1>9. CASE ReadIdle(h)
  <2>1. Continue(h, <<>>) \/ Continue(h, CloseInstance)
    BY <1>9 DEF ReadIdle
  <2>2. CloseInstance \in Seq(Plain)
    BY OthersPushed
  <2> QED BY <1>1, <1>2, <2>1, <2>2
<1>10. CASE EndInstance(h)
  <2>1. Continue(h, <<>>) \/ Continue(h, Drive("finished"))
    BY <1>10 DEF EndInstance
  <2>2. Drive("finished") \in Seq(Plain)
    BY OthersPushed
  <2> QED BY <1>1, <1>2, <2>1, <2>2
<1>11. CASE ReadMirror(h)
  <2>1. \E as \in {"running", "cancelled", "completed"} : Continue(h, RecordMirror(as))
    BY <1>11 DEF ReadMirror
  <2>2. \A as \in {"running", "cancelled", "completed"} : RecordMirror(as) \in Seq(Plain)
    BY OthersPushed
  <2> QED BY <1>1, <2>1, <2>2
<1> QED BY <1>3, <1>4, <1>5, <1>6, <1>7, <1>8, <1>9, <1>10, <1>11

LEMMA JoinsPush ==
    ASSUME Shape, Calls, NEW h \in Handlers,
           ActivateJoin(h) \/ ReadPredecessor(h) \/ NextJoin(h) \/ ReadCompleted(h)
    PROVE  Pushed(h, Fresh)
<1> DEFINE f == Top(h)
           k == [f EXCEPT !.left = Rest(@)]
<1>1. ~Idle(h) /\ f \in Frames
  BY TopIs, StackTyped DEF ActivateJoin, ReadPredecessor, NextJoin, ReadCompleted
<1>2. <<>> \in Seq(Plain) /\ <<>> \in Seq(Fresh)
  OBVIOUS
<1>3. ASSUME f.op \in {"preds", "any", "joins"} PROVE k \in Fresh
  BY <1>1, <1>3, FrameRest DEF Fresh
<1>4. CASE ActivateJoin(h)
  <2> DEFINE g == [op |-> "preds", join |-> f.to, left |-> Predecessors(f.to), then |-> "fire"]
  <2>1. f.to \in Joins /\ Continue(h, <<g>>)
    BY <1>1, <1>4, TopIs, FrameFields DEF ActivateJoin, ReadPredecessors, Joins
  <2>2. g \in Fresh
    BY <2>1, AskFrame DEF Fresh
  <2> HIDE DEF g
  <2> QED BY <1>1, <2>1, <2>2, OnePushed
<1>5. CASE ReadPredecessor(h)
  <2> DEFINE g == [op |-> f.then, join |-> f.join, left |-> Predecessors(f.join)]
  <2>1. f.op = "preds" /\ f.join \in Joins /\ f.then \in {"fire", "any"}
    BY <1>1, <1>5, TopIs, FrameFields DEF ReadPredecessor
  <2>2. Continue(h, <<g>>) \/ Continue(h, <<k>>) \/ Continue(h, <<>>)
    BY <1>5 DEF ReadPredecessor
  <2>3. g \in Fresh /\ k \in Fresh
    BY <1>3, <2>1, AskFrame DEF Fresh
  <2> HIDE DEF g, k
  <2>4. Continue(h, <<g>>) => Pushed(h, Fresh)
    BY <1>1, <2>3, OnePushed
  <2>5. Continue(h, <<k>>) => Pushed(h, Fresh)
    BY <1>1, <2>3, OnePushed
  <2>6. Continue(h, <<>>) => Pushed(h, Fresh)
    BY <1>1, <1>2, PlainPushed
  <2> QED BY <2>2, <2>4, <2>5, <2>6
<1>6. CASE NextJoin(h)
  <2> DEFINE j == First(f.left)
             g == [op |-> "preds", join |-> j, left |-> Predecessors(j), then |-> "any"]
  <2>1. f.op = "joins" /\ f.pass \in Nat /\ f.left \subseteq Joins /\ k \in Fresh
    BY <1>1, <1>3, <1>6, TopIs, FrameFields DEF NextJoin
  <2>2. CASE f.left = {}
    <3>1. Continue(h, ReconcileInstance(f.pass + 1)) \/ Continue(h, <<>>)
      BY <1>6, <2>2 DEF NextJoin
    <3>2. ReconcileInstance(f.pass + 1) \in Seq(Plain)
      BY <2>1, ReconcilePushed
    <3> QED BY <1>1, <1>2, <3>1, <3>2, PlainPushed
  <2>3. CASE f.left # {}
    <3>1. f.left \in SUBSET Nat
      BY <2>1, WfTyped DEF Joins
    <3>2. j \in Joins
      BY <2>1, <2>3, <3>1, FirstIn
    <3>3. g \in Fresh
      BY <3>2, AskFrame DEF Fresh
    <3>4. Continue(h, <<g>> \o <<k>>) \/ Continue(h, <<>> \o <<k>>)
      BY <1>6, <2>3 DEF NextJoin, ReadPredecessors
    <3>5. <<g>> \o <<k>> \in Seq(Fresh) /\ <<>> \o <<k>> \in Seq(Fresh)
      <4> HIDE DEF g, k
      <4> QED BY <2>1, <3>3
    <3>6. Fresh \subseteq Frames
      BY DEF Fresh
    <3> HIDE DEF g, k
    <3> QED BY <1>1, <3>4, <3>5, <3>6, ContinuePushes
  <2> QED BY <2>2, <2>3
<1>7. CASE ReadCompleted(h)
  <2> DEFINE r == <<[op |-> "fire", join |-> f.join, left |-> {}]>>
                  \o <<[stack[h][2] EXCEPT !.changed = TRUE]>> \o Tail(Tail(stack[h]))
  <2>1. f.op = "any" /\ f.join \in Joins /\ At(h, "any")
    BY <1>1, <1>7, TopIs, FrameFields DEF ReadCompleted
  <2>2. Continue(h, <<>>) \/ Continue(h, <<k>>) \/ stack' = [stack EXCEPT ![h] = r]
    BY <1>7 DEF ReadCompleted
  <2>3. Continue(h, <<>>) => Pushed(h, Fresh)
    BY <1>1, <1>2, PlainPushed
  <2>4. Continue(h, <<k>>) => Pushed(h, Fresh)
    <3>1. k \in Fresh
      BY <1>3, <2>1
    <3> HIDE DEF k
    <3> QED BY <1>1, <3>1, OnePushed
  <2>5. ASSUME stack' = [stack EXCEPT ![h] = r] PROVE Pushed(h, Fresh)
    <3>1. /\ r \in Seq(Frames) /\ Len(r) = Len(stack[h]) /\ Len(r) \in Nat
          /\ r[1] = [op |-> "fire", join |-> f.join, left |-> {}]
          /\ r[2].op = "joins" /\ \A i \in 3..Len(r) : r[i] = stack[h][i]
      BY <2>1, CompletedStack
    <3>2. r[1].op = "fire"
      BY <3>1
    <3> HIDE DEF r
    <3>3. stack'[h] = r /\ \A g \in Handlers \ {h} : stack'[g] = stack[g]
      BY <2>5 DEF Shape
    <3>4. DOMAIN r = 1..Len(r) /\ DOMAIN stack[h] = 1..Len(r)
      BY <3>1, StackTyped
    <3>5. ASSUME NEW i \in DOMAIN r
          PROVE  r[i] \in Fresh \/ \E m \in DOMAIN stack[h] : m > 1 /\ r[i] = stack[h][m]
      <4>1. CASE i \in {1, 2}
        <5>1. r[i] \in Frames /\ r[i].op \in {"fire", "joins"}
          BY <3>1, <3>2, <4>1
        <5> QED BY <5>1 DEF Fresh
      <4>2. CASE i \notin {1, 2}
        <5>1. i \in 3..Len(r) /\ i > 1
          BY <3>1, <3>4, <4>2
        <5> QED BY <3>1, <3>4, <5>1
      <4> QED BY <4>1, <4>2
    <3> QED BY <3>3, <3>5 DEF Pushed
  <2> QED BY <2>2, <2>3, <2>4, <2>5
<1> QED BY <1>4, <1>5, <1>6, <1>7

LEMMA ReworkPush ==
    ASSUME Shape, Calls, NEW h \in Handlers, ReadRework(h)
    PROVE  Pushed(h, Fresh)
<1> DEFINE s == Top(h).step
           a == [op |-> "reset", step |-> s]
           b == [op |-> "revive", step |-> s]
<1>1. ~Idle(h) /\ s \in Steps \ Joins
  BY TopIs, StackTyped, FrameFields DEF ReadRework
<1>2. \/ Continue(h, <<>>) \/ Continue(h, <<[op |-> "fail"], [op |-> "failexec"]>>)
      \/ status[s] \notin Open \cup {"absent"} /\ ~AtCap(s) /\ Continue(h, <<a, b>>)
  BY DEF ReadRework
<1>3. CASE Continue(h, <<>>)
  <2>1. <<>> \in Seq(Plain)
    OBVIOUS
  <2> QED BY <1>1, <1>3, <2>1, PlainPushed
<1>4. CASE Continue(h, <<[op |-> "fail"], [op |-> "failexec"]>>)
  BY <1>1, <1>4, OthersPushed, PlainPushed
<1>5. CASE status[s] \notin Open \cup {"absent"} /\ ~AtCap(s) /\ Continue(h, <<a, b>>)
  <2>1. a \in Fresh /\ b \in Fresh
    BY <1>1, <1>5, ReworkFrames DEF Fresh
  <2> HIDE DEF a, b
  <2>2. <<a, b>> \in Seq(Fresh) /\ Fresh \subseteq Frames
    BY <2>1 DEF Fresh
  <2> QED BY <1>1, <1>5, <2>2, ContinuePushes
<1> QED BY <1>2, <1>3, <1>4, <1>5

LEMMA StatementsPush ==
    ASSUME Shape, Calls, NEW h \in Handlers, Statement(h), ~CreateStep(h)
    PROVE  Pushed(h, Fresh)
<1>1. ASSUME ~Idle(h), NEW fs \in Seq(Plain), Continue(h, fs) PROVE Pushed(h, Fresh)
  BY <1>1, PlainPushed
<1>2. CASE \/ Fallback(h) \/ FailInstance(h) \/ FailExecution(h) \/ ResetDownstream(h) \/ SkipPending(h)
           \/ EndExecution(h) \/ DriveRecords(h) \/ RecordExecution(h)
  BY <1>2, PopsPush
<1>3. CASE \/ Activate(h) \/ FireJoin(h) \/ Revive(h) \/ RunAutoStep(h) \/ ReadReachable(h) \/ Sweep(h)
           \/ ReadIdle(h) \/ EndInstance(h) \/ ReadMirror(h)
  BY <1>1, <1>3, PlainStatements
<1>4. CASE ActivateJoin(h) \/ ReadPredecessor(h) \/ NextJoin(h) \/ ReadCompleted(h)
  BY <1>4, JoinsPush
<1>5. CASE ReadRework(h)
  BY <1>5, ReworkPush
<1> QED BY <1>2, <1>3, <1>4, <1>5 DEF Statement

\* What a statement may do to the row of a step that is there: leave it, move
\* an open one on, finish an open one with its copy, or open it again.
Moves(s) ==
    \/ status'[s] = status[s] /\ copies'[s] = copies[s]
    \/ status[s] \in Open /\ status'[s] \in Open \cup Resolved /\ copies'[s] = copies[s]
    \/ /\ status[s] \in Open /\ status'[s] \in Finished
       /\ copies'[s] <= copies[s] + (IF wf.test THEN 0 ELSE 1)
    \/ status[s] # "absent" /\ status'[s] \in Open /\ copies'[s] = 0 /\ s \in reopened'

\* The INSERT of a row.
Appears(s) == status[s] = "absent" /\ status'[s] \in Open /\ copies'[s] = copies[s]

\* One column moves along, at most.
LEMMA StatusMoves ==
    ASSUME Shape, copies' = copies, NEW s \in Steps,
           status'[s] = status[s] \/ (status[s] \in Open /\ status'[s] \in Open \cup Resolved)
    PROVE  Moves(s)
  BY DEF Moves

LEMMA RequestMoves ==
    ASSUME Shape, NEW h \in Handlers, NEW s \in Steps,
           \/ \E t \in Steps : \E d \in Decisions(t) : CompleteStep(h, t, d)
           \/ CancelInstance(h)
    PROVE  Moves(s)
<1>1. status \in [Steps -> Statuses] /\ copies \in [Steps -> Nat]
  BY ShapeParts
<1>2. CASE CancelInstance(h)
  <2>1. copies' = copies /\ status'[s] = (IF Withdrawn(s) THEN "skipped" ELSE status[s])
    BY <1>1, <1>2 DEF CancelInstance
  <2> QED BY <2>1, StatusMoves DEF Withdrawn, Resolved, Open
<1>3. ASSUME NEW t \in Steps, NEW d \in Decisions(t), CompleteStep(h, t, d)
      PROVE  Moves(s)
  <2>1. /\ status' = [status EXCEPT ![t] = IF d = "reject" THEN "rejected" ELSE "completed"]
        /\ copies' = IF d = "approve" /\ ~wf.test THEN [copies EXCEPT ![t] = @ + 1] ELSE copies
        /\ status[t] \in Open
    BY <1>3 DEF CompleteStep, MayDecide, Open
  <2>2. CASE s # t
    BY <1>1, <2>1, <2>2 DEF Moves
  <2>3. CASE s = t
    <3>1. status'[s] \in Finished
      BY <1>1, <2>1, <2>3 DEF Finished
    <3>2. copies'[s] <= copies[s] + (IF wf.test THEN 0 ELSE 1)
      BY <1>1, <2>1, <2>3
    <3> QED BY <2>1, <2>3, <3>1, <3>2 DEF Moves
  <2> QED BY <2>2, <2>3
<1> QED BY <1>2, <1>3

LEMMA StillMoves ==
    ASSUME NEW s \in Steps, UNCHANGED rows
    PROVE  Moves(s)
  BY DEF rows, Moves

LEMMA ReopenMoves ==
    ASSUME Shape, NEW S, NEW to \in Open, Reopen(S, to), \A t \in S : status[t] # "absent", NEW s \in Steps
    PROVE  Moves(s)
<1>1. /\ status'[s] = (IF s \in S THEN to ELSE status[s])
      /\ copies'[s] = (IF s \in S THEN 0 ELSE copies[s])
      /\ reopened' = reopened \cup S
  BY DEF Reopen
<1>2. CASE s \in S
  BY <1>1, <1>2 DEF Moves
<1>3. CASE s \notin S
  BY <1>1, <1>3 DEF Moves
<1> QED BY <1>2, <1>3

LEMMA StatementMoves ==
    ASSUME Shape, Calls, SentBack, NEW h \in Handlers, Statement(h), ~CreateStep(h), NEW s \in Steps
    PROVE  Moves(s)
<1>1. status \in [Steps -> Statuses] /\ copies \in [Steps -> Nat]
  BY ShapeParts
<1>2. CASE \/ ActivateJoin(h) \/ ReadPredecessor(h) \/ ReadRework(h) \/ FailInstance(h) \/ FailExecution(h)
           \/ ReadReachable(h) \/ NextJoin(h) \/ ReadCompleted(h) \/ ReadIdle(h)
  BY <1>2, StillMoves DEF ActivateJoin, ReadPredecessor, ReadRework, FailInstance, FailExecution, ReadReachable,
     NextJoin, ReadCompleted, ReadIdle
<1>3. CASE \/ EndInstance(h) \/ EndExecution(h) \/ DriveRecords(h) \/ ReadMirror(h) \/ RecordExecution(h)
  BY <1>3, StillMoves DEF EndInstance, EndExecution, DriveRecords, ReadMirror, RecordExecution
<1>4. CASE Fallback(h)
  BY <1>1, <1>4, StatusMoves DEF Fallback, Open
<1>5. CASE Activate(h)
  <2>1. copies' = copies
    BY <1>5 DEF Activate
  <2>2. status' = status \/ (status[Top(h).to] = "pending" /\ status' = [status EXCEPT ![Top(h).to] = "in_progress"])
    BY <1>5 DEF Activate
  <2> QED BY <1>1, <2>1, <2>2, StatusMoves DEF Open
<1>6. CASE FireJoin(h)
  <2>1. copies' = copies
    BY <1>6 DEF FireJoin
  <2>2. status' = [status EXCEPT ![Top(h).join] = IF @ = "pending" THEN "completed" ELSE @]
    BY <1>6 DEF FireJoin
  <2> QED BY <1>1, <2>1, <2>2, StatusMoves DEF Open, Resolved, Finished
<1>7. CASE ResetDownstream(h)
  <2>1. Reopen(Reset(Top(h).step), "pending")
    BY <1>7 DEF ResetDownstream
  <2> QED BY <2>1, ReopenMoves DEF Reset, Open
<1>8. CASE Revive(h)
  <2>1. At(h, "revive") /\ Reopen({Top(h).step}, "in_progress")
    BY <1>8 DEF Revive
  <2>2. Top(h).op = "revive" /\ Top(h) = stack[h][1] /\ 1 \in DOMAIN stack[h]
    BY <2>1, TopIs, StackTyped
  <2>3. status[Top(h).step] # "absent"
    BY <2>2 DEF SentBack
  <2> QED BY <2>1, <2>3, ReopenMoves DEF Open
<1>9. CASE RunAutoStep(h)
  <2>1. copies' = copies
    BY <1>9 DEF RunAutoStep
  <2>2. status' = status \/ (status[Top(h).step] = "in_progress" /\ status' = [status EXCEPT ![Top(h).step] = "completed"])
    BY <1>9 DEF RunAutoStep
  <2> QED BY <1>1, <2>1, <2>2, StatusMoves DEF Open, Resolved, Finished
<1>10. CASE Sweep(h)
  BY <1>1, <1>10, StatusMoves DEF Sweep, Open, Resolved
<1>11. CASE SkipPending(h)
  BY <1>1, <1>11, StatusMoves DEF SkipPending, Open, Resolved
<1> QED BY <1>2, <1>3, <1>4, <1>5, <1>6, <1>7, <1>8, <1>9, <1>10, <1>11 DEF Statement

LEMMA CreateMoves ==
    ASSUME Shape, Inserting, NEW h \in Handlers, CreateStep(h), NEW s \in Steps
    PROVE  Moves(s) \/ Appears(s)
<1>1. status \in [Steps -> Statuses] /\ copies' = copies
  BY ShapeParts DEF CreateStep
<1>2. /\ status' = [status EXCEPT ![Top(h).step] = IF Top(h).step = 1 THEN "in_progress" ELSE "pending"]
      /\ At(h, "create")
  BY DEF CreateStep
<1>3. CASE s # Top(h).step
  BY <1>1, <1>2, <1>3, StatusMoves
<1>4. CASE s = Top(h).step
  <2>1. s >= Top(h).step
    BY <1>4, WfTyped
  <2>2. status[s] = "absent" /\ status'[s] \in Open
    BY <1>1, <1>2, <1>4, <2>1 DEF Inserting, Open
  <2> QED BY <1>1, <2>2 DEF Appears
<1> QED BY <1>3, <1>4

\* Every step of the system: the rows move, or one appears.
LEMMA RowsMove ==
    ASSUME Shape, Calls, SentBack, Inserting, [Next]_vars, NEW s \in Steps
    PROVE  Moves(s) \/ Appears(s)
<1>1. ASSUME NEW h \in Handlers, StartWorkflow(h) PROVE Moves(s)
  BY <1>1, StillMoves DEF StartWorkflow
<1>2. ASSUME NEW h \in Handlers, NEW t \in Steps, NEW d \in Decisions(t), CompleteStep(h, t, d) PROVE Moves(s)
  BY <1>2, RequestMoves
<1>3. ASSUME NEW h \in Handlers, CancelInstance(h) PROVE Moves(s)
  BY <1>3, RequestMoves
<1>4. ASSUME NEW h \in Handlers, Statement(h) PROVE Moves(s) \/ Appears(s)
  BY <1>4, StatementMoves, CreateMoves
<1>5. ASSUME NEW h \in Handlers, Abandon(h) \/ StatementFails(h) PROVE Moves(s)
  BY <1>5, StillMoves DEF Abandon, StatementFails
<1>6. CASE UNCHANGED vars
  BY <1>6, StillMoves DEF vars
<1> QED BY <1>1, <1>2, <1>3, <1>4, <1>5, <1>6 DEF Next

\* A row that is there does not go away.
LEMMA RowsStay ==
    ASSUME NEW s \in Steps, Moves(s) \/ Appears(s)
    PROVE  status[s] # "absent" => status'[s] # "absent"
  BY DEF Moves, Appears, Open, Resolved, Finished

-----------------------------------------------------------------------------
(* The rows are inserted once, and what is sent back is there. *)

\* What a handler pushes, the frames of the start included.
Pushable == Fresh \cup {f \in Frames : f.op \in {"create", "drive"}}

LEMMA CreatePushes ==
    ASSUME Shape, Calls, NEW h \in Handlers, CreateStep(h)
    PROVE  Pushed(h, {f \in Frames : f.op = "create" /\ f.step = Top(h).step + 1})
<1> DEFINE s == Top(h).step
           c == [op |-> "create", step |-> s + 1]
           F == {f \in Frames : f.op = "create" /\ f.step = s + 1}
<1>1. ~Idle(h) /\ s \in Steps
  BY TopIs, StackTyped, FrameFields DEF CreateStep
<1>2. s = Len(wf.type) \/ c \in F
  BY <1>1, WfTyped DEF Frames, Steps
<1>3. Continue(h, IF s = Len(wf.type) THEN <<>> ELSE <<c>>)
  BY DEF CreateStep
<1>4. <<>> \in Seq(F) /\ (c \in F => <<c>> \in Seq(F)) /\ F \subseteq Frames
  <2> HIDE DEF c
  <2> QED OBVIOUS
<1> HIDE DEF F, c
<1>5. CASE s = Len(wf.type)
  BY <1>1, <1>3, <1>4, <1>5, ContinuePushes DEF F
<1>6. CASE s # Len(wf.type)
  BY <1>1, <1>2, <1>3, <1>4, <1>6, ContinuePushes DEF F
<1> QED BY <1>5, <1>6

LEMMA StartPushes ==
    ASSUME Shape, Calls, NEW h \in Handlers, StartWorkflow(h)
    PROVE  /\ Pushed(h, Pushable) /\ Top(h)' = [op |-> "create", step |-> 1]
           /\ \A i \in DOMAIN stack'[h] : stack'[h][i].op \notin {"reset", "revive"}
<1> DEFINE c == [op |-> "create", step |-> 1]
<1>1. Over(c, stack'[h]) /\ stack' = [stack EXCEPT ![h] = stack'[h]] /\ c.op = "create"
  BY StartStack
<1>2. \A g \in Handlers \ {h} : stack'[g] = stack[g]
  BY <1>1 DEF Shape
<1> HIDE DEF c
<1>3. \A i \in DOMAIN stack'[h] : stack'[h][i] \in Frames
                                  /\ (stack'[h][i] = c \/ stack'[h][i] = DriveStarted \/ stack'[h][i] \in Plain)
  <2>1. ASSUME NEW i \in DOMAIN stack'[h] PROVE i = 1 \/ i = 2 \/ i \in 3..Len(stack'[h])
    BY <1>1 DEF Over
  <2> QED BY <1>1, <2>1 DEF Over
<1>4. \A f \in Plain : f \in Fresh /\ f.op \notin {"reset", "revive"}
  BY DEF Plain, Fresh
<1>5. /\ \A i \in DOMAIN stack'[h] : stack'[h][i] \in Pushable
      /\ DriveStarted.op = "drive"
  BY <1>1, <1>3, <1>4 DEF Pushable, DriveStarted
<1>6. Pushed(h, Pushable)
  BY <1>2, <1>5 DEF Pushed
<1>7. Head(stack'[h]) = c
  BY <1>1 DEF Over
<1> QED BY <1>1, <1>3, <1>4, <1>5, <1>6, <1>7 DEF Top, c

LEMMA PushedMore ==
    ASSUME NEW h, NEW F, NEW G, F \subseteq G, Pushed(h, F)
    PROVE  Pushed(h, G)
  BY DEF Pushed

\* Whatever happens, it is one handler that does it.
LEMMA StepPushes ==
    ASSUME Shape, Calls, Next
    PROVE  \E h \in Handlers : Pushed(h, Pushable)
<1>1. Fresh \subseteq Pushable /\ \A s : {f \in Frames : f.op = "create" /\ f.step = s} \subseteq Pushable
  BY DEF Pushable
<1>2. ASSUME NEW h \in Handlers, StartWorkflow(h) PROVE Pushed(h, Pushable)
  BY <1>2, StartPushes
<1>3. ASSUME NEW h \in Handlers, Pushed(h, Fresh) PROVE Pushed(h, Pushable)
  BY <1>1, <1>3, PushedMore
<1>4. ASSUME NEW h \in Handlers, CreateStep(h) PROVE Pushed(h, Pushable)
  BY <1>1, <1>4, CreatePushes, PushedMore
<1>5. ASSUME NEW h \in Handlers, Statement(h), ~CreateStep(h) PROVE Pushed(h, Pushable)
  BY <1>3, <1>5, StatementsPush
<1>6. ASSUME NEW h \in Handlers, NEW s \in Steps, NEW d \in Decisions(s), CompleteStep(h, s, d)
      PROVE  Pushed(h, Pushable)
  BY <1>3, <1>6, RequestsPush
<1>7. ASSUME NEW h \in Handlers, CancelInstance(h) PROVE Pushed(h, Pushable)
  BY <1>3, <1>7, RequestsPush
<1>8. ASSUME NEW h \in Handlers, Abandon(h) \/ StatementFails(h) PROVE Pushed(h, Pushable)
  BY <1>3, <1>8, FaultsPush
<1> QED BY <1>2, <1>4, <1>5, <1>6, <1>7, <1>8 DEF Next

LEMMA SameDefinition ==
    ASSUME [Next]_vars
    PROVE  wf' = wf
<1>1. ASSUME NEW h \in Handlers, Statement(h) PROVE wf' = wf
  BY <1>1 DEF Statement, CreateStep, Fallback, Activate, ActivateJoin, ReadPredecessor, FireJoin, ReadRework,
     FailInstance, FailExecution, ResetDownstream, Revive, RunAutoStep, ReadReachable, Sweep, NextJoin,
     ReadCompleted, ReadIdle, SkipPending, EndInstance, EndExecution, DriveRecords, ReadMirror, RecordExecution
<1>2. ASSUME NEW h \in Handlers, StartWorkflow(h) \/ CancelInstance(h) \/ Abandon(h) \/ StatementFails(h)
      PROVE  wf' = wf
  BY <1>2 DEF StartWorkflow, CancelInstance, Abandon, StatementFails
<1>3. ASSUME NEW h \in Handlers, NEW s \in Steps, NEW d \in Decisions(s), CompleteStep(h, s, d) PROVE wf' = wf
  BY <1>3 DEF CompleteStep
<1>4. CASE UNCHANGED vars
  BY <1>4 DEF vars
<1> QED BY <1>1, <1>2, <1>3, <1>4 DEF Next

LEMMA SentBackStep ==
    ASSUME Shape, Calls, SentBack, Inserting, [Next]_vars
    PROVE  SentBack'
<1>1. \A s \in Steps : status[s] # "absent" => status'[s] # "absent"
  BY RowsMove, RowsStay
<1>2. stack \in [Handlers -> Seq(Frames)]
  BY DEF Shape
<1>3. ASSUME NEW g \in Handlers, NEW k \in DOMAIN stack[g], stack[g][k].op \in {"reset", "revive"}
      PROVE  status'[stack[g][k].step] # "absent"
  <2>1. stack[g][k] \in Frames
    BY <1>2
  <2>2. stack[g][k].step \in Steps
    BY <1>3, <2>1, FrameFields
  <2> QED BY <1>1, <1>3, <2>2 DEF SentBack
<1>4. ASSUME NEW f \in Pushable, f.op \in {"reset", "revive"} PROVE status'[f.step] # "absent"
  <2>1. f \in Frames /\ status[f.step] # "absent"
    BY <1>4 DEF Pushable, Fresh
  <2>2. f.step \in Steps
    BY <1>4, <2>1, FrameFields
  <2> QED BY <1>1, <2>1, <2>2
<1>5. CASE UNCHANGED vars
  <2>1. stack' = stack
    BY <1>5 DEF vars
  <2> QED BY <1>3, <2>1 DEF SentBack
<1>6. ASSUME NEW h \in Handlers, Pushed(h, Pushable) PROVE SentBack'
  <2> SUFFICES ASSUME NEW g \in Handlers, NEW i \in DOMAIN stack'[g], stack'[g][i].op \in {"reset", "revive"}
               PROVE  status'[stack'[g][i].step] # "absent"
    BY DEF SentBack
  <2>1. CASE g # h
    <3>1. stack'[g] = stack[g]
      BY <1>6, <2>1 DEF Pushed
    <3> QED BY <1>3, <3>1
  <2>2. CASE g = h
    <3>1. stack'[h][i] \in Pushable \/ \E k \in DOMAIN stack[h] : k > 1 /\ stack'[h][i] = stack[h][k]
      BY <1>6, <2>2 DEF Pushed
    <3> QED BY <1>3, <1>4, <2>2, <3>1
  <2> QED BY <2>1, <2>2
<1> QED BY <1>5, <1>6, StepPushes

\* Only the cancel, the end and the failure of a run write its status.
LEMMA InstanceMoves ==
    ASSUME NEW h \in Handlers, Statement(h) \/ Abandon(h) \/ StatementFails(h)
    PROVE  ~Idle(h) /\ (instance' = instance \/ (instance = "running" /\ instance' \in Ended))
<1>1. CASE FailInstance(h) \/ EndInstance(h)
  BY <1>1 DEF FailInstance, EndInstance, MayEnd, Ended, At
<1>2. CASE CreateStep(h) \/ Fallback(h) \/ Activate(h) \/ ActivateJoin(h) \/ ReadPredecessor(h) \/ FireJoin(h)
           \/ ReadRework(h) \/ FailExecution(h)
  BY <1>2 DEF CreateStep, Fallback, Activate, ActivateJoin, ReadPredecessor, FireJoin, ReadRework, FailExecution, At
<1>3. CASE ResetDownstream(h) \/ Revive(h) \/ RunAutoStep(h) \/ ReadReachable(h) \/ Sweep(h) \/ NextJoin(h)
           \/ ReadCompleted(h) \/ ReadIdle(h)
  BY <1>3 DEF ResetDownstream, Revive, RunAutoStep, ReadReachable, Sweep, NextJoin, ReadCompleted, ReadIdle, At
<1>4. CASE SkipPending(h) \/ EndExecution(h) \/ DriveRecords(h) \/ ReadMirror(h) \/ RecordExecution(h)
  BY <1>4 DEF SkipPending, EndExecution, DriveRecords, ReadMirror, RecordExecution, At
<1>5. CASE Abandon(h) \/ StatementFails(h)
  BY <1>5 DEF Abandon, StatementFails
<1> QED BY <1>1, <1>2, <1>3, <1>4, <1>5 DEF Statement

\* A run that has ended stays as it ended: the end, the failure and the
\* cancel of a run are all guarded by "running", so the handlers that are
\* still at work on it change nothing.
THEOREM EndedStaysHolds == Spec => EndedStays
<1>1. [Next]_vars => [(instance \in Ended) => UNCHANGED instance]_vars
  <2> SUFFICES ASSUME [Next]_vars, instance \in Ended PROVE instance' = instance
    OBVIOUS
  <2>1. instance # "running" /\ instance # "absent"
    BY DEF Ended
  <2>2. ASSUME NEW h \in Handlers, StartWorkflow(h) \/ CancelInstance(h) PROVE FALSE
    BY <2>1, <2>2 DEF StartWorkflow, CancelInstance
  <2>3. ASSUME NEW h \in Handlers, NEW s \in Steps, NEW d \in Decisions(s), CompleteStep(h, s, d)
        PROVE  instance' = instance
    BY <2>3 DEF CompleteStep
  <2>4. ASSUME NEW h \in Handlers, Statement(h) \/ Abandon(h) \/ StatementFails(h) PROVE instance' = instance
    BY <2>1, <2>4, InstanceMoves
  <2>5. CASE UNCHANGED vars
    BY <2>5 DEF vars
  <2> QED BY <2>2, <2>3, <2>4, <2>5 DEF Next
<1> QED BY <1>1, PTL DEF Spec, EndedStays

LEMMA InstanceThere ==
    ASSUME Shape, Inserting, Next
    PROVE  instance' # "absent"
<1>1. ASSUME NEW h \in Handlers, StartWorkflow(h) \/ CancelInstance(h) PROVE instance' # "absent"
  BY <1>1 DEF StartWorkflow, CancelInstance
<1>2. ASSUME NEW h \in Handlers, NEW s \in Steps, NEW d \in Decisions(s), CompleteStep(h, s, d)
      PROVE  instance' # "absent"
  <2>1. status[s] # "absent" /\ instance' = instance
    BY <1>2 DEF CompleteStep, MayDecide
  <2> QED BY <2>1 DEF Inserting
<1>3. ASSUME NEW h \in Handlers, Statement(h) \/ Abandon(h) \/ StatementFails(h) PROVE instance' # "absent"
  <2>1. ~Idle(h) /\ (instance' = instance \/ instance' \in Ended)
    BY <1>3, InstanceMoves
  <2>2. instance # "absent"
    BY <2>1 DEF Inserting
  <2> QED BY <2>1, <2>2 DEF Ended
<1> QED BY <1>1, <1>2, <1>3 DEF Next

LEMMA TopThere ==
    ASSUME Shape, NEW h \in Handlers, NEW op, At(h, op)
    PROVE  1 \in DOMAIN stack[h] /\ Top(h) = stack[h][1] /\ stack[h][1].op = op
<1>1. stack[h] \in Seq(Frames) /\ stack[h] # <<>> /\ Head(stack[h]).op = op
  BY DEF Shape, At, Idle, Top
<1> QED BY <1>1 DEF Top

LEMMA TopThereNext ==
    ASSUME Shape', NEW h \in Handlers, NEW op, At(h, op)'
    PROVE  1 \in DOMAIN stack'[h] /\ Top(h)' = stack'[h][1] /\ stack'[h][1].op = op
<1>1. stack'[h] \in Seq(Frames') /\ stack'[h] # <<>> /\ Head(stack'[h]).op = op
  BY DEF Shape, At, Idle, Top
<1> QED BY <1>1 DEF Top

\* After anything but the start and an INSERT, h inserts no rows.
LEMMA CreateOver ==
    ASSUME Shape, Calls, Shape', NEW h \in Handlers, Pushed(h, Fresh), NEW g \in Handlers, At(g, "create")'
    PROVE  g # h /\ At(g, "create") /\ Top(g)' = Top(g)
<1>1. CASE g # h
  <2>1. stack'[g] = stack[g]
    BY <1>1 DEF Pushed
  <2> QED BY <1>1, <2>1 DEF At, Idle, Top
<1>2. CASE g = h
  <2>1. 1 \in DOMAIN stack'[h] /\ stack'[h][1].op = "create"
    BY <1>2, TopThereNext
  <2>2. stack'[h][1] \in Fresh \/ \E k \in DOMAIN stack[h] : k > 1 /\ stack'[h][1] = stack[h][k]
    BY <2>1 DEF Pushed
  <2>3. \A k \in DOMAIN stack[h] : stack[h][k].op = "create" => k = 1
    BY DEF Calls, Orderly
  <2>4. \A f \in Fresh : f.op # "create"
    BY DEF Fresh
  <2> QED BY <2>1, <2>2, <2>3, <2>4
<1> QED BY <1>1, <1>2

\* What Inserting says of the handlers.
InsertsOnce ==
    /\ \A h \in Handlers : At(h, "create") => \A s \in Steps : s >= Top(h).step => status[s] = "absent"
    /\ \A g, h \in Handlers : At(g, "create") /\ At(h, "create") => g = h

LEMMA InsertsOnceElse ==
    ASSUME Shape, Calls, Shape', wf' = wf, Inserting, NEW h \in Handlers, Pushed(h, Fresh), \A s \in Steps : Moves(s)
    PROVE  InsertsOnce'
<1>1. \A s \in Steps : status[s] = "absent" => status'[s] = "absent"
  BY DEF Moves, Open
<1>2. Steps' = Steps
  BY SameWorkflow
<1>3. ASSUME NEW g \in Handlers, At(g, "create")', NEW s \in Steps, s >= Top(g)'.step PROVE status'[s] = "absent"
  <2>1. At(g, "create") /\ Top(g)' = Top(g)
    BY <1>3, CreateOver
  <2>2. status[s] = "absent"
    BY <1>3, <2>1 DEF Inserting
  <2> QED BY <1>1, <2>2
<1>4. ASSUME NEW f \in Handlers, NEW g \in Handlers, At(f, "create")', At(g, "create")' PROVE f = g
  BY <1>4, CreateOver DEF Inserting
<1> QED BY <1>2, <1>3, <1>4 DEF InsertsOnce

LEMMA InsertsOnceStart ==
    ASSUME Shape, Calls, Shape', Inserting, NEW h \in Handlers, StartWorkflow(h)
    PROVE  InsertsOnce'
<1>1. /\ \A g \in Handlers \ {h} : stack'[g] = stack[g]
      /\ instance = "absent" /\ status' = status /\ wf' = wf
  BY StartPushes DEF Pushed, StartWorkflow, rows
<1>2. (\A s \in Steps : status[s] = "absent") /\ \A g \in Handlers : Idle(g)
  BY <1>1 DEF Inserting
<1>3. \A g \in Handlers : At(g, "create")' => g = h
  BY <1>1, <1>2 DEF At, Idle
<1>4. Steps' = Steps
  BY <1>1, SameWorkflow
<1> QED BY <1>1, <1>2, <1>3, <1>4 DEF InsertsOnce

LEMMA InsertsOnceCreate ==
    ASSUME Shape, Calls, Shape', Inserting, NEW h \in Handlers, CreateStep(h)
    PROVE  InsertsOnce'
<1> DEFINE s == Top(h).step
           F == {f \in Frames : f.op = "create" /\ f.step = s + 1}
<1>1. /\ At(h, "create") /\ wf' = wf
      /\ status' = [status EXCEPT ![s] = IF s = 1 THEN "in_progress" ELSE "pending"]
  BY DEF CreateStep
<1>2. Pushed(h, F)
  BY CreatePushes
<1>3. s \in Steps /\ Steps \subseteq Nat /\ Steps' = Steps
  BY <1>1, TopIs, StackTyped, FrameFields, WfTyped, SameWorkflow
<1>4. ASSUME NEW g \in Handlers, At(g, "create")' PROVE g = h
  <2>1. CASE g # h
    <3>1. At(g, "create")
      BY <1>2, <1>4, <2>1 DEF Pushed, At, Idle, Top
    <3> QED BY <1>1, <3>1 DEF Inserting
  <2> QED BY <2>1
<1>5. ASSUME At(h, "create")' PROVE Top(h)'.step = s + 1
  <2>1. 1 \in DOMAIN stack'[h] /\ stack'[h][1].op = "create" /\ Top(h)' = stack'[h][1]
    BY <1>5, TopThereNext
  <2>2. stack'[h][1] \in F \/ \E k \in DOMAIN stack[h] : k > 1 /\ stack'[h][1] = stack[h][k]
    BY <1>2, <2>1 DEF Pushed
  <2>3. \A k \in DOMAIN stack[h] : stack[h][k].op = "create" => k = 1
    BY DEF Calls, Orderly
  <2> QED BY <2>1, <2>2, <2>3
<1>6. \A t \in Steps : t >= s => status[t] = "absent"
  BY <1>1 DEF Inserting
<1>7. \A t \in Steps : t >= s + 1 => status'[t] = "absent"
  <2> SUFFICES ASSUME NEW t \in Steps, t >= s + 1 PROVE status'[t] = "absent"
    OBVIOUS
  <2>1. t >= s /\ t # s
    <3> HIDE DEF s
    <3> QED BY <1>3
  <2> QED BY <1>1, <1>6, <2>1, ShapeParts
<1> HIDE DEF s
<1> QED BY <1>3, <1>4, <1>5, <1>7 DEF InsertsOnce

LEMMA InsertingStep ==
    ASSUME Shape, Calls, Shape', SentBack, Inserting, [Next]_vars
    PROVE  Inserting'
<1>1. wf' = wf
  BY SameDefinition
<1>2. CASE UNCHANGED vars
  <2>1. UNCHANGED <<wf, status, instance, stack>>
    BY <1>2 DEF vars, rows
  <2>2. Steps' = Steps
    BY <1>1, SameWorkflow
  <2> QED BY <2>1, <2>2 DEF Inserting, At, Idle, Top
<1>3. ASSUME Next, InsertsOnce' PROVE Inserting'
  <2>1. instance' # "absent"
    BY <1>3, InstanceThere
  <2> QED BY <1>3, <2>1 DEF Inserting, InsertsOnce
<1>4. ASSUME NEW h \in Handlers, StartWorkflow(h) PROVE InsertsOnce'
  BY <1>4, InsertsOnceStart
<1>5. ASSUME NEW h \in Handlers, CreateStep(h) PROVE InsertsOnce'
  BY <1>5, InsertsOnceCreate
<1>6. ASSUME NEW h \in Handlers, Statement(h), ~CreateStep(h) PROVE InsertsOnce'
  BY <1>1, <1>6, StatementsPush, StatementMoves, InsertsOnceElse
<1>7. ASSUME NEW h \in Handlers, NEW s \in Steps, NEW d \in Decisions(s), CompleteStep(h, s, d) PROVE InsertsOnce'
  BY <1>1, <1>7, RequestsPush, RequestMoves, InsertsOnceElse
<1>8. ASSUME NEW h \in Handlers, CancelInstance(h) PROVE InsertsOnce'
  BY <1>1, <1>8, RequestsPush, RequestMoves, InsertsOnceElse
<1>9. ASSUME NEW h \in Handlers, Abandon(h) \/ StatementFails(h) PROVE InsertsOnce'
  <2>1. \A s \in Steps : Moves(s)
    BY <1>9, StillMoves DEF Abandon, StatementFails
  <2> QED BY <1>1, <1>9, <2>1, FaultsPush, InsertsOnceElse
<1>10. Next => InsertsOnce'
  BY <1>4, <1>5, <1>6, <1>7, <1>8, <1>9 DEF Next
<1> QED BY <1>2, <1>3, <1>10

LEMMA RowsInit == Init => SentBack /\ Inserting /\ CopiesStand
<1> SUFFICES ASSUME Init PROVE SentBack /\ Inserting /\ CopiesStand
  OBVIOUS
<1>1. Shape /\ \A h \in Handlers : stack[h] = <<>>
  BY ShapeInit DEF Init
<1>2. (\A s \in Steps : status[s] = "absent" /\ copies[s] = 0) /\ wf.test \in BOOLEAN
  BY <1>1, WfTyped DEF Init
<1> QED BY <1>1, <1>2 DEF SentBack, Inserting, CopiesStand, Idle, At

LEMMA CopiesStep ==
    ASSUME Shape, Shape', Calls, SentBack, Inserting, CopiesStand, [Next]_vars
    PROVE  CopiesStand'
<1>1. wf' = wf /\ Steps' = Steps
  BY SameDefinition, SameWorkflow
<1>2. ASSUME NEW s \in Steps
      PROVE  copies'[s] <= (IF wf.test THEN 0 ELSE 1) /\ (copies'[s] > 0 => status'[s] \in Finished)
  <2>1. Moves(s) \/ Appears(s)
    BY RowsMove
  <2>2. copies[s] \in Nat /\ copies'[s] \in Nat
    BY <1>1 DEF Shape
  <2>3. copies[s] <= (IF wf.test THEN 0 ELSE 1) /\ (copies[s] > 0 => status[s] \in Finished)
    BY DEF CopiesStand
  <2>4. status[s] \in Open => copies[s] = 0
    BY <2>2, <2>3 DEF Open, Finished
  <2>5. status[s] = "absent" => copies[s] = 0
    BY <2>2, <2>3 DEF Finished
  <2>6. CASE Moves(s)
    BY <2>2, <2>3, <2>4, <2>6 DEF Moves
  <2>7. CASE Appears(s)
    BY <2>2, <2>5, <2>7 DEF Appears
  <2> QED BY <2>1, <2>6, <2>7
<1> QED BY <1>1, <1>2 DEF CopiesStand

\* What holds of the rows whoever is at work on the run.
RowsInv == Shape /\ Calls /\ SentBack /\ Inserting /\ CopiesStand

LEMMA RowsInvInit == Init => RowsInv
  BY ShapeInit, RowsInit DEF RowsInv

LEMMA RowsStep == RowsInv /\ [Next]_vars => RowsInv'
<1> SUFFICES ASSUME RowsInv, [Next]_vars PROVE RowsInv'
  OBVIOUS
<1>1. Shape /\ Calls /\ SentBack /\ Inserting /\ CopiesStand
  BY DEF RowsInv
<1>2. Shape' /\ Calls'
  BY <1>1, ShapeStep
<1> QED BY <1>1, <1>2, SentBackStep, InsertingStep, CopiesStep DEF RowsInv

LEMMA RowsCorrect == Spec => []RowsInv
  BY RowsInvInit, RowsStep, PTL DEF Spec

\* A committed decision is undone by a rework alone, however the requests on
\* the run interleave and wherever they fail: every UPDATE of the cascade,
\* the close and the cancel is guarded by a status that is still open.
THEOREM DecisionStandsHolds == Spec => DecisionStands
<1>1. RowsInv /\ [Next]_vars =>
        [\A s \in Steps : status[s] \in Finished /\ status'[s] # status[s]
            => status'[s] \in Open /\ s \in reopened']_vars
  <2> SUFFICES ASSUME RowsInv, [Next]_vars, NEW s \in Steps, status[s] \in Finished, status'[s] # status[s]
               PROVE  status'[s] \in Open /\ s \in reopened'
    OBVIOUS
  <2>1. Moves(s) \/ Appears(s)
    BY RowsMove DEF RowsInv
  <2> QED BY <2>1 DEF Moves, Appears, Open, Finished
<1> QED BY <1>1, RowsCorrect, PTL DEF Spec, DecisionStands

\* Each time a step is opened, at most one approval of it copies facts, and
\* none in a test run: the copy commits with the decision, which takes an
\* open step, and a finished step is not open before a rework.
THEOREM CopyOncePerRoundHolds == Spec => []CopyOncePerRound
<1>1. RowsInv => CopyOncePerRound
  BY DEF RowsInv, CopiesStand, CopyOncePerRound
<1> QED BY <1>1, RowsCorrect, PTL

-----------------------------------------------------------------------------
(* The cap on rework. *)

LEMMA ReworkStill ==
    ASSUME [Next]_vars, ~ \E h \in Handlers : Revive(h)
    PROVE  rework' = rework
<1>1. ASSUME NEW h \in Handlers, Statement(h) PROVE rework' = rework
  <2>1. ~Revive(h)
    OBVIOUS
  <2> QED BY <1>1, <2>1
     DEF Statement, CreateStep, Fallback, Activate, ActivateJoin, ReadPredecessor, FireJoin, ReadRework,
     FailInstance, FailExecution, ResetDownstream, RunAutoStep, ReadReachable, Sweep, NextJoin,
     ReadCompleted, ReadIdle, SkipPending, EndInstance, EndExecution, DriveRecords, ReadMirror, RecordExecution, rows
<1>2. ASSUME NEW h \in Handlers, StartWorkflow(h) \/ CancelInstance(h) \/ Abandon(h) \/ StatementFails(h)
      PROVE  rework' = rework
  BY <1>2 DEF StartWorkflow, CancelInstance, Abandon, StatementFails, rows
<1>3. ASSUME NEW h \in Handlers, NEW s \in Steps, NEW d \in Decisions(s), CompleteStep(h, s, d) PROVE rework' = rework
  BY <1>3 DEF CompleteStep
<1>4. CASE UNCHANGED vars
  BY <1>4 DEF vars, rows
<1> QED BY <1>1, <1>2, <1>3, <1>4 DEF Next

\* A handler that gets ready to open s again has found s below the cap.
LEMMA RevivingGrows ==
    ASSUME Shape, Calls, [Next]_vars, NEW s \in Steps, ~(Reviving(s)' \subseteq Reviving(s))
    PROVE  ~AtCap(s)
<1>1. CASE UNCHANGED vars
  <2>1. stack' = stack
    BY <1>1 DEF vars
  <2> QED BY <2>1 DEF Reviving
<1>2. CASE Next
  <2>1. PICK h \in Handlers : Pushed(h, Pushable)
    BY <1>2, StepPushes
  <2>2. PICK g \in Handlers : g \in Reviving(s)' /\ g \notin Reviving(s)
    BY DEF Reviving
  <2>3. PICK i \in DOMAIN stack'[g] : stack'[g][i].op = "revive" /\ stack'[g][i].step = s
    BY <2>2 DEF Reviving
  <2>4. g = h
    BY <2>1, <2>2, <2>3 DEF Pushed, Reviving
  <2>5. stack'[g][i] \in Pushable
    BY <2>1, <2>2, <2>3, <2>4 DEF Pushed, Reviving
  <2> QED BY <2>3, <2>5 DEF Pushable, Fresh
<1> QED BY <1>1, <1>2

\* Opening a step again is the last thing its handler has ahead of it.
LEMMA RevivePops ==
    ASSUME Shape, Calls, NEW h \in Handlers, Revive(h), NEW s \in Steps
    PROVE  /\ Reviving(s)' \subseteq Reviving(s)
           /\ s = Top(h).step => h \in Reviving(s) /\ h \notin Reviving(s)'
<1>1. At(h, "revive")
  BY DEF Revive
<1>2. ~Idle(h) /\ 1 \in DOMAIN stack[h] /\ stack[h][1] = Top(h) /\ stack[h][1].op = "revive"
  BY <1>1, TopThere, TopIs
<1>3. PICK fs \in Seq(Plain) : Continue(h, fs)
  BY PlainStatements
<1>4. Plain \subseteq Frames /\ \A f \in Plain : f.op # "revive"
  BY DEF Plain
<1>5. Pushed(h, Plain)
  BY <1>2, <1>3, <1>4, ContinuePushes
<1>6. \A k \in DOMAIN stack[h] : k > 1 => stack[h][k].op # "revive"
  BY <1>2 DEF Calls, Orderly
<1>7. \A i \in DOMAIN stack'[h] : stack'[h][i].op # "revive"
  BY <1>4, <1>5, <1>6 DEF Pushed
<1>8. h \notin Reviving(s)'
  BY <1>7 DEF Reviving
<1>9. \A g \in Handlers \ {h} : stack'[g] = stack[g]
  BY <1>5 DEF Pushed
<1>10. Reviving(s)' \subseteq Reviving(s)
  BY <1>8, <1>9 DEF Reviving
<1>11. s = Top(h).step => h \in Reviving(s)
  BY <1>2 DEF Reviving
<1> QED BY <1>8, <1>10, <1>11

LEMMA RevivingFinite ==
    ASSUME IsFiniteSet(Handlers), NEW S \in SUBSET Handlers
    PROVE  /\ IsFiniteSet(S) /\ Cardinality(S) \in Nat /\ Cardinality(Handlers) \in Nat
           /\ Cardinality(S) <= Cardinality(Handlers)
  BY FS_Subset, FS_CardinalityType

LEMMA ReworkStep ==
    ASSUME IsFiniteSet(Handlers), Shape, Calls, Shape', ReworkInv, [Next]_vars
    PROVE  ReworkInv'
<1>1. wf' = wf /\ Steps' = Steps
  BY SameDefinition, SameWorkflow
<1> SUFFICES ASSUME NEW s \in Steps, rework'[s] > 0 \/ Reviving(s)' # {}
             PROVE  rework'[s] + Cardinality(Reviving(s)') <= MaxReworks + Cardinality(Handlers) - 1
  BY <1>1 DEF ReworkInv
<1> DEFINE R == Reviving(s)
           Q == Reviving(s)'
<1>2. rework[s] \in Nat /\ rework'[s] \in Nat /\ MaxReworks \in Nat
  BY <1>1, BoundsTyped DEF Shape
<1>3. R \subseteq Handlers /\ Q \subseteq Handlers
  BY DEF Reviving
<1>4. /\ IsFiniteSet(R) /\ IsFiniteSet(Q) /\ Cardinality(R) \in Nat /\ Cardinality(Q) \in Nat
      /\ Cardinality(Handlers) \in Nat /\ Cardinality(Q) <= Cardinality(Handlers)
  BY <1>3, RevivingFinite
<1>5. rework[s] > 0 \/ R # {} => rework[s] + Cardinality(R) <= MaxReworks + Cardinality(Handlers) - 1
  BY DEF ReworkInv
<1>6. CASE ~ \E h \in Handlers : Revive(h)
  <2>1. rework'[s] = rework[s]
    BY <1>6, ReworkStill
  <2>2. CASE Q \subseteq R
    <3>1. Cardinality(Q) <= Cardinality(R)
      BY <1>4, <2>2, FS_Subset
    <3> HIDE DEF Q, R
    <3> QED BY <1>2, <1>4, <1>5, <2>1, <2>2, <3>1 DEF Q
  <2>3. CASE ~(Q \subseteq R)
    <3>1. rework[s] < MaxReworks
      BY <1>2, <2>3, RevivingGrows DEF AtCap
    <3> HIDE DEF Q
    <3> QED BY <1>2, <1>4, <2>1, <3>1 DEF Q
  <2> QED BY <2>2, <2>3
<1>7. ASSUME NEW h \in Handlers, Revive(h)
      PROVE  rework'[s] + Cardinality(Q) <= MaxReworks + Cardinality(Handlers) - 1
  <2>1. Q \subseteq R /\ (s = Top(h).step => h \in R /\ h \notin Q)
    BY <1>7, RevivePops
  <2>2. rework' = [rework EXCEPT ![Top(h).step] = rework[Top(h).step] + 1]
    BY <1>7 DEF Revive, ReworkCount
  <2>3. Cardinality(Q) <= Cardinality(R)
    BY <1>4, <2>1, FS_Subset
  <2>4. CASE s # Top(h).step
    <3>1. rework'[s] = rework[s]
      BY <2>2, <2>4, ShapeParts
    <3> HIDE DEF Q, R
    <3> QED BY <1>2, <1>4, <1>5, <2>1, <2>3, <3>1 DEF Q
  <2>5. CASE s = Top(h).step
    <3>1. rework'[s] = rework[s] + 1
      BY <2>2, <2>5, ShapeParts
    <3>2. Q \subseteq R \ {h} /\ IsFiniteSet(R \ {h}) /\ Cardinality(R \ {h}) = Cardinality(R) - 1
      BY <1>4, <2>1, <2>5, FS_RemoveElement
    <3>3. Cardinality(Q) <= Cardinality(R) - 1
      BY <3>2, FS_Subset
    <3>4. R # {}
      BY <2>1, <2>5
    <3> HIDE DEF Q, R
    <3> QED BY <1>2, <1>4, <1>5, <3>1, <3>3, <3>4
  <2> QED BY <2>4, <2>5
<1> QED BY <1>6, <1>7

LEMMA ReworkInit == Init => ReworkInv
<1> SUFFICES ASSUME Init, NEW s \in Steps PROVE ~(rework[s] > 0 \/ Reviving(s) # {})
  BY DEF ReworkInv
<1>1. rework[s] = 0
  BY DEF Init
<1>2. \A h \in Handlers : stack[h] = <<>>
  BY DEF Init
<1>3. Reviving(s) = {}
  BY <1>2 DEF Reviving
<1> QED BY <1>1, <1>3

\* The cap on rework, whatever the handlers do: each of them reads the count
\* before it adds to it, so those that read it together can pass the cap, by
\* fewer rounds than there are handlers. A rejection that goes on for ever
\* still stops.
THEOREM ReworkBounded ==
    ASSUME IsFiniteSet(Handlers), Handlers # {}
    PROVE  Spec => [](\A s \in Steps : rework[s] <= MaxReworks + Cardinality(Handlers) - 1)
<1>1. Init => ReworkInv
  BY ReworkInit
<1>2. Shape /\ Calls /\ Shape' /\ ReworkInv /\ [Next]_vars => ReworkInv'
  BY ReworkStep
<1>3. Init => Shape /\ Calls
  BY ShapeInit
<1>4. Shape /\ Calls /\ [Next]_vars => Shape' /\ Calls'
  BY ShapeStep
<1>5. Shape /\ ReworkInv => \A s \in Steps : rework[s] <= MaxReworks + Cardinality(Handlers) - 1
  <2> SUFFICES ASSUME Shape, ReworkInv, NEW s \in Steps
               PROVE  rework[s] <= MaxReworks + Cardinality(Handlers) - 1
    OBVIOUS
  <2>1. rework[s] \in Nat /\ MaxReworks \in Nat
    BY BoundsTyped, ShapeParts
  <2>2. Reviving(s) \subseteq Handlers
    BY DEF Reviving
  <2>3. Cardinality(Reviving(s)) \in Nat /\ Cardinality(Handlers) \in Nat
    BY <2>2, RevivingFinite
  <2>4. Cardinality(Handlers) # 0
    BY FS_EmptySet
  <2> QED BY <2>1, <2>3, <2>4 DEF ReworkInv
<1> QED BY <1>1, <1>2, <1>3, <1>4, <1>5, PTL DEF Spec

\* Requests that are taken one at a time keep to the cap, whatever fails.
THEOREM TypeCorrect ==
    ASSUME IsFiniteSet(Handlers), Cardinality(Handlers) = 1
    PROVE  Spec => []TypeOK
<1>1. Handlers # {}
  BY FS_EmptySet
<1>2. Spec => [](\A s \in Steps : rework[s] <= MaxReworks + Cardinality(Handlers) - 1)
  BY <1>1, ReworkBounded
<1>3. Shape /\ (\A s \in Steps : rework[s] <= MaxReworks + Cardinality(Handlers) - 1) => TypeOK
  BY BoundsTyped DEF TypeOK
<1> QED BY <1>2, <1>3, ShapeCorrect, PTL

-----------------------------------------------------------------------------
(* The approval decisions that stand are in the order they were taken. *)

\* A decision is one of a step that was finished with it.
VerdictsStand ==
    \A s \in Steps :
        /\ decision[s] = "approve" => status[s] = "completed"
        /\ decision[s] = "reject" => status[s] = "rejected"

\* Without calls beyond the inbox, the approvals are the steps that decide.
ApprovalsDecide ==
    ~Direct => \A s \in Steps :
        /\ decision[s] \in {"approve", "reject"} => wf.type[s] = "approval"
        /\ wf.type[s] = "approval" /\ status[s] = "completed" => decision[s] = "approve"
        /\ wf.type[s] = "approval" /\ status[s] = "rejected" => decision[s] = "reject"

\* The order in which they were taken is a strict linear order.
DecidedInOrder ==
    /\ \A s \in Steps : earlier[s] \subseteq Decided /\ s \notin earlier[s]
    /\ \A s, t \in Decided : s = t \/ s \in earlier[t] \/ t \in earlier[s]
    /\ \A s, t \in Decided : s \in earlier[t] => earlier[s] \subseteq earlier[t]

\* A statement that decides nothing: what it moves was open, or is inserted,
\* and it finishes joins alone.
DecidesNothing ==
    /\ wf' = wf /\ decision' = decision /\ earlier' = earlier
    /\ \A s \in Steps : status'[s] # status[s] =>
        status[s] \in Open \cup {"absent"} /\ (status'[s] \in Finished => s \in Joins)

LEMMA StatementDecides ==
    ASSUME Shape, Inserting, NEW h \in Handlers, Statement(h)
    PROVE  DecidesNothing \/ ResetDownstream(h) \/ Revive(h) \/ RunAutoStep(h)
<1>1. status \in [Steps -> Statuses]
  BY ShapeParts
<1>2. CASE \/ ActivateJoin(h) \/ ReadPredecessor(h) \/ ReadRework(h) \/ FailInstance(h) \/ FailExecution(h)
           \/ ReadReachable(h) \/ NextJoin(h) \/ ReadCompleted(h) \/ ReadIdle(h)
  BY <1>2 DEF DecidesNothing, rows, ActivateJoin, ReadPredecessor, ReadRework, FailInstance, FailExecution,
     ReadReachable, NextJoin, ReadCompleted, ReadIdle
<1>3. CASE EndInstance(h) \/ EndExecution(h) \/ DriveRecords(h) \/ ReadMirror(h) \/ RecordExecution(h)
  BY <1>3 DEF DecidesNothing, rows, EndInstance, EndExecution, DriveRecords, ReadMirror, RecordExecution
<1>4. CASE Fallback(h)
  BY <1>1, <1>4 DEF Fallback, DecidesNothing, Open, Finished
<1>5. CASE Activate(h)
  <2>1. UNCHANGED <<wf, decision, earlier>>
    BY <1>5 DEF Activate
  <2>2. status' = status \/ (status[Top(h).to] = "pending" /\ status' = [status EXCEPT ![Top(h).to] = "in_progress"])
    BY <1>5 DEF Activate
  <2> QED BY <1>1, <2>1, <2>2 DEF DecidesNothing, Open, Finished
<1>6. CASE FireJoin(h)
  <2>1. UNCHANGED <<wf, decision, earlier>>
    BY <1>6 DEF FireJoin
  <2>2. status' = [status EXCEPT ![Top(h).join] = IF @ = "pending" THEN "completed" ELSE @]
    BY <1>6 DEF FireJoin
  <2>3. Top(h).join \in Joins
    <3>1. ~Idle(h) /\ Top(h).op = "fire"
      BY <1>6, TopIs DEF FireJoin
    <3>2. Top(h) \in Frames
      <4>1. stack[h] \in Seq(Frames) /\ stack[h] # <<>>
        BY <3>1 DEF Shape, Idle
      <4> QED BY <4>1 DEF Top
    <3> QED BY <3>1, <3>2, FrameFields
  <2> QED BY <1>1, <2>1, <2>2, <2>3 DEF DecidesNothing, Open
<1>7. CASE Sweep(h)
  BY <1>1, <1>7 DEF Sweep, DecidesNothing, Open, Finished
<1>8. CASE SkipPending(h)
  BY <1>1, <1>8 DEF SkipPending, DecidesNothing, Open, Finished
<1>9. CASE CreateStep(h)
  <2>1. UNCHANGED <<wf, decision, earlier>>
    BY <1>9 DEF CreateStep
  <2>2. \A s \in Steps : (Moves(s) /\ status'[s] = status[s]) \/ Appears(s)
    <3>1. status' = [status EXCEPT ![Top(h).step] = IF Top(h).step = 1 THEN "in_progress" ELSE "pending"]
      BY <1>9 DEF CreateStep
    <3>2. \A s \in Steps : s # Top(h).step => status'[s] = status[s]
      BY <1>1, <3>1
    <3>3. \A s \in Steps : s = Top(h).step => status'[s] \in Open
      BY <1>1, <3>1 DEF Open
    <3>4. \A s \in Steps : s = Top(h).step => status[s] = "absent"
      <4>1. At(h, "create") /\ Steps \subseteq Nat
        BY <1>9, WfTyped DEF CreateStep
      <4> QED BY <4>1 DEF Inserting
    <3>5. copies' = copies
      BY <1>9 DEF CreateStep
    <3> QED BY <3>2, <3>3, <3>4, <3>5 DEF Moves, Appears
  <2> QED BY <2>1, <2>2 DEF DecidesNothing, Appears, Open, Finished
<1> QED BY <1>2, <1>3, <1>4, <1>5, <1>6, <1>7, <1>8, <1>9 DEF Statement

LEMMA OthersDecide ==
    ASSUME Shape, NEW h \in Handlers, StartWorkflow(h) \/ CancelInstance(h) \/ Abandon(h) \/ StatementFails(h)
    PROVE  DecidesNothing
<1>1. status \in [Steps -> Statuses]
  BY ShapeParts
<1>2. CASE StartWorkflow(h) \/ Abandon(h) \/ StatementFails(h)
  BY <1>2 DEF StartWorkflow, Abandon, StatementFails, rows, DecidesNothing
<1>3. CASE CancelInstance(h)
  BY <1>1, <1>3 DEF CancelInstance, Withdrawn, DecidesNothing, Open, Finished
<1> QED BY <1>2, <1>3

VerdictInv == VerdictsStand /\ ApprovalsDecide /\ DecidedInOrder

LEMMA NothingVerdict ==
    ASSUME Shape, VerdictInv, DecidesNothing
    PROVE  VerdictInv'
<1>1. wf' = wf /\ decision' = decision /\ earlier' = earlier /\ Steps' = Steps
  BY SameWorkflow DEF DecidesNothing
<1>2. Decided' = Decided
  BY <1>1 DEF Decided
<1>3. DecidedInOrder'
  BY <1>1, <1>2 DEF DecidedInOrder, VerdictInv
<1>4. VerdictsStand'
  BY <1>1 DEF VerdictsStand, VerdictInv, DecidesNothing, Open
<1>5. ASSUME ~Direct, NEW s \in Steps
      PROVE  /\ decision'[s] \in {"approve", "reject"} => wf.type[s] = "approval"
             /\ wf.type[s] = "approval" /\ status'[s] = "completed" => decision'[s] = "approve"
             /\ wf.type[s] = "approval" /\ status'[s] = "rejected" => decision'[s] = "reject"
  <2>1. /\ decision[s] \in {"approve", "reject"} => wf.type[s] = "approval"
        /\ wf.type[s] = "approval" /\ status[s] = "completed" => decision[s] = "approve"
        /\ wf.type[s] = "approval" /\ status[s] = "rejected" => decision[s] = "reject"
    BY <1>5 DEF VerdictInv, ApprovalsDecide
  <2>2. wf.type[s] = "approval" /\ status'[s] \in Finished => status'[s] = status[s]
    BY DEF DecidesNothing, Joins
  <2> QED BY <1>1, <2>1, <2>2 DEF Finished
<1>6. ApprovalsDecide'
  BY <1>1, <1>5 DEF ApprovalsDecide
<1> QED BY <1>3, <1>4, <1>6 DEF VerdictInv

LEMMA CompleteVerdict ==
    ASSUME Shape, VerdictInv, NEW h \in Handlers, NEW s \in Steps, NEW d \in Decisions(s), CompleteStep(h, s, d)
    PROVE  VerdictInv'
<1>1. /\ status' = [status EXCEPT ![s] = IF d = "reject" THEN "rejected" ELSE "completed"]
      /\ decision' = [decision EXCEPT ![s] = d]
      /\ earlier' = IF d \in {"approve", "reject"} THEN [earlier EXCEPT ![s] = Decided] ELSE earlier
      /\ status[s] \in Open /\ wf' = wf
  BY DEF CompleteStep, MayDecide, Open
<1>2. status \in [Steps -> Statuses] /\ DOMAIN decision = Steps /\ DOMAIN earlier = Steps
  BY ShapeParts
<1>3. Steps' = Steps
  BY <1>1, SameWorkflow
<1>4. s \notin Decided
  BY <1>1 DEF VerdictInv, VerdictsStand, Decided, Open
<1>5. VerdictsStand'
  BY <1>1, <1>2, <1>3 DEF VerdictInv, VerdictsStand
<1>6. ApprovalsDecide'
  <2>1. ASSUME ~Direct PROVE d \in {"approve", "reject"} <=> wf.type[s] = "approval"
    BY <2>1 DEF Decisions
  <2>2. \A t \in Steps : t # s => decision'[t] = decision[t] /\ status'[t] = status[t]
    BY <1>1, <1>2
  <2>3. decision'[s] = d /\ status'[s] = (IF d = "reject" THEN "rejected" ELSE "completed")
    BY <1>1, <1>2
  <2>4. ASSUME ~Direct, NEW t \in Steps
        PROVE  /\ decision'[t] \in {"approve", "reject"} => wf.type[t] = "approval"
               /\ wf.type[t] = "approval" /\ status'[t] = "completed" => decision'[t] = "approve"
               /\ wf.type[t] = "approval" /\ status'[t] = "rejected" => decision'[t] = "reject"
    <3>1. CASE t = s
      BY <2>1, <2>3, <2>4, <3>1
    <3>2. CASE t # s
      BY <2>2, <2>4, <3>2 DEF VerdictInv, ApprovalsDecide
    <3> QED BY <3>1, <3>2
  <2> QED BY <1>1, <1>3, <2>4 DEF ApprovalsDecide
<1>7. CASE d \notin {"approve", "reject"}
  <2>1. Decided' = Decided /\ earlier' = earlier
    BY <1>1, <1>2, <1>3, <1>4, <1>7 DEF Decided
  <2> QED BY <1>3, <1>5, <1>6, <2>1 DEF VerdictInv, DecidedInOrder
<1>8. CASE d \in {"approve", "reject"}
  <2>1. Decided' = Decided \cup {s}
    BY <1>1, <1>2, <1>3, <1>8 DEF Decided
  <2>2. Decided \subseteq Steps
    BY DEF Decided
  <2>3. earlier'[s] = Decided /\ \A t \in Steps : t # s => earlier'[t] = earlier[t]
    BY <1>1, <1>2, <1>8
  <2>4. /\ \A t \in Steps : earlier[t] \subseteq Decided /\ t \notin earlier[t]
        /\ \A t, u \in Decided : t = u \/ t \in earlier[u] \/ u \in earlier[t]
        /\ \A t, u \in Decided : t \in earlier[u] => earlier[t] \subseteq earlier[u]
    BY DEF VerdictInv, DecidedInOrder
  <2>5. \A t \in Steps : earlier'[t] \subseteq Decided' /\ t \notin earlier'[t]
    BY <1>4, <2>1, <2>3, <2>4
  <2>6. \A t, u \in Decided' : t = u \/ t \in earlier'[u] \/ u \in earlier'[t]
    BY <2>1, <2>2, <2>3, <2>4
  <2>7. ASSUME NEW t \in Decided', NEW u \in Decided', t \in earlier'[u] PROVE earlier'[t] \subseteq earlier'[u]
    <3>1. t \in Decided /\ t # s /\ earlier'[t] = earlier[t] /\ earlier[t] \subseteq Decided
      BY <1>4, <2>1, <2>2, <2>3, <2>4, <2>7
    <3>2. CASE u = s
      BY <2>3, <3>1, <3>2
    <3>3. CASE u # s
      BY <2>1, <2>2, <2>3, <2>4, <2>7, <3>1, <3>3
    <3> QED BY <3>2, <3>3
  <2>8. DecidedInOrder'
    BY <1>3, <2>5, <2>6, <2>7 DEF DecidedInOrder
  <2> QED BY <1>5, <1>6, <2>8 DEF VerdictInv
<1> QED BY <1>7, <1>8

LEMMA ReopenVerdict ==
    ASSUME Shape, VerdictInv, wf' = wf, NEW S, NEW to \in Open, Reopen(S, to)
    PROVE  VerdictInv'
<1>1. Steps' = Steps
  BY SameWorkflow
<1>2. \A s \in Steps :
        /\ status'[s] = (IF s \in S THEN to ELSE status[s])
        /\ decision'[s] = (IF s \in S THEN "" ELSE decision[s])
        /\ earlier'[s] = (IF s \in S THEN {} ELSE earlier[s] \ S)
  BY DEF Reopen
<1>3. Decided' = Decided \ S
  BY <1>1, <1>2 DEF Decided
<1>4. VerdictsStand'
  BY <1>1, <1>2 DEF VerdictInv, VerdictsStand
<1>5. ApprovalsDecide'
  <2>1. to \notin {"completed", "rejected"}
    BY DEF Open
  <2> QED BY <1>1, <1>2, <2>1 DEF VerdictInv, ApprovalsDecide
<1>6. DecidedInOrder'
  <2>1. Decided \subseteq Steps
    BY DEF Decided
  <2>2. /\ \A t \in Steps : earlier[t] \subseteq Decided /\ t \notin earlier[t]
        /\ \A t, u \in Decided : t = u \/ t \in earlier[u] \/ u \in earlier[t]
        /\ \A t, u \in Decided : t \in earlier[u] => earlier[t] \subseteq earlier[u]
    BY DEF VerdictInv, DecidedInOrder
  <2>3. ASSUME NEW t \in Steps PROVE earlier'[t] \subseteq Decided' /\ t \notin earlier'[t]
    <3>1. CASE t \in S
      BY <1>2, <3>1
    <3>2. CASE t \notin S
      <4>1. earlier'[t] = earlier[t] \ S
        BY <1>2, <3>2
      <4> QED BY <1>3, <2>2, <4>1
    <3> QED BY <3>1, <3>2
  <2>4. \A t \in Decided' : t \in Decided /\ t \in Steps /\ earlier'[t] = earlier[t] \ S
    BY <1>2, <1>3, <2>1
  <2>5. \A t, u \in Decided' : t = u \/ t \in earlier'[u] \/ u \in earlier'[t]
    BY <1>3, <2>2, <2>4
  <2>6. \A t, u \in Decided' : t \in earlier'[u] => earlier'[t] \subseteq earlier'[u]
    BY <1>3, <2>2, <2>4
  <2> QED BY <1>1, <2>3, <2>5, <2>6 DEF DecidedInOrder
<1> QED BY <1>4, <1>5, <1>6 DEF VerdictInv

LEMMA AutoVerdict ==
    ASSUME Shape, Calls, VerdictInv, NEW h \in Handlers, RunAutoStep(h)
    PROVE  VerdictInv'
<1> DEFINE s == Top(h).step
<1>1. wf' = wf /\ earlier' = earlier /\ Steps' = Steps
  BY SameWorkflow DEF RunAutoStep
<1>2. s \in Steps /\ IsAuto(s)
  BY TopIs, StackTyped, FrameFields DEF RunAutoStep
<1>3. status \in [Steps -> Statuses] /\ DOMAIN decision = Steps
  BY ShapeParts
<1>4. CASE status' = status /\ decision' = decision
  BY <1>1, <1>4, NothingVerdict DEF DecidesNothing
<1>5. CASE ~(status' = status /\ decision' = decision)
  <2>1. PICK d \in AutoDecisions(s) :
          /\ status[s] = "in_progress" /\ status' = [status EXCEPT ![s] = "completed"]
          /\ decision' = [decision EXCEPT ![s] = d]
    BY <1>5 DEF RunAutoStep
  <2>2. d \notin {"approve", "reject"} /\ wf.type[s] # "approval"
    BY <1>2 DEF AutoDecisions, IsAuto
  <2> HIDE DEF s
  <2>3. s \notin Decided
    BY <1>2, <2>1 DEF VerdictInv, VerdictsStand, Decided
  <2>4. Decided' = Decided
    BY <1>1, <1>2, <1>3, <2>1, <2>2, <2>3 DEF Decided
  <2>5. DecidedInOrder'
    BY <1>1, <2>4 DEF VerdictInv, DecidedInOrder
  <2>6. VerdictsStand'
    BY <1>1, <1>2, <1>3, <2>1, <2>2 DEF VerdictInv, VerdictsStand
  <2>7. ApprovalsDecide'
    BY <1>1, <1>2, <1>3, <2>1, <2>2 DEF VerdictInv, ApprovalsDecide
  <2> QED BY <2>5, <2>6, <2>7 DEF VerdictInv
<1> QED BY <1>4, <1>5

LEMMA VerdictStep == RowsInv /\ VerdictInv /\ [Next]_vars => VerdictInv'
<1> SUFFICES ASSUME RowsInv, VerdictInv, [Next]_vars PROVE VerdictInv'
  OBVIOUS
<1>1. Shape /\ Calls /\ Inserting
  BY DEF RowsInv
<1>2. ASSUME NEW h \in Handlers, NEW s \in Steps, NEW d \in Decisions(s), CompleteStep(h, s, d) PROVE VerdictInv'
  BY <1>1, <1>2, CompleteVerdict
<1>3. ASSUME NEW h \in Handlers, StartWorkflow(h) \/ CancelInstance(h) \/ Abandon(h) \/ StatementFails(h)
      PROVE  VerdictInv'
  BY <1>1, <1>3, OthersDecide, NothingVerdict
<1>4. ASSUME NEW h \in Handlers, ResetDownstream(h) \/ Revive(h) PROVE VerdictInv'
  <2>1. "pending" \in Open /\ "in_progress" \in Open
    BY DEF Open
  <2> QED BY <1>1, <1>4, <2>1, ReopenVerdict DEF ResetDownstream, Revive
<1>5. ASSUME NEW h \in Handlers, Statement(h) PROVE VerdictInv'
  BY <1>1, <1>4, <1>5, StatementDecides, NothingVerdict, AutoVerdict
<1>6. CASE UNCHANGED vars
  BY <1>1, <1>6, NothingVerdict DEF vars, rows, DecidesNothing
<1> QED BY <1>2, <1>3, <1>5, <1>6 DEF Next

LEMMA VerdictInit == Init => VerdictInv
<1> SUFFICES ASSUME Init PROVE VerdictInv
  OBVIOUS
<1>1. \A s \in Steps : decision[s] = "" /\ status[s] = "absent" /\ earlier[s] = {}
  BY DEF Init
<1>2. Decided = {}
  BY <1>1 DEF Decided
<1> QED BY <1>1, <1>2 DEF VerdictInv, VerdictsStand, ApprovalsDecide, DecidedInOrder

\* One of the standing decisions is the last: the steps not before it are
\* fewest.
LEMMA LastDecision ==
    ASSUME Shape, DecidedInOrder, Decided # {}
    PROVE  \E s \in Decided : Decided \subseteq earlier[s] \cup {s}
<1> DEFINE after(s) == Cardinality(Steps \ earlier[s])
           N == {after(s) : s \in Decided}
<1>1. Decided \subseteq Steps
  BY DEF Decided
<1>2. \A s \in Steps : IsFiniteSet(Steps \ earlier[s]) /\ after(s) \in Nat
  BY StepsFinite
<1>3. N \in SUBSET Nat /\ N # {}
  BY <1>1, <1>2
<1>4. First(N) \in N /\ \A n \in N : First(N) <= n
  <2> HIDE DEF N
  <2> QED BY <1>3, FirstLeast
<1>5. PICK s \in Decided : \A t \in Decided : after(s) <= after(t)
  BY <1>4
<1>6. ASSUME NEW t \in Decided, t # s, t \notin earlier[s] PROVE FALSE
  <2>1. s \in earlier[t] /\ earlier[s] \subseteq earlier[t] /\ s \notin earlier[s]
    BY <1>1, <1>6 DEF DecidedInOrder
  <2>2. (Steps \ earlier[t]) \subseteq (Steps \ earlier[s]) /\ (Steps \ earlier[t]) # (Steps \ earlier[s])
    BY <1>1, <2>1
  <2>3. after(t) < after(s)
    BY <1>1, <1>2, <2>2, FS_Subset
  <2>4. after(s) <= after(t) /\ after(s) \in Nat /\ after(t) \in Nat
    BY <1>1, <1>2, <1>5
  <2> HIDE DEF after
  <2> QED BY <2>3, <2>4
<1> QED BY <1>5, <1>6

=============================================================================

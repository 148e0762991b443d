-------------------------- MODULE WorkflowReachProofs --------------------------
(***************************************************************************)
(* What reconcileInstance is for: between requests, every step that still  *)
(* waits can be reached from a step that somebody is asked to decide. It   *)
(* holds of any definition in which no join follows itself and no reject   *)
(* branch leads into a join, in runs without rework; both conditions, and  *)
(* the absence of rework, are needed.                                      *)
(***************************************************************************)
EXTENDS WorkflowCascadeProofs

-----------------------------------------------------------------------------
(* The graph. *)

Every == [s \in Steps |-> AllTargets(s)]

\* No join is on a loop.
JoinsAhead == \A j \in Joins : j \notin Closure(AllTargets(j), [s \in Steps |-> AllTargets(s)])

\* A branch that is rejected does not go into a join.
RejectsPass == \A s \in Steps : wf.type[s] = "approval" => ResolveNext(s, "reject") \cap Joins = {}

\* A closure has what it starts from, is closed, and is in every closed set.
LEMMA ClosureIs ==
    ASSUME NEW succ, NEW S \in SUBSET DOMAIN succ, \A s \in DOMAIN succ : succ[s] \subseteq DOMAIN succ
    PROVE  /\ Closure(S, succ) \subseteq DOMAIN succ
           /\ S \subseteq Closure(S, succ)
           /\ \A s \in Closure(S, succ) : succ[s] \subseteq Closure(S, succ)
           /\ \A C \in SUBSET DOMAIN succ :
                S \subseteq C /\ (\A s \in C : succ[s] \subseteq C) => Closure(S, succ) \subseteq C
<1> DEFINE closed == {C \in SUBSET DOMAIN succ : S \subseteq C /\ \A s \in C : succ[s] \subseteq C}
<1>1. Closure(S, succ) = {s \in DOMAIN succ : \A C \in closed : s \in C}
  BY DEF Closure
<1>2. ASSUME NEW s \in Closure(S, succ), NEW t \in succ[s] PROVE t \in Closure(S, succ)
  <2>1. s \in DOMAIN succ /\ t \in DOMAIN succ
    BY <1>1, <1>2
  <2>2. \A C \in closed : t \in C
    BY <1>1, <1>2
  <2> HIDE DEF closed
  <2> QED BY <1>1, <2>1, <2>2
<1> QED BY <1>1, <1>2

LEMMA EveryIs ==
    ASSUME Shape, NEW S \in SUBSET Steps
    PROVE  /\ Closure(S, Every) \subseteq Steps /\ S \subseteq Closure(S, Every)
           /\ \A s \in Closure(S, Every) : AllTargets(s) \subseteq Closure(S, Every)
           /\ \A C \in SUBSET Steps :
                S \subseteq C /\ (\A s \in C : AllTargets(s) \subseteq C) => Closure(S, Every) \subseteq C
<1>1. DOMAIN Every = Steps /\ \A s \in Steps : Every[s] = AllTargets(s) /\ Every[s] \subseteq Steps
  BY TargetsTyped DEF Every
<1> HIDE DEF Every
<1> QED BY <1>1, ClosureIs

\* The joins that s comes after.
JoinsBefore(s) == {j \in Joins : s \in Closure({j}, Every)}

LEMMA JoinsGrow ==
    ASSUME Shape, NEW s \in Steps, NEW t \in AllTargets(s)
    PROVE  /\ t \in Steps /\ JoinsBefore(s) \subseteq JoinsBefore(t)
           /\ JoinsAhead /\ t \in Joins => t \in JoinsBefore(t) \ JoinsBefore(s)
<1>1. t \in Steps
  BY TargetsTyped
<1>2. \A j \in Joins : {j} \in SUBSET Steps
  BY DEF Joins
<1>3. JoinsBefore(s) \subseteq JoinsBefore(t)
  BY <1>2, EveryIs DEF JoinsBefore
<1>4. ASSUME JoinsAhead, t \in Joins PROVE t \in JoinsBefore(t) /\ t \notin JoinsBefore(s)
  <2> DEFINE after == Closure(AllTargets(t), Every)
             X == {t} \cup after
  <2>1. /\ after \subseteq Steps /\ AllTargets(t) \subseteq after /\ \A u \in after : AllTargets(u) \subseteq after
        /\ t \notin after
    BY <1>1, <1>4, TargetsTyped, EveryIs DEF JoinsAhead, Every
  <2>2. X \in SUBSET Steps /\ {t} \subseteq X /\ \A u \in X : AllTargets(u) \subseteq X
    BY <1>1, <2>1
  <2>3. Closure({t}, Every) \subseteq X /\ t \in Closure({t}, Every)
    <3> HIDE DEF X
    <3> QED BY <1>1, <2>2, EveryIs
  <2>4. s \notin X
    BY <2>1
  <2> QED BY <1>4, <2>3, <2>4 DEF JoinsBefore
<1> QED BY <1>1, <1>3, <1>4

LEMMA JoinsCounted ==
    ASSUME Shape, NEW s \in Steps, NEW t \in AllTargets(s)
    PROVE  /\ Cardinality(JoinsBefore(s)) \in Nat /\ Cardinality(JoinsBefore(t)) \in Nat
           /\ Cardinality(JoinsBefore(s)) <= Cardinality(JoinsBefore(t))
           /\ JoinsAhead /\ t \in Joins => Cardinality(JoinsBefore(s)) < Cardinality(JoinsBefore(t))
<1>1. JoinsBefore(s) \in SUBSET Steps /\ JoinsBefore(t) \in SUBSET Steps
  BY DEF JoinsBefore, Joins
<1>2. /\ IsFiniteSet(JoinsBefore(s)) /\ IsFiniteSet(JoinsBefore(t))
      /\ Cardinality(JoinsBefore(s)) \in Nat /\ Cardinality(JoinsBefore(t)) \in Nat
  BY <1>1, StepsFinite
<1>3. JoinsBefore(s) \in SUBSET JoinsBefore(t)
  BY JoinsGrow
<1>4. /\ Cardinality(JoinsBefore(s)) <= Cardinality(JoinsBefore(t))
      /\ Cardinality(JoinsBefore(t)) = Cardinality(JoinsBefore(s)) => JoinsBefore(t) = JoinsBefore(s)
  BY <1>2, <1>3, FS_Subset
<1>5. JoinsAhead /\ t \in Joins => JoinsBefore(t) # JoinsBefore(s)
  BY JoinsGrow
<1> QED BY <1>2, <1>4, <1>5

-----------------------------------------------------------------------------
(* What reconciling a run establishes. *)

Waiting == {s \in Steps : status[s] = "pending"}
Passed  == {s \in Steps : status[s] = "skipped"}

\* Where routing can go on to from s.
Onto(s) == IF status[s] \in Finished THEN ResolveNext(s, decision[s]) ELSE AllTargets(s)

\* A join that does not fire: a predecessor is open, or none completed.
Stuck(j) ==
    \/ \E p \in Predecessors(j) : status[p] \notin Resolved
    \/ \A p \in Predecessors(j) : status[p] # "completed"

\* The fixpoint: what waits can still be visited, and no join can fire.
Settled == Waiting \subseteq Reachable /\ \A j \in Waiting \cap Joins : Stuck(j)

\* Only approvals are rejected.
Rejected == \A s \in Steps : status[s] = "rejected" => wf.type[s] = "approval"

\* The first step is opened when it is inserted.
FirstOpened == status[1] # "pending"

\* No route that can still be taken goes to a step that was skipped.
Clean == Waiting # {} => \A s \in Steps : status[s] \in Open \cup Finished => Onto(s) \cap Passed = {}

\* A step that a finished one routes to is opened before the cascade is over.
Carried(q) ==
    \A p \in Steps : \A t \in ResolveNext(p, decision[p]) \ Joins :
        status[p] \in Finished /\ status[t] = "pending"
        => \E i \in DOMAIN q : q[i].op = "activate" /\ q[i].to = t

LEMMA ReachableIs ==
    ASSUME Shape
    PROVE  /\ Reachable \subseteq Steps
           /\ \A s \in Steps : status[s] \in Finished \cup {"in_progress"} => s \in Reachable
           /\ \A s \in Reachable : Onto(s) \subseteq Reachable
           /\ \A C \in SUBSET Steps :
                /\ \A s \in Steps : status[s] \in Finished \cup {"in_progress"} => s \in C
                /\ \A s \in C : Onto(s) \subseteq C
                => Reachable \subseteq C
<1> DEFINE S == {s \in Steps : status[s] \in Finished \cup {"in_progress"}}
           succ == [s \in Steps |-> IF status[s] \in Finished THEN ResolveNext(s, decision[s]) ELSE AllTargets(s)]
<1>1. Reachable = Closure(S, succ)
  BY DEF Reachable
<1>2. DOMAIN succ = Steps /\ S \in SUBSET Steps /\ \A s \in Steps : succ[s] = Onto(s)
  BY DEF Onto
<1>3. \A s \in Steps : Onto(s) \subseteq Steps
  BY NextTyped, TargetsTyped DEF Onto
<1>4. \A s \in Steps : s \in S <=> status[s] \in Finished \cup {"in_progress"}
  OBVIOUS
<1> HIDE DEF S, succ
<1>5. /\ Closure(S, succ) \subseteq Steps /\ S \subseteq Closure(S, succ)
      /\ \A s \in Closure(S, succ) : succ[s] \subseteq Closure(S, succ)
      /\ \A C \in SUBSET Steps :
           S \subseteq C /\ (\A s \in C : succ[s] \subseteq C) => Closure(S, succ) \subseteq C
  BY <1>2, <1>3, ClosureIs
<1>6. ASSUME NEW C \in SUBSET Steps, \A s \in Steps : status[s] \in Finished \cup {"in_progress"} => s \in C,
             \A s \in C : Onto(s) \subseteq C
      PROVE  Reachable \subseteq C
  <2>1. S \subseteq C /\ \A s \in C : succ[s] \subseteq C
    BY <1>2, <1>4, <1>6
  <2> QED BY <1>1, <1>5, <2>1
<1>7. \A s \in Reachable : Onto(s) \subseteq Reachable
  BY <1>1, <1>2, <1>5
<1>8. \A s \in Steps : status[s] \in Finished \cup {"in_progress"} => s \in Reachable
  BY <1>1, <1>4, <1>5
<1> QED BY <1>1, <1>5, <1>6, <1>7, <1>8

\* A join that a finished step leads into has a predecessor that completed.
LEMMA IntoJoin ==
    ASSUME Shape, VerdictInv, ~Direct, Rejected, RejectsPass,
           NEW p \in Steps, status[p] \in Finished, NEW t \in ResolveNext(p, decision[p]) \cap Joins
    PROVE  p \in Predecessors(t) /\ status[p] = "completed"
<1>1. p \in Predecessors(t)
  BY NextTyped DEF Predecessors, RoutesTo
<1>2. ASSUME status[p] = "rejected" PROVE FALSE
  <2>1. wf.type[p] = "approval" /\ decision[p] = "reject"
    BY <1>2 DEF Rejected, VerdictInv, ApprovalsDecide
  <2> QED BY <2>1 DEF RejectsPass
<1> QED BY <1>1, <1>2 DEF Finished

\* The steps that somebody may still be asked to decide.
ToCome == Closure({s \in Steps : status[s] = "in_progress"}, Every)

\* What is finished and what is to come is all that can be visited, apart
\* from what comes after the steps of U.
LEMMA Visited ==
    ASSUME Shape, Clean, Carried(<<>>), \A s \in Steps : status[s] # "absent",
           NEW U \in SUBSET Steps, \A s \in U : AllTargets(s) \subseteq U,
           \A p \in Steps : \A t \in ResolveNext(p, decision[p]) \cap Joins :
               status[p] \in Finished /\ status[t] = "pending" => t \in ToCome \cup U
    PROVE  Waiting \cap Reachable \subseteq ToCome \cup U
<1> DEFINE X == {s \in Steps : status[s] \in Finished} \cup ToCome \cup U
<1>1. /\ ToCome \subseteq Steps /\ \A s \in Steps : status[s] = "in_progress" => s \in ToCome
      /\ \A s \in ToCome : AllTargets(s) \subseteq ToCome
  BY EveryIs DEF ToCome
<1>2. CASE Waiting = {}
  BY <1>2
<1>3. ASSUME Waiting # {}, NEW s \in X, NEW t \in Onto(s) PROVE t \in X
  <2>1. s \in Steps /\ Onto(s) \subseteq AllTargets(s) /\ t \in AllTargets(s) /\ t \in Steps
    BY <1>1, <1>3, NextTyped, TargetsTyped DEF Onto
  <2>2. CASE s \in ToCome \cup U
    BY <1>1, <2>1, <2>2
  <2>3. CASE status[s] \in Finished
    <3>1. t \in ResolveNext(s, decision[s]) /\ t \notin Passed
      BY <1>3, <2>1, <2>3 DEF Onto, Clean
    <3>2. status[t] # "pending" \/ t \in ToCome \cup U
      <4>1. CASE t \in Joins
        BY <2>1, <2>3, <3>1, <4>1
      <4>2. CASE t \notin Joins
        BY <2>1, <2>3, <3>1, <4>2 DEF Carried
      <4> QED BY <4>1, <4>2
    <3>3. status[t] \in {"in_progress"} \cup Finished \/ t \in ToCome \cup U
      <4>1. status[t] \in Statuses /\ status[t] # "absent" /\ status[t] # "skipped"
        BY <2>1, <3>1, ShapeParts DEF Passed
      <4> QED BY <3>2, <4>1 DEF Statuses, Open, Resolved
    <3> QED BY <1>1, <2>1, <3>3
  <2> QED BY <1>3, <2>2, <2>3
<1>4. ASSUME Waiting # {} PROVE Reachable \subseteq X
  <2>1. X \in SUBSET Steps /\ \A s \in Steps : status[s] \in Finished \cup {"in_progress"} => s \in X
    BY <1>1
  <2>2. \A s \in X : Onto(s) \subseteq X
    BY <1>3, <1>4
  <2> HIDE DEF X
  <2> QED BY <2>1, <2>2, ReachableIs
<1>5. \A s \in Waiting : status[s] \notin Finished
  BY DEF Waiting, Finished
<1> QED BY <1>2, <1>4, <1>5

\* Between requests that is the promise.
LEMMA SettledReaches ==
    ASSUME Shape, VerdictInv, ~Direct, JoinsAhead, RejectsPass, Rejected, Clean, Carried(<<>>), Settled,
           \A s \in Steps : status[s] # "absent"
    PROVE  Waiting \subseteq ToCome
<1> DEFINE Early == {t \in (Waiting \cap Joins) \ ToCome :
                        \E p \in Steps : status[p] \in Finished /\ t \in ResolveNext(p, decision[p])}
           rank(s) == Cardinality(JoinsBefore(s))
<1>1. ASSUME NEW s \in Steps PROVE rank(s) \in Nat
  <2>1. JoinsBefore(s) \in SUBSET Steps
    BY DEF JoinsBefore, Joins
  <2> QED BY <2>1, StepsFinite
<1>2. ASSUME NEW s \in ToCome, NEW t \in AllTargets(s) PROVE t \in ToCome
  BY <1>2, EveryIs DEF ToCome
<1>3. ASSUME Early # {} PROVE FALSE
  <2> DEFINE Ranks == {rank(s) : s \in Early}
  <2>1. Early \subseteq Steps /\ Ranks \in SUBSET Nat /\ Ranks # {}
    BY <1>1, <1>3 DEF Waiting
  <2>2. PICK t \in Early : \A s \in Early : rank(t) <= rank(s)
    <3>1. First(Ranks) \in Ranks /\ \A n \in Ranks : First(Ranks) <= n
      <4> HIDE DEF Ranks
      <4> QED BY <2>1, FirstLeast
    <3> HIDE DEF rank, Early
    <3> QED BY <3>1
  <2>3. PICK p \in Steps : status[p] \in Finished /\ t \in ResolveNext(p, decision[p])
    BY <2>2
  <2>4. t \in Steps /\ t \in Joins /\ t \in Waiting /\ t \notin ToCome
    BY <2>1, <2>2
  <2>5. p \in Predecessors(t) /\ status[p] = "completed"
    BY <2>3, <2>4, IntoJoin
  <2>6. PICK u \in Predecessors(t) : status[u] \notin Resolved
    BY <2>4, <2>5 DEF Settled, Stuck
  <2>7. u \in Steps /\ t \in AllTargets(u)
    BY <2>6 DEF Predecessors, RoutesTo
  <2>8. u \notin ToCome
    BY <1>2, <2>4, <2>7
  <2>9. u \in Waiting
    <3>1. status[u] \in Statuses /\ status[u] # "absent" /\ status[u] # "in_progress"
      <4>1. status[u] = "in_progress" => u \in ToCome
        BY <2>7, EveryIs DEF ToCome
      <4> QED BY <2>7, <2>8, <4>1, ShapeParts
    <3> QED BY <2>6, <2>7, <3>1 DEF Statuses, Open, Waiting
  <2> DEFINE U == {s \in Steps : rank(t) <= rank(s)}
  <2>10. \A s \in U : AllTargets(s) \subseteq U
    <3>1. ASSUME NEW s \in U, NEW v \in AllTargets(s) PROVE v \in U
      <4>1. s \in Steps /\ v \in Steps
        BY <3>1, TargetsTyped
      <4>2. rank(s) <= rank(v)
        BY <4>1, JoinsCounted
      <4>3. rank(t) \in Nat /\ rank(s) \in Nat /\ rank(v) \in Nat /\ rank(t) <= rank(s)
        BY <1>1, <2>4, <4>1
      <4> HIDE DEF rank
      <4> QED BY <4>1, <4>2, <4>3
    <3> QED BY <3>1
  <2>11. ASSUME NEW s \in Steps, NEW v \in ResolveNext(s, decision[s]) \cap Joins,
                status[s] \in Finished, status[v] = "pending"
         PROVE  v \in ToCome \cup U
    <3>1. v \in Steps /\ v \in Waiting
      BY <2>11 DEF Joins, Waiting
    <3>2. CASE v \in ToCome
      BY <3>2
    <3>3. CASE v \notin ToCome
      <4>1. v \in Early
        BY <2>11, <3>1, <3>3
      <4> QED BY <2>2, <3>1, <4>1
    <3> QED BY <3>2, <3>3
  <2>12. Waiting \cap Reachable \subseteq ToCome \cup U
    <3>1. U \in SUBSET Steps
      OBVIOUS
    <3> HIDE DEF U
    <3> QED BY <2>10, <2>11, <3>1, Visited
  <2>13. u \in U
    BY <2>8, <2>9, <2>12 DEF Settled
  <2>14. rank(u) < rank(t)
    BY <2>4, <2>7, JoinsCounted
  <2>15. rank(t) <= rank(u) /\ rank(t) \in Nat /\ rank(u) \in Nat
    BY <1>1, <2>4, <2>7, <2>13
  <2> HIDE DEF rank
  <2> QED BY <2>14, <2>15
<1>4. Waiting \cap Reachable \subseteq ToCome \cup {}
  <2>1. ASSUME NEW s \in Steps, NEW v \in ResolveNext(s, decision[s]) \cap Joins,
               status[s] \in Finished, status[v] = "pending"
        PROVE  v \in ToCome \cup {}
    BY <1>3, <2>1 DEF Waiting, Joins
  <2> QED BY <2>1, Visited
<1> QED BY <1>4 DEF Settled

-----------------------------------------------------------------------------
(* The passes of reconcileInstance. *)

Recons == {"reach", "sweep", "joins"}

Left == Cardinality(Waiting)

\* As many steps wait as there are passes to come, at most.
Within(pass) == Left <= Len(wf.type) - pass

\* A frame of a pass as it may be anywhere on a stack: a pass that is still
\* to begin, or one that has skipped or fired something.
Bounded(f) ==
    /\ f.op # "sweep"
    /\ f.op = "reach" => f.pass = 1 \/ Within(f.pass)
    /\ f.op = "joins" => f.changed /\ Within(f.pass + 1)

\* A pass that has changed nothing so far, and goes through the joins; the
\* joins of asked are being looked at.
Scanning(f, asked) ==
    /\ f.op = "joins" /\ ~f.changed /\ Within(f.pass)
    /\ Waiting \subseteq Reachable
    /\ \A j \in (Waiting \cap Joins) \ (f.left \cup asked) : Stuck(j)

\* A frame of the pass that is under way.
Current(q, i) ==
    \/ i = 1 /\ q[1].op = "sweep" /\ q[1].reach = Reachable /\ Within(q[1].pass)
    \/ i = 1 /\ Scanning(q[1], {})
    \/ i = 2 /\ Asks(q[1]) /\ Scanning(q[2], {q[1].join})
    \/ /\ i = 2 /\ q[1].op = "fire" /\ status[q[1].join] = "pending"
       /\ q[2].op = "joins" /\ q[2].changed /\ Within(q[2].pass)

Passing(q) == \A i \in DOMAIN q : Bounded(q[i]) \/ Current(q, i)

\* The join that is being looked at waits, and no predecessor looked at so
\* far has completed.
Asking(q) ==
    q # <<>> /\ Asks(q[1]) =>
        /\ status[q[1].join] = "pending" /\ q[1].left \subseteq Predecessors(q[1].join)
        /\ q[1].op = "any" => \A p \in Predecessors(q[1].join) \ q[1].left : status[p] # "completed"

Reconciles(q) == \E i \in DOMAIN q : q[i].op \in Recons

\* A cascade ends with a reconciliation.
ReconsLast(q) == \A i, j \in DOMAIN q : i < j /\ q[i].op \in Recons => Kind(q[j]) # "work"
ReconsAll(q) == HasRouting /\ Holds(q, "work") => Reconciles(q)

\* While the rows are inserted nothing is finished, and no pass has begun.
Creating(h) ==
    At(h, "create") =>
        /\ \A s \in Steps : status[s] \in Open \cup {"absent"}
        /\ \A i \in DOMAIN stack[h] : stack[h][i].op \in Recons => stack[h][i].op = "reach" /\ stack[h][i].pass = 1

\* What the frames of a handler promise.
Passes(q) ==
    /\ Carried(q) /\ Passing(q) /\ Asking(q) /\ ReconsLast(q) /\ ReconsAll(q)
    /\ HasRouting /\ ~Reconciles(q) => Settled

ReachInv ==
    /\ Rejected /\ FirstOpened /\ Clean
    /\ \A h \in Handlers : Creating(h) /\ Passes(stack[h])

\* The counting of the steps that wait.
LEMMA LeftTyped ==
    ASSUME Shape
    PROVE  Left \in Nat /\ IsFiniteSet(Waiting) /\ Waiting \subseteq Steps
<1>1. Waiting \in SUBSET Steps
  BY DEF Waiting
<1> QED BY <1>1, StepsFinite DEF Left

LEMMA LeftFalls ==
    ASSUME Shape, Shape', wf' = wf, \A s \in Steps : status'[s] = "pending" => status[s] = "pending"
    PROVE  /\ Left \in Nat /\ Left' \in Nat /\ Left' <= Left
           /\ (\E s \in Steps : status[s] = "pending" /\ status'[s] # "pending") => Left' < Left
<1>1. Left \in Nat /\ IsFiniteSet(Waiting) /\ Steps' = Steps
  BY LeftTyped, SameWorkflow
<1>2. Waiting' \in SUBSET Waiting
  BY <1>1 DEF Waiting
<1>3. Left' <= Left /\ (Left = Left' => Waiting = Waiting') /\ Left' \in Nat
  BY <1>1, <1>2, FS_Subset, FS_CardinalityType DEF Left
<1>4. (\E s \in Steps : status[s] = "pending" /\ status'[s] # "pending") => Waiting' # Waiting
  BY <1>1 DEF Waiting
<1> QED BY <1>1, <1>3, <1>4

\* One step does not wait, once the first is open.
LEMMA FirstPass ==
    ASSUME Shape, FirstOpened
    PROVE  Within(1)
<1>1. Len(wf.type) \in Nat /\ Len(wf.type) > 0 /\ 1 \in Steps
  BY WfTyped
<1>2. IsFiniteSet(Steps) /\ Cardinality(Steps) = Len(wf.type)
  <2>1. PICK n \in Nat : n = Len(wf.type) /\ n > 0
    BY <1>1
  <2>2. IsFiniteSet(1..n) /\ Cardinality(1..n) = IF 1 > n THEN 0 ELSE n - 1 + 1
    BY FS_Interval
  <2>3. Cardinality(1..n) = n
    BY <2>1, <2>2
  <2> QED BY <2>1, <2>2, <2>3 DEF Steps
<1>3. Waiting \in SUBSET Steps /\ 1 \notin Waiting
  BY DEF Waiting, FirstOpened
<1>4. Left <= Len(wf.type) /\ (Len(wf.type) = Left => Steps = Waiting) /\ Left \in Nat
  BY <1>2, <1>3, FS_Subset, LeftTyped DEF Left
<1> QED BY <1>1, <1>3, <1>4 DEF Within

LEMMA WithinFalls ==
    ASSUME Shape, Shape', wf' = wf, \A s \in Steps : status'[s] = "pending" => status[s] = "pending",
           NEW f \in Frames, f.op \in Recons, Within(f.pass)
    PROVE  /\ Within(f.pass)'
           /\ (\E s \in Steps : status[s] = "pending" /\ status'[s] # "pending") => Within(f.pass + 1)'
<1>1. f.pass \in Nat /\ Len(wf.type) \in Nat
  BY FrameFields, WfTyped DEF Recons
<1> QED BY <1>1, LeftFalls DEF Within

LEMMA BoundedFalls ==
    ASSUME Shape, Shape', wf' = wf, \A s \in Steps : status'[s] = "pending" => status[s] = "pending",
           NEW f \in Frames, Bounded(f)
    PROVE  Bounded(f)'
<1>1. Len(wf.type) \in Nat /\ Left \in Nat /\ Left' \in Nat /\ Left' <= Left
  BY WfTyped, LeftFalls
<1>2. CASE f.op \in {"reach", "joins"}
  <2>1. f.pass \in Nat
    BY <1>2, FrameFields
  <2>2. Within(f.pass) => Within(f.pass)'
    BY <1>1, <2>1 DEF Within
  <2>3. Within(f.pass + 1) => Within(f.pass + 1)'
    BY <1>1, <2>1 DEF Within
  <2> QED BY <2>2, <2>3 DEF Bounded
<1>3. CASE f.op \notin {"reach", "joins"}
  BY <1>3 DEF Bounded
<1> QED BY <1>2, <1>3

\* Below a frame that neither asks nor fires, every pass is bounded.
LEMMA BelowBounded ==
    ASSUME NEW q, Passing(q), NEW k \in DOMAIN q, k # 1,
           k = 2 => ~Asks(q[1]) /\ (q[1].op = "fire" => status[q[1].join] # "pending")
    PROVE  Bounded(q[k])
  BY DEF Passing, Current

-----------------------------------------------------------------------------
(* What moving on leaves as it was. *)

\* Steps are opened and finished; none is skipped or inserted.
Onward ==
    /\ wf' = wf
    /\ \A s \in Steps :
        \/ status'[s] = status[s] /\ decision'[s] = decision[s]
        \/ status[s] \in Open /\ status'[s] \in {"in_progress", "completed"}
        \/ status[s] \in Open /\ status'[s] = "rejected" /\ wf.type[s] = "approval"

LEMMA NextPrimed ==
    ASSUME wf' = wf, NEW s, NEW d, decision'[s] = d
    PROVE  ResolveNext(s, decision[s])' = ResolveNext(s, d)
  BY DEF ResolveNext, AllTargets

LEMMA OntoFalls ==
    ASSUME Shape, Onward, NEW s \in Steps, status'[s] \in Open \cup Finished
    PROVE  status[s] \in Open \cup Finished /\ Onto(s)' \subseteq Onto(s)
<1>1. wf' = wf /\ AllTargets(s)' = AllTargets(s)
  BY SameWorkflow DEF Onward
<1>2. CASE status'[s] = status[s] /\ decision'[s] = decision[s]
  <2>1. ResolveNext(s, decision[s])' = ResolveNext(s, decision[s])
    BY <1>1, <1>2, NextPrimed
  <2> QED BY <1>1, <1>2, <2>1 DEF Onto
<1>3. CASE status[s] \in Open
  <2>1. Onto(s) = AllTargets(s)
    BY <1>3 DEF Onto, Open, Finished
  <2>2. ResolveNext(s, decision'[s]) \subseteq AllTargets(s)
    BY NextTyped
  <2>3. ResolveNext(s, decision[s])' = ResolveNext(s, decision'[s])
    <3>1. PICK d : d = decision'[s]
      OBVIOUS
    <3> QED BY <1>1, <3>1, NextPrimed
  <2>4. Onto(s)' \subseteq AllTargets(s)
    BY <1>1, <2>2, <2>3 DEF Onto
  <2> QED BY <1>3, <2>1, <2>4
<1> QED BY <1>2, <1>3 DEF Onward

LEMMA OnwardRows ==
    ASSUME Shape, Onward, Rejected, FirstOpened, Clean
    PROVE  /\ Rejected' /\ FirstOpened' /\ Clean' /\ Steps' = Steps /\ wf' = wf
           /\ \A s \in Steps : status'[s] = "pending" => status[s] = "pending"
<1>1. wf' = wf /\ Steps' = Steps /\ 1 \in Steps
  BY SameWorkflow, WfTyped DEF Onward
<1>2. \A s \in Steps : status'[s] = "pending" => status[s] = "pending"
  BY DEF Onward
<1>3. Rejected' /\ FirstOpened'
  BY <1>1 DEF Onward, Rejected, FirstOpened
<1>4. Passed' = Passed /\ Waiting' \subseteq Waiting
  BY <1>1, <1>2 DEF Onward, Passed, Waiting, Open
<1>5. Clean'
  <2>1. ASSUME Waiting' # {}, NEW s \in Steps, status'[s] \in Open \cup Finished
        PROVE  Onto(s)' \cap Passed' = {}
    <3>1. Onto(s) \cap Passed = {}
      BY <1>4, <2>1, OntoFalls DEF Clean
    <3> QED BY <1>4, <2>1, <3>1, OntoFalls
  <2> QED BY <1>1, <2>1 DEF Clean
<1> QED BY <1>1, <1>2, <1>3, <1>5

\* A statement that writes no row.
LEMMA SameRows ==
    ASSUME Shape, UNCHANGED <<wf, status, decision>>
    PROVE  /\ Onward /\ Steps' = Steps /\ Joins' = Joins /\ HasRouting' = HasRouting
           /\ Waiting' = Waiting /\ Left' = Left /\ Reachable' = Reachable /\ Settled' = Settled
           /\ \A j \in Steps : Stuck(j)' = Stuck(j) /\ Predecessors(j)' = Predecessors(j)
<1>1. /\ Steps' = Steps /\ Joins' = Joins /\ HasRouting' = HasRouting /\ \A s : AllTargets(s)' = AllTargets(s)
      /\ wf' = wf
  BY SameWorkflow
<1>2. Onward
  BY DEF Onward
<1>3. Waiting' = Waiting /\ Left' = Left
  BY <1>1 DEF Waiting, Left
<1>4. Reachable' = Reachable
  <2> DEFINE S == {s \in Steps : status[s] \in Finished \cup {"in_progress"}}
             succ == [s \in Steps |-> IF status[s] \in Finished THEN ResolveNext(s, decision[s]) ELSE AllTargets(s)]
  <2>1. \A s \in Steps : ResolveNext(s, decision[s])' = ResolveNext(s, decision[s])
    BY <1>1, NextPrimed
  <2>2. S' = S /\ succ' = succ
    BY <1>1, <2>1
  <2>3. Reachable = Closure(S, succ)
    BY DEF Reachable
  <2>4. Reachable' = Closure(S', succ')
    BY DEF Reachable
  <2> HIDE DEF S, succ
  <2> QED BY <2>2, <2>3, <2>4
<1>5. ASSUME NEW j \in Steps PROVE Stuck(j)' = Stuck(j) /\ Predecessors(j)' = Predecessors(j)
  <2>1. Predecessors(j)' = Predecessors(j)
    BY <1>1 DEF Predecessors, RoutesTo
  <2> QED BY <2>1 DEF Stuck
<1>6. Settled' = Settled
  <2>1. \A j \in Waiting \cap Joins : j \in Steps
    BY DEF Waiting
  <2> QED BY <1>1, <1>3, <1>4, <1>5, <2>1 DEF Settled
<1> QED BY <1>1, <1>2, <1>3, <1>4, <1>5, <1>6

LEMMA SameScan ==
    ASSUME Shape, UNCHANGED <<wf, status, decision>>, NEW f, NEW asked, Scanning(f, asked)
    PROVE  Scanning(f, asked)'
<1>1. /\ Waiting' = Waiting /\ Left' = Left /\ Reachable' = Reachable /\ Joins' = Joins
      /\ \A j \in Steps : Stuck(j)' = Stuck(j)
  BY SameRows
<1>2. Waiting \subseteq Steps
  BY DEF Waiting
<1> QED BY <1>1, <1>2 DEF Scanning, Within

LEMMA SameBounded ==
    ASSUME Shape, UNCHANGED <<wf, status, decision>>, NEW f, Bounded(f)
    PROVE  Bounded(f)'
<1>1. Left' = Left
  BY SameRows
<1> QED BY <1>1 DEF Bounded, Within

-----------------------------------------------------------------------------
(* What moving on leaves of a handler's promises. *)

\* r is what is left of q below its top, and frames of F.
Takes(q, r, F) ==
    \A i \in DOMAIN r : r[i] \in F \/ \E k \in DOMAIN q : k > 1 /\ r[i] = q[k]

LEMMA CarriedStays ==
    ASSUME Shape, wf' = wf, \A s \in Steps : status'[s] = "pending" => status[s] = "pending",
           \A s \in Steps : status[s] \in Finished /\ status'[s] \in Finished => decision'[s] = decision[s],
           NEW q, Carried(q), NEW r,
           \A k \in DOMAIN q : q[k].op = "activate" =>
               \/ \E i \in DOMAIN r : r[i].op = "activate" /\ r[i].to = q[k].to
               \/ status'[q[k].to] # "pending"
               \/ q[k].to \in Joins,
           \A p \in Steps : status[p] \notin Finished /\ status'[p] \in Finished =>
               \A t \in ResolveNext(p, decision'[p]) : \E i \in DOMAIN r : r[i].op = "activate" /\ r[i].to = t
    PROVE  Carried(r)'
<1>1. wf' = wf /\ Steps' = Steps /\ Joins' = Joins
  BY SameWorkflow
<1>2. ASSUME NEW p \in Steps, NEW t, t \in ResolveNext(p, decision'[p]) \ Joins,
             status'[p] \in Finished, status'[t] = "pending"
      PROVE  \E i \in DOMAIN r : r[i].op = "activate" /\ r[i].to = t
  <2>1. CASE status[p] \notin Finished
    BY <1>2, <2>1
  <2>2. CASE status[p] \in Finished
    <3>1. decision'[p] = decision[p]
      BY <1>2, <2>2
    <3>2. t \in ResolveNext(p, decision[p]) \ Joins
      BY <1>2, <3>1
    <3>3. t \in Steps
      BY <3>2, NextTyped
    <3>4. status[t] = "pending"
      BY <1>2, <3>3
    <3>5. PICK k \in DOMAIN q : q[k].op = "activate" /\ q[k].to = t
      BY <2>2, <3>2, <3>4 DEF Carried
    <3> QED BY <1>2, <3>2, <3>5
  <2> QED BY <2>1, <2>2
<1>3. ASSUME NEW p \in Steps PROVE ResolveNext(p, decision[p])' = ResolveNext(p, decision'[p])
  <2>1. PICK d : d = decision'[p]
    OBVIOUS
  <2> QED BY <1>1, <2>1, NextPrimed
<1> QED BY <1>1, <1>2, <1>3 DEF Carried

\* Frames below a frame that was at work on no pass.
LEMMA PassingStays ==
    ASSUME Shape, Shape', wf' = wf, \A s \in Steps : status'[s] = "pending" => status[s] = "pending",
           NEW q \in Seq(Frames), Passing(q), NEW r,
           1 \in DOMAIN q => ~Asks(q[1]),
           \/ 1 \in DOMAIN q => (q[1].op = "fire" => status[q[1].join] # "pending")
           \/ \E s \in Steps : status[s] = "pending" /\ status'[s] # "pending",
           \A i \in DOMAIN r : (Bounded(r[i]) \/ Current(r, i))' \/ \E k \in DOMAIN q : k > 1 /\ r[i] = q[k]
    PROVE  Passing(r)'
<1>1. ASSUME NEW i \in DOMAIN r, NEW k \in DOMAIN q, k > 1, r[i] = q[k] PROVE Bounded(r[i])'
  <2>1. q[k] \in Frames /\ 1 \in DOMAIN q
    <3>1. Len(q) \in Nat /\ DOMAIN q = 1..Len(q)
      OBVIOUS
    <3> QED BY <1>1, <3>1
  <2>2. CASE Bounded(q[k])
    BY <1>1, <2>1, <2>2, BoundedFalls
  <2>3. CASE ~Bounded(q[k])
    <3>1. /\ k = 2 /\ q[1].op = "fire" /\ status[q[1].join] = "pending"
          /\ q[2].op = "joins" /\ q[2].changed /\ Within(q[2].pass)
      BY <1>1, <2>1, <2>3 DEF Passing, Current
    <3>2. Within(q[2].pass + 1)'
      BY <2>1, <3>1, WithinFalls DEF Recons
    <3> QED BY <1>1, <3>1, <3>2 DEF Bounded
  <2> QED BY <2>2, <2>3
<1>2. \A i \in DOMAIN r : (Bounded(r[i]) \/ Current(r, i))'
  BY <1>1
<1> QED BY <1>2 DEF Passing

\* The same when no row changes and the top frame asks about a join.
LEMMA PassingAsked ==
    ASSUME Shape, UNCHANGED <<wf, status, decision>>, NEW q \in Seq(Frames), Passing(q), NEW k \in DOMAIN q, k > 2
    PROVE  Bounded(q[k])'
<1>1. Bounded(q[k])
  BY DEF Passing, Current
<1> QED BY <1>1, SameBounded

\* The order of the frames when the top one is replaced by fs.
LEMMA OrderStays ==
    ASSUME wf' = wf, NEW q \in Seq(Frames), q # <<>>, ReconsLast(q), ReconsAll(q),
           NEW fs \in Seq(Frames), NEW r, r = fs \o Tail(q),
           Holds(fs, "work") => Kind(q[1]) = "work",
           \A i, j \in DOMAIN fs : i < j => fs[i].op \notin Recons,
           IF q[1].op \in Recons THEN fs = <<>> \/ Reconciles(fs) ELSE ~Reconciles(fs)
    PROVE  ReconsLast(r) /\ ReconsAll(r)'
<1>1. /\ r \in Seq(Frames) /\ Len(r) = Len(fs) + Len(q) - 1 /\ Len(q) \in Nat \ {0} /\ Len(fs) \in Nat
      /\ \A i \in 1..Len(r) : r[i] = IF i <= Len(fs) THEN fs[i] ELSE q[i - Len(fs) + 1]
  BY Replaced
<1>2. DOMAIN r = 1..Len(r) /\ DOMAIN fs = 1..Len(fs) /\ DOMAIN q = 1..Len(q) /\ 1 \in DOMAIN q
  BY <1>1
<1>3. ASSUME NEW i \in DOMAIN r
      PROVE  \/ i \in DOMAIN fs /\ r[i] = fs[i]
             \/ i > Len(fs) /\ i - Len(fs) + 1 \in DOMAIN q /\ i - Len(fs) + 1 > 1 /\ r[i] = q[i - Len(fs) + 1]
  BY <1>1, <1>2
<1>4. ASSUME NEW k \in DOMAIN q, k > 1 PROVE k + Len(fs) - 1 \in DOMAIN r /\ r[k + Len(fs) - 1] = q[k]
  <2>1. PICK n : n = k + Len(fs) - 1
    OBVIOUS
  <2>2. n \in 1..Len(r) /\ ~(n <= Len(fs)) /\ n - Len(fs) + 1 = k
    BY <1>1, <1>2, <1>4, <2>1
  <2>3. r[n] = q[n - Len(fs) + 1]
    BY <1>1, <2>2
  <2>4. r[n] = q[k]
    BY <2>2, <2>3
  <2> QED BY <1>2, <2>1, <2>2, <2>4
<1>5. ReconsLast(r)
  <2>1. ASSUME NEW i \in DOMAIN r, NEW j \in DOMAIN r, i < j, r[i].op \in Recons PROVE Kind(r[j]) # "work"
    <3>1. CASE i \in DOMAIN fs /\ r[i] = fs[i]
      <4>1. j \notin DOMAIN fs
        BY <2>1, <3>1
      <4>2. j - Len(fs) + 1 \in DOMAIN q /\ j - Len(fs) + 1 > 1 /\ r[j] = q[j - Len(fs) + 1]
        BY <1>3, <4>1
      <4>3. q[1].op \in Recons
        BY <2>1, <3>1 DEF Reconciles
      <4> QED BY <1>2, <4>2, <4>3 DEF ReconsLast
    <3>2. CASE i > Len(fs) /\ i - Len(fs) + 1 \in DOMAIN q /\ r[i] = q[i - Len(fs) + 1]
      <4>1. j \notin DOMAIN fs /\ i \in Nat /\ j \in Nat
        BY <1>1, <1>2, <2>1, <3>2
      <4>2. j - Len(fs) + 1 \in DOMAIN q /\ r[j] = q[j - Len(fs) + 1]
        BY <1>3, <4>1
      <4>3. i - Len(fs) + 1 < j - Len(fs) + 1
        BY <1>1, <2>1, <4>1
      <4> QED BY <2>1, <3>2, <4>2, <4>3 DEF ReconsLast
    <3> QED BY <1>3, <3>1, <3>2
  <2> QED BY <2>1 DEF ReconsLast
<1>6. ASSUME HasRouting, Holds(r, "work") PROVE Reconciles(r)
  <2>1. CASE q[1].op \in Recons /\ Reconciles(fs)
    <3>1. PICK i \in DOMAIN fs : fs[i].op \in Recons
      BY <2>1 DEF Reconciles
    <3>2. i \in DOMAIN r /\ r[i] = fs[i]
      BY <1>1, <1>2, <3>1
    <3> QED BY <3>1, <3>2 DEF Reconciles
  <2>2. CASE q[1].op \in Recons /\ fs = <<>>
    <3>1. PICK j \in DOMAIN r : Kind(r[j]) = "work"
      BY <1>6 DEF Holds
    <3>2. j - Len(fs) + 1 \in DOMAIN q /\ j - Len(fs) + 1 > 1 /\ r[j] = q[j - Len(fs) + 1]
      BY <1>2, <1>3, <2>2
    <3> QED BY <1>2, <2>2, <3>1, <3>2 DEF ReconsLast
  <2>3. CASE q[1].op \notin Recons
    <3>1. Holds(q, "work")
      <4>1. PICK j \in DOMAIN r : Kind(r[j]) = "work"
        BY <1>6 DEF Holds
      <4> QED BY <1>2, <1>3, <4>1 DEF Holds
    <3>2. PICK k \in DOMAIN q : q[k].op \in Recons
      BY <1>6, <3>1 DEF ReconsAll, Reconciles
    <3>3. k > 1
      BY <1>2, <2>3, <3>2
    <3> QED BY <1>4, <3>2, <3>3 DEF Reconciles
  <2> QED BY <2>1, <2>2, <2>3
<1>7. HasRouting' = HasRouting
  BY SameWorkflow
<1> QED BY <1>5, <1>6, <1>7 DEF ReconsAll

\* What is no work is no part of a pass.
LEMMA ReconKinds ==
    ASSUME NEW f, f.op \in Recons \cup {"activate", "preds", "any", "fire", "create"}
    PROVE  Kind(f) = "work"
  BY KindIs DEF Recons

LEMMA AskingElse ==
    ASSUME NEW r, 1 \in DOMAIN r => ~Asks(r[1]), r # <<>> => 1 \in DOMAIN r
    PROVE  Asking(r)'
  BY DEF Asking

-----------------------------------------------------------------------------
(* The statements of a cascade. *)

\* A cascade goes on to every next step.
LEMMA NextActivates ==
    ASSUME Shape, NEW s \in Steps, NEW d, NEW next \in ActivateNextSteps(s, d), NEW t \in ResolveNext(s, d)
    PROVE  \E i \in DOMAIN next : next[i].op = "activate" /\ next[i].to = t
<1> DEFINE S == ResolveNext(s, d)
<1>1. ~Routeless(s)
  <2>1. t \in AllTargets(s)
    BY NextTyped
  <2> QED BY <2>1 DEF AllTargets, Routeless
<1>2. PICK q \in SetToSeqs(S) : next = [i \in DOMAIN q |-> [op |-> "activate", to |-> q[i]]]
  BY <1>1 DEF ActivateNextSteps
<1> DEFINE n == Cardinality(S)
<1>3. S \in SUBSET Steps /\ IsFiniteSet(S) /\ n \in Nat
  BY NextTyped, StepsFinite
<1>4. q \in [1..n -> S] /\ \A i, j \in 1..n : i # j => q[i] # q[j]
  BY <1>2, <1>3 DEF SetToSeqs
<1>5. ASSUME \A i \in 1..n : q[i] # t PROVE FALSE
  <2> DEFINE T == S \ {t}
  <2>1. IsFiniteSet(T) /\ Cardinality(T) = n - 1
    BY <1>3, FS_RemoveElement
  <2>2. q \in [1..n -> T]
    BY <1>4, <1>5
  <2>3. IsFiniteSet(1..n) /\ Cardinality(1..n) = n
    BY <1>3, FS_Interval
  <2>4. Cardinality(T) < Cardinality(1..n)
    BY <1>3, <2>1, <2>3
  <2> HIDE DEF T, n, S
  <2>5. \E x, y \in 1..n : x # y /\ q[x] = q[y]
    BY <2>1, <2>2, <2>3, <2>4, FS_PigeonHole
  <2> QED BY <1>4, <2>5
<1>6. PICK i \in 1..n : q[i] = t
  BY <1>5
<1>7. DOMAIN q = 1..n
  BY <1>4
<1> HIDE DEF n, S
<1>8. i \in DOMAIN next /\ next[i] = [op |-> "activate", to |-> t]
  BY <1>2, <1>6, <1>7
<1> QED BY <1>8

\* The frames of a cascade outside its reconciliation.
Calm == {f \in Frames : Kind(f) = "work" /\ f.op \notin Recons \cup {"create"} /\ ~Asks(f)}

LEMMA PlainCalm ==
    ASSUME NEW fs \in Seq(Plain),
           \A i \in DOMAIN fs : fs[i].op \in {"auto", "fallback", "activate", "rework", "fail", "failexec"}
    PROVE  fs \in Seq(Calm)
<1>1. \A i \in DOMAIN fs : fs[i] \in Calm
  <2>1. ASSUME NEW i \in DOMAIN fs PROVE fs[i] \in Calm
    <3>1. fs[i] \in Frames
      BY DEF Plain
    <3>2. Kind(fs[i]) = "work"
      BY KindIs
    <3> QED BY <3>1, <3>2 DEF Calm, Recons, Asks
  <2> QED BY <2>1
<1> QED BY <1>1

LEMMA OneCalm ==
    ASSUME NEW f \in Frames, f.op \in {"auto", "fallback", "activate", "rework", "fire", "preds", "reset", "revive"},
           f.op = "preds" => f.then # "any"
    PROVE  f \in Calm /\ <<f>> \in Seq(Calm)
<1>1. Kind(f) = "work"
  BY KindIs
<1>2. f \in Calm
  BY <1>1 DEF Calm, Recons, Asks
<1> QED BY <1>2

LEMMA AutoCalm ==
    ASSUME Shape, NEW s \in Steps
    PROVE  ProcessAutoStep(s) \in Seq(Calm)
<1>1. \A i \in DOMAIN ProcessAutoStep(s) : ProcessAutoStep(s)[i].op = "auto"
  BY AutoPushed
<1> QED BY <1>1, AutoPushed, PlainCalm

LEMMA ActivateCalm ==
    ASSUME Shape, NEW s \in Steps, NEW d, NEW next \in ActivateNextSteps(s, d)
    PROVE  next \in Seq(Calm)
<1>1. \A i \in DOMAIN next : next[i].op \in {"fallback", "activate"}
  <2>1. CASE next = <<[op |-> "fallback"]>>
    BY <2>1
  <2>2. CASE \A i \in DOMAIN next : next[i].op = "activate"
    BY <2>2
  <2> QED BY <2>1, <2>2, ActivatePushed
<1> QED BY <1>1, ActivatePushed, PlainCalm

\* The reads of a join's predecessors before it is fired.
LEMMA FireReads ==
    ASSUME Shape, Calls, NEW h \in Handlers, ReadPredecessor(h), Top(h).then # "any"
    PROVE  \E fs \in Seq(Calm) : Continue(h, fs)
<1> DEFINE f == Top(h)
           g == [op |-> f.then, join |-> f.join, left |-> Predecessors(f.join)]
           k == [f EXCEPT !.left = Rest(@)]
<1>1. ~Idle(h) /\ f \in Frames /\ f.op = "preds" /\ f.join \in Joins /\ f.then = "fire"
  BY TopIs, StackTyped, FrameFields DEF ReadPredecessor
<1>2. g \in Frames /\ g.op = "fire"
  BY <1>1, AskFrame
<1>3. k \in Frames /\ k.op = "preds" /\ k.then = "fire"
  BY <1>1, FrameRest
<1>4. Continue(h, <<g>>) \/ Continue(h, <<k>>) \/ Continue(h, <<>>)
  BY DEF ReadPredecessor
<1> HIDE DEF g, k
<1>5. <<g>> \in Seq(Calm) /\ <<k>> \in Seq(Calm) /\ <<>> \in Seq(Calm)
  BY <1>2, <1>3, OneCalm
<1> QED BY <1>4, <1>5

LEMMA CalmStatements ==
    ASSUME Shape, Calls, NEW h \in Handlers, Statement(h), Top(h) \in Calm
    PROVE  \E fs \in Seq(Calm) : Continue(h, fs)
<1> DEFINE f == Top(h)
<1>1. ~Idle(h) /\ f \in Frames /\ f.op \notin Recons \cup {"create", "any"} /\ (f.op = "preds" => f.then # "any")
  <2>1. ~Idle(h)
    BY InstanceMoves
  <2> QED BY <2>1, StackTyped DEF Calm, Asks
<1>2. Kind(f) = "work"
  BY DEF Calm
<1>3. f.op \notin {"idle", "skip", "end", "endexec", "started", "record"}
  BY <1>2, KindIs
<1>4. <<>> \in Seq(Calm)
  OBVIOUS
<1>5. CASE Fallback(h) \/ FailInstance(h) \/ FailExecution(h) \/ ResetDownstream(h) \/ DriveRecords(h)
  BY <1>4, <1>5 DEF Fallback, FailInstance, FailExecution, ResetDownstream, DriveRecords
<1>6. CASE ReadPredecessor(h)
  <2>1. f.op = "preds"
    BY <1>6, OpOf
  <2> QED BY <1>1, <1>6, <2>1, FireReads
<1>7. CASE ActivateJoin(h)
  <2> DEFINE g == [op |-> "preds", join |-> f.to, left |-> Predecessors(f.to), then |-> "fire"]
  <2>1. f.to \in Joins
    BY <1>1, <1>7, TopIs, FrameFields DEF ActivateJoin, Joins
  <2>2. g \in Frames /\ g.op = "preds" /\ g.then = "fire"
    BY <2>1, AskFrame
  <2>3. Continue(h, <<g>>)
    BY <1>7 DEF ActivateJoin, ReadPredecessors
  <2> HIDE DEF g
  <2> QED BY <2>2, <2>3, OneCalm
<1>8. CASE Activate(h)
  <2> DEFINE g == [op |-> "rework", step |-> f.to]
  <2>1. f.op = "activate" /\ f.to \in Steps \ Joins
    BY <1>1, <1>8, TopIs, FrameFields DEF Activate, Joins
  <2>2. g \in Frames /\ g.op = "rework"
    BY <2>1 DEF Frames
  <2>3. Continue(h, <<g>>) \/ Continue(h, ProcessAutoStep(f.to))
    BY <1>8 DEF Activate
  <2>4. ProcessAutoStep(f.to) \in Seq(Calm)
    BY <2>1, AutoCalm
  <2> HIDE DEF g
  <2>5. <<g>> \in Seq(Calm)
    BY <2>2, OneCalm
  <2> QED BY <2>3, <2>4, <2>5
<1>9. CASE FireJoin(h)
  <2>1. f.join \in Steps
    BY <1>1, <1>9, TopIs, FrameFields DEF FireJoin, Joins
  <2>2. PICK next \in ActivateNextSteps(f.join, "complete") : Continue(h, next)
    BY <1>9 DEF FireJoin
  <2> QED BY <2>1, <2>2, ActivateCalm
<1>10. CASE Revive(h)
  <2>1. f.step \in Steps /\ Continue(h, ProcessAutoStep(f.step))
    BY <1>1, <1>10, TopIs, FrameFields DEF Revive
  <2> QED BY <2>1, AutoCalm
<1>11. CASE RunAutoStep(h)
  <2>1. f.step \in Steps
    BY <1>1, <1>11, TopIs, FrameFields DEF RunAutoStep
  <2>2. Continue(h, <<>>) \/ \E d : \E next \in ActivateNextSteps(f.step, d) : Continue(h, next)
    BY <1>11 DEF RunAutoStep
  <2>3. ASSUME NEW d, NEW next \in ActivateNextSteps(f.step, d) PROVE next \in Seq(Calm)
    BY <2>1, ActivateCalm
  <2> QED BY <1>4, <2>2, <2>3
<1>12. CASE ReadRework(h)
  <2> DEFINE a == [op |-> "reset", step |-> f.step]
             b == [op |-> "revive", step |-> f.step]
             c == <<[op |-> "fail"], [op |-> "failexec"]>>
  <2>1. f.step \in Steps \ Joins
    BY <1>1, <1>12, TopIs, FrameFields DEF ReadRework
  <2>2. a \in Frames /\ b \in Frames /\ a.op = "reset" /\ b.op = "revive"
    BY <2>1, ReworkFrames
  <2>3. c \in Seq(Calm)
    <3>1. c \in Seq(Plain)
      BY OthersPushed
    <3>2. \A i \in DOMAIN c : c[i].op \in {"fail", "failexec"}
      OBVIOUS
    <3> HIDE DEF c
    <3> QED BY <3>1, <3>2, PlainCalm
  <2>4. Continue(h, <<>>) \/ Continue(h, c) \/ Continue(h, <<a, b>>)
    BY <1>12 DEF ReadRework
  <2> HIDE DEF a, b, c
  <2>5. a \in Calm /\ b \in Calm
    BY <2>2, OneCalm
  <2>6. <<a, b>> \in Seq(Calm)
    BY <2>5
  <2> QED BY <1>4, <2>3, <2>4, <2>6
<1>13. /\ ~ReadIdle(h) /\ ~SkipPending(h) /\ ~EndInstance(h) /\ ~EndExecution(h) /\ ~ReadMirror(h)
       /\ ~RecordExecution(h) /\ ~CreateStep(h) /\ ~ReadReachable(h) /\ ~Sweep(h) /\ ~NextJoin(h) /\ ~ReadCompleted(h)
  BY <1>1, <1>3, OpOf DEF Recons
<1> QED BY <1>5, <1>6, <1>7, <1>8, <1>9, <1>10, <1>11, <1>12, <1>13 DEF Statement

\* Nothing is sent back in such a run, and what a cascade touches was open.
LEMMA CalmOnward ==
    ASSUME Shape, Calls, NEW h \in Handlers, Statement(h), Top(h) \in Calm, reopened' = {}
    PROVE  Onward
<1>1. ~Idle(h) /\ Top(h) \in Frames /\ status \in [Steps -> Statuses]
  <2>1. ~Idle(h)
    BY InstanceMoves
  <2> QED BY <2>1, StackTyped, ShapeParts
<1>2. Top(h).op \notin Recons \cup {"create", "any", "idle", "skip", "end", "endexec", "started", "record"}
  BY KindIs DEF Calm, Asks
<1>3. CASE \/ ActivateJoin(h) \/ ReadPredecessor(h) \/ ReadRework(h) \/ FailInstance(h) \/ FailExecution(h)
           \/ DriveRecords(h)
  BY <1>3 DEF Onward, rows, ActivateJoin, ReadPredecessor, ReadRework, FailInstance, FailExecution, DriveRecords
<1>4. CASE Fallback(h)
  BY <1>1, <1>4 DEF Fallback, Onward, Open
<1>5. CASE Activate(h)
  <2>1. UNCHANGED <<wf, decision>>
    BY <1>5 DEF Activate
  <2>2. status' = status \/ (status[Top(h).to] = "pending" /\ status' = [status EXCEPT ![Top(h).to] = "in_progress"])
    BY <1>5 DEF Activate
  <2> QED BY <1>1, <2>1, <2>2 DEF Onward, Open
<1>6. CASE FireJoin(h)
  <2>1. UNCHANGED <<wf, decision>>
        /\ status' = [status EXCEPT ![Top(h).join] = IF @ = "pending" THEN "completed" ELSE @]
    BY <1>6 DEF FireJoin
  <2> QED BY <1>1, <2>1 DEF Onward, Open
<1>7. CASE RunAutoStep(h)
  <2>1. wf' = wf
    BY <1>7 DEF RunAutoStep
  <2>2. \/ status' = status /\ decision' = decision
        \/ /\ status[Top(h).step] = "in_progress" /\ status' = [status EXCEPT ![Top(h).step] = "completed"]
           /\ \E d : decision' = [decision EXCEPT ![Top(h).step] = d]
    BY <1>7 DEF RunAutoStep
  <2>3. decision \in [Steps -> {"", "approve", "reject", "true", "false", "complete", "sent"}]
    BY ShapeParts
  <2> QED BY <1>1, <2>1, <2>2, <2>3 DEF Onward, Open
<1>8. CASE ResetDownstream(h)
  <2> DEFINE S == Reset(Top(h).step)
  <2>1. S = {} /\ wf' = wf
    BY <1>8 DEF ResetDownstream, Reopen
  <2>2. Reopen(S, "pending")
    BY <1>8 DEF ResetDownstream
  <2> HIDE DEF S
  <2> QED BY <2>1, <2>2 DEF Reopen, Onward
<1>9. ~Revive(h)
  BY DEF Revive, Reopen
<1>10. /\ ~ReadIdle(h) /\ ~SkipPending(h) /\ ~EndInstance(h) /\ ~EndExecution(h) /\ ~ReadMirror(h)
       /\ ~RecordExecution(h) /\ ~CreateStep(h) /\ ~ReadReachable(h) /\ ~Sweep(h) /\ ~NextJoin(h) /\ ~ReadCompleted(h)
  BY <1>2, OpOf DEF Recons
<1> QED BY <1>3, <1>4, <1>5, <1>6, <1>7, <1>8, <1>9, <1>10 DEF Statement

LEMMA ContinueHas ==
    ASSUME Shape, Calls, NEW h \in Handlers, ~Idle(h), NEW fs \in Seq(Frames), Continue(h, fs), NEW i \in DOMAIN fs
    PROVE  i \in DOMAIN stack'[h] /\ stack'[h][i] = fs[i]
<1>1. /\ Len(fs) \in Nat /\ Len(stack[h]) \in Nat \ {0}
      /\ DOMAIN stack[h] = 1..Len(stack[h]) /\ DOMAIN stack'[h] = 1..(Len(fs) + Len(stack[h]) - 1)
      /\ \A k \in DOMAIN stack'[h] : stack'[h][k] = IF k <= Len(fs) THEN fs[k] ELSE stack[h][k - Len(fs) + 1]
  BY ContinueIndex
<1>2. i \in 1..Len(fs)
  OBVIOUS
<1> QED BY <1>1, <1>2

\* A step that a statement finishes is passed on from.
LEMMA CalmActivates ==
    ASSUME Shape, Calls, NEW h \in Handlers, Statement(h), Top(h) \in Calm, reopened' = {},
           NEW p \in Steps, status[p] \notin Finished, status'[p] \in Finished,
           NEW t \in ResolveNext(p, decision'[p])
    PROVE  \E i \in DOMAIN stack'[h] : stack'[h][i].op = "activate" /\ stack'[h][i].to = t
<1>1. ~Idle(h) /\ Top(h) \in Frames /\ status \in [Steps -> Statuses]
      /\ decision \in [Steps -> {"", "approve", "reject", "true", "false", "complete", "sent"}]
  <2>1. ~Idle(h)
    BY InstanceMoves
  <2> QED BY <2>1, StackTyped, ShapeParts
<1>2. ASSUME NEW d, t \in ResolveNext(p, d), NEW next \in ActivateNextSteps(p, d), Continue(h, next)
      PROVE  \E i \in DOMAIN stack'[h] : stack'[h][i].op = "activate" /\ stack'[h][i].to = t
  <2>1. PICK i \in DOMAIN next : next[i].op = "activate" /\ next[i].to = t
    BY <1>2, NextActivates
  <2>2. next \in Seq(Frames)
    <3>1. next \in Seq(Calm) /\ Calm \subseteq Frames
      BY <1>2, ActivateCalm DEF Calm
    <3> QED BY <3>1
  <2>3. i \in DOMAIN stack'[h] /\ stack'[h][i] = next[i]
    BY <1>1, <1>2, <2>2, ContinueHas
  <2> QED BY <2>1, <2>3
<1>3. Onward /\ status[p] \in Open /\ p \in Steps
  BY CalmOnward DEF Onward
<1>4. Top(h).op \notin Recons \cup {"create", "any", "idle", "skip", "end", "endexec", "started", "record"}
  BY KindIs DEF Calm, Asks
<1>5. CASE FireJoin(h)
  <2>1. p = Top(h).join /\ p \in Joins
    <3>1. Top(h).join \in Joins
      <4>1. At(h, "fire")
        BY <1>5 DEF FireJoin
      <4>2. Top(h).op = "fire"
        BY <4>1, TopIs
      <4> QED BY <1>1, <4>2, FrameFields
    <3>2. status' = [status EXCEPT ![Top(h).join] = IF @ = "pending" THEN "completed" ELSE @]
      BY <1>5 DEF FireJoin
    <3> QED BY <1>1, <3>1, <3>2
  <2>2. ResolveNext(p, decision'[p]) = AllTargets(p) /\ ResolveNext(p, "complete") = AllTargets(p)
    BY <2>1 DEF ResolveNext, Joins
  <2>3. PICK next \in ActivateNextSteps(p, "complete") : Continue(h, next)
    BY <1>5, <2>1 DEF FireJoin
  <2> QED BY <1>2, <2>2, <2>3
<1>6. CASE RunAutoStep(h)
  <2>1. Top(h).step \in Steps
    <3>1. At(h, "auto")
      BY <1>6 DEF RunAutoStep
    <3>2. Top(h).op = "auto"
      BY <3>1, TopIs
    <3> QED BY <1>1, <3>2, FrameFields
  <2>2. PICK d : /\ status' = [status EXCEPT ![Top(h).step] = "completed"]
                 /\ decision' = [decision EXCEPT ![Top(h).step] = d]
                 /\ \E next \in ActivateNextSteps(Top(h).step, d) : Continue(h, next)
    BY <1>6 DEF RunAutoStep
  <2>3. p = Top(h).step
    BY <1>1, <2>2
  <2>4. decision'[p] = d
    BY <1>1, <2>1, <2>2, <2>3
  <2> QED BY <1>2, <2>2, <2>3, <2>4
<1>7. CASE ~FireJoin(h) /\ ~RunAutoStep(h)
  <2>1. CASE \/ ActivateJoin(h) \/ ReadPredecessor(h) \/ ReadRework(h) \/ FailInstance(h) \/ FailExecution(h)
             \/ DriveRecords(h)
    BY <2>1 DEF rows, ActivateJoin, ReadPredecessor, ReadRework, FailInstance, FailExecution, DriveRecords
  <2>2. CASE Fallback(h)
    BY <1>1, <2>2 DEF Fallback, Finished
  <2>3. CASE Activate(h)
    <3>1. status' = status \/ status' = [status EXCEPT ![Top(h).to] = "in_progress"]
      BY <2>3 DEF Activate
    <3> QED BY <1>1, <3>1 DEF Finished
  <2>4. CASE ResetDownstream(h)
    BY <1>1, <2>4 DEF ResetDownstream, Reopen, Finished
  <2>5. ~Revive(h)
    BY DEF Revive, Reopen
  <2>6. /\ ~ReadIdle(h) /\ ~SkipPending(h) /\ ~EndInstance(h) /\ ~EndExecution(h) /\ ~ReadMirror(h)
        /\ ~RecordExecution(h) /\ ~CreateStep(h) /\ ~ReadReachable(h) /\ ~Sweep(h) /\ ~NextJoin(h) /\ ~ReadCompleted(h)
    BY <1>4, OpOf DEF Recons
  <2> QED BY <1>7, <2>1, <2>2, <2>3, <2>4, <2>5, <2>6 DEF Statement
<1> QED BY <1>5, <1>6, <1>7

\* The step or the join that the top frame is about no longer waits.
LEMMA TopServed ==
    ASSUME Shape, Calls, NEW h \in Handlers, Statement(h)
    PROVE  /\ Top(h).op = "activate" => status'[Top(h).to] # "pending" \/ Top(h).to \in Joins
           /\ Top(h).op = "fire" => \/ status[Top(h).join] # "pending"
                                    \/ \E s \in Steps : status[s] = "pending" /\ status'[s] # "pending"
<1>1. ~Idle(h) /\ Top(h) \in Frames /\ status \in [Steps -> Statuses]
  <2>1. ~Idle(h)
    BY InstanceMoves
  <2> QED BY <2>1, StackTyped, ShapeParts
<1>2. ASSUME Top(h).op = "activate", Top(h).to \notin Joins PROVE status'[Top(h).to] # "pending"
  <2>1. Top(h).to \in Steps
    BY <1>1, <1>2, FrameFields
  <2>2. Activate(h)
    <3>1. Activate(h) \/ ActivateJoin(h)
      BY <1>2, OpOf DEF Statement
    <3>2. ~ActivateJoin(h)
      BY <1>2, <2>1 DEF ActivateJoin, Joins
    <3> QED BY <3>1, <3>2
  <2> QED BY <1>1, <2>1, <2>2 DEF Activate
<1>3. ASSUME Top(h).op = "fire", status[Top(h).join] = "pending"
      PROVE  Top(h).join \in Steps /\ status'[Top(h).join] # "pending"
  <2>1. Top(h).join \in Steps
    BY <1>1, <1>3, FrameFields DEF Joins
  <2>2. FireJoin(h)
    BY <1>3, OpOf DEF Statement
  <2> QED BY <1>1, <1>3, <2>1, <2>2 DEF FireJoin
<1> QED BY <1>2, <1>3

-----------------------------------------------------------------------------
(* A step of the one handler keeps the promises. *)

LEMMA NoCreate ==
    ASSUME Shape', NEW h \in Handlers, \A i \in DOMAIN stack'[h] : stack'[h][i].op # "create"
    PROVE  Creating(h)'
<1>1. ~(At(h, "create")')
  BY TopThereNext
<1> QED BY <1>1 DEF Creating

\* The stack before and after a statement, on their own.
LEMMA CalmStep ==
    ASSUME Shape, Calls, Shape', NEW h \in Handlers, Statement(h), Top(h) \in Calm, reopened' = {},
           Rejected, FirstOpened, Clean, Passes(stack[h])
    PROVE  Rejected' /\ FirstOpened' /\ Clean' /\ Creating(h)' /\ Passes(stack[h])'
<1>1. /\ ~Idle(h) /\ Top(h) = stack[h][1] /\ stack[h] \in Seq(Frames) /\ stack[h] # <<>> /\ Orderly(stack[h])
  <2>1. ~Idle(h)
    BY InstanceMoves
  <2> QED BY <2>1, StackTyped
<1>2. Onward
  BY CalmOnward
<1>3. /\ Rejected' /\ FirstOpened' /\ Clean' /\ Steps' = Steps /\ wf' = wf
      /\ \A s \in Steps : status'[s] = "pending" => status[s] = "pending"
  BY <1>2, OnwardRows
<1>4. PICK fs \in Seq(Calm) : Continue(h, fs)
  BY CalmStatements
<1>5. Calm \subseteq Frames /\ fs \in Seq(Frames) /\ \A i \in DOMAIN fs : fs[i] \in Calm
  BY DEF Calm
<1>6. PICK q : q = stack[h]
  OBVIOUS
<1>7. PICK r : r = stack'[h]
  OBVIOUS
<1>8. q \in Seq(Frames) /\ q # <<>> /\ Orderly(q) /\ q[1] = Top(h) /\ q[1] \in Calm /\ Passes(q) /\ 1 \in DOMAIN q
  <2>1. q \in Seq(Frames) /\ q # <<>>
    BY <1>1, <1>6
  <2>2. 1 \in DOMAIN q
    BY <2>1
  <2> QED BY <1>1, <1>6, <2>2
<1>9. r = fs \o Tail(q)
  <2> DEFINE x == fs \o Tail(stack[h])
  <2>1. stack' = [stack EXCEPT ![h] = x] /\ stack \in [Handlers -> Seq(Frames)]
    BY <1>4 DEF Continue, Shape
  <2>2. stack'[h] = x
    <3> HIDE DEF x
    <3> QED BY <2>1
  <2> QED BY <1>6, <1>7, <2>2
<1>10. Takes(q, r, Calm)
  <2>1. Pushed(h, Calm)
    BY <1>1, <1>4, <1>5, ContinuePushes
  <2> QED BY <1>6, <1>7, <2>1 DEF Pushed, Takes
<1>11. \A k \in DOMAIN q : k > 1 => \E i \in DOMAIN r : r[i] = q[k]
  <2>1. Keeps(stack[h], stack'[h])
    BY <1>1, <1>4, <1>5, ContinueKeeps
  <2> QED BY <1>6, <1>7, <2>1 DEF Keeps
<1>12. DOMAIN q \subseteq Nat \ {0} /\ r \in Seq(Frames)
  BY <1>5, <1>8, <1>9, Replaced
<1>13. Carried(r)'
  <2>1. ASSUME NEW k \in DOMAIN q, q[k].op = "activate"
        PROVE  \/ \E i \in DOMAIN r : r[i].op = "activate" /\ r[i].to = q[k].to
               \/ status'[q[k].to] # "pending"
               \/ q[k].to \in Joins
    <3>1. CASE k = 1
      BY <1>8, <2>1, <3>1, TopServed
    <3>2. CASE k > 1
      BY <1>11, <2>1, <3>2
    <3> QED BY <1>12, <3>1, <3>2
  <2>2. ASSUME NEW p \in Steps, status[p] \notin Finished, status'[p] \in Finished, NEW t \in ResolveNext(p, decision'[p])
        PROVE  \E i \in DOMAIN r : r[i].op = "activate" /\ r[i].to = t
    BY <1>7, <2>2, CalmActivates
  <2>3. \A s \in Steps : status[s] \in Finished /\ status'[s] \in Finished => decision'[s] = decision[s]
    BY <1>2 DEF Onward, Finished, Open
  <2> QED BY <1>3, <1>8, <2>1, <2>2, <2>3, CarriedStays DEF Passes
<1>14. Passing(r)'
  <2>1. Passing(q) /\ ~Asks(q[1])
    BY <1>8 DEF Passes, Calm
  <2>2. \/ q[1].op = "fire" => status[q[1].join] # "pending"
        \/ \E s \in Steps : status[s] = "pending" /\ status'[s] # "pending"
    BY <1>8, TopServed
  <2>3. \A i \in DOMAIN r : Bounded(r[i])' \/ \E k \in DOMAIN q : k > 1 /\ r[i] = q[k]
    BY <1>10 DEF Takes, Calm, Recons, Bounded
  <2> QED BY <1>3, <1>8, <2>1, <2>2, <2>3, PassingStays
<1>15. \A i \in DOMAIN r : r[i].op # "create" /\ ~Asks(r[i])
  <2>1. ASSUME NEW i \in DOMAIN r, NEW k \in DOMAIN q, k > 1, r[i] = q[k] PROVE r[i].op # "create" /\ ~Asks(r[i])
    BY <1>8, <2>1 DEF Orderly, Asks
  <2> QED BY <1>10, <2>1 DEF Takes, Calm
<1>16. Asking(r)'
  <2>1. r # <<>> => 1 \in DOMAIN r
    BY <1>12
  <2> QED BY <1>15, <2>1, AskingElse
<1>17. ReconsLast(r) /\ ReconsAll(r)'
  <2>1. Kind(q[1]) = "work" /\ q[1].op \notin Recons
    BY <1>8 DEF Calm
  <2>2. (\A i, j \in DOMAIN fs : i < j => fs[i].op \notin Recons) /\ ~Reconciles(fs)
    BY <1>5 DEF Calm, Reconciles
  <2> QED BY <1>3, <1>5, <1>8, <1>9, <2>1, <2>2, OrderStays DEF Passes
<1>18. HasRouting' => Reconciles(r)
  <2>1. HasRouting' = HasRouting
    BY <1>3, SameWorkflow
  <2>2. ASSUME HasRouting PROVE Reconciles(r)
    <3>1. Holds(q, "work")
      BY <1>8 DEF Calm, Holds
    <3>2. PICK k \in DOMAIN q : q[k].op \in Recons
      BY <1>8, <2>2, <3>1 DEF Passes, ReconsAll, Reconciles
    <3>3. k # 1
      BY <1>8, <3>2 DEF Calm
    <3>4. PICK i \in DOMAIN r : r[i] = q[k]
      BY <1>11, <1>12, <3>3
    <3> QED BY <3>2, <3>4 DEF Reconciles
  <2> QED BY <2>1, <2>2
<1>19. Passes(r)'
  BY <1>13, <1>14, <1>16, <1>17, <1>18 DEF Passes
<1>20. Passes(stack[h])'
  BY <1>7, <1>19
<1>21. Creating(h)'
  BY <1>7, <1>15, NoCreate
<1> QED BY <1>3, <1>20, <1>21

-----------------------------------------------------------------------------
(* The statements that read for a pass. *)

\* r is q with fs in the place of its top frame, frame by frame.
GoesOn(q, fs, r) ==
    /\ q \in Seq(Frames) /\ q # <<>> /\ Orderly(q) /\ q[1] \in Frames
    /\ Len(q) \in Nat \ {0} /\ DOMAIN q = 1..Len(q) /\ 1 \in DOMAIN q
    /\ r \in Seq(Frames) /\ r = fs \o Tail(q) /\ Len(fs) \in Nat /\ DOMAIN fs = 1..Len(fs)
    /\ DOMAIN r = 1..(Len(fs) + Len(q) - 1)
    /\ \A i \in DOMAIN r : r[i] = IF i <= Len(fs) THEN fs[i] ELSE q[i - Len(fs) + 1]
    /\ \A k \in DOMAIN q : k > 1 => \E i \in DOMAIN r : r[i] = q[k]

LEMMA WentOn ==
    ASSUME Shape, Calls, NEW h \in Handlers, ~Idle(h), NEW fs \in Seq(Frames), Continue(h, fs),
           NEW q, q = stack[h], NEW r, r = stack'[h]
    PROVE  GoesOn(q, fs, r) /\ q[1] = Top(h)
<1>1. q \in Seq(Frames) /\ q # <<>> /\ Orderly(q) /\ q[1] = Top(h) /\ q[1] \in Frames
  BY StackTyped
<1>2. Len(q) \in Nat \ {0} /\ DOMAIN q = 1..Len(q) /\ 1 \in DOMAIN q
  BY <1>1
<1>3. Len(fs) \in Nat /\ DOMAIN fs = 1..Len(fs)
  OBVIOUS
<1>4. /\ DOMAIN r = 1..(Len(fs) + Len(q) - 1)
      /\ \A i \in DOMAIN r : r[i] = IF i <= Len(fs) THEN fs[i] ELSE q[i - Len(fs) + 1]
  <2>1. /\ DOMAIN stack'[h] = 1..(Len(fs) + Len(stack[h]) - 1)
        /\ \A i \in DOMAIN stack'[h] : stack'[h][i] = IF i <= Len(fs) THEN fs[i] ELSE stack[h][i - Len(fs) + 1]
    BY ContinueIndex
  <2> QED BY <2>1
<1>5. r = fs \o Tail(q)
  <2> DEFINE x == fs \o Tail(stack[h])
  <2>1. stack' = [stack EXCEPT ![h] = x] /\ stack \in [Handlers -> Seq(Frames)]
    BY DEF Continue, Shape
  <2>2. stack'[h] = x
    <3> HIDE DEF x
    <3> QED BY <2>1
  <2> QED BY <2>2
<1>6. r \in Seq(Frames)
  BY <1>1, <1>5, Replaced
<1>7. Keeps(stack[h], stack'[h])
  BY ContinueKeeps
<1>8. \A k \in DOMAIN q : k > 1 => \E i \in DOMAIN r : r[i] = q[k]
  BY <1>7 DEF Keeps
<1> QED BY <1>1, <1>2, <1>3, <1>4, <1>5, <1>6, <1>8 DEF GoesOn

LEMMA ReadRows ==
    ASSUME Shape, UNCHANGED <<wf, status, decision>>, Rejected, FirstOpened, Clean
    PROVE  Rejected' /\ FirstOpened' /\ Clean'
<1>1. Onward
  BY SameRows
<1> QED BY <1>1, OnwardRows

LEMMA ReadCarried ==
    ASSUME Shape, UNCHANGED <<wf, status, decision>>, NEW q, Carried(q), NEW r,
           \A k \in DOMAIN q : q[k].op = "activate" => \E i \in DOMAIN r : r[i].op = "activate" /\ r[i].to = q[k].to
    PROVE  Carried(r)'
  BY CarriedStays

\* The cascade goes on, after a read, from a frame that opens no step.
LEMMA ReadStep ==
    ASSUME Shape, Calls, Shape', UNCHANGED <<wf, status, decision>>,
           Rejected, FirstOpened, Clean, NEW h \in Handlers, Passes(stack[h]),
           ~Idle(h), Kind(Top(h)) = "work", Top(h).op # "activate", NEW fs \in Seq(Frames), Continue(h, fs),
           \A i \in DOMAIN fs : fs[i].op # "create",
           \A i, j \in DOMAIN fs : i < j => fs[i].op \notin Recons,
           IF Top(h).op \in Recons THEN fs = <<>> \/ Reconciles(fs) ELSE ~Reconciles(fs),
           Top(h).op \in Recons /\ fs = <<>> => (HasRouting /\ ~Reconciles(Tail(stack[h])) => Settled),
           NEW r, r = stack'[h], Passing(r)', Asking(r)'
    PROVE  Rejected' /\ FirstOpened' /\ Clean' /\ Creating(h)' /\ Passes(stack[h])'
<1>1. PICK q : q = stack[h]
  OBVIOUS
<1>2. GoesOn(q, fs, r) /\ q[1] = Top(h)
  BY <1>1, WentOn
<1>3. Passes(q)
  BY <1>1
<1>4. Rejected' /\ FirstOpened' /\ Clean'
  BY ReadRows
<1>5. Carried(r)'
  <2>1. ASSUME NEW k \in DOMAIN q, q[k].op = "activate"
        PROVE  \E i \in DOMAIN r : r[i].op = "activate" /\ r[i].to = q[k].to
    <3>1. k > 1
      BY <1>2, <2>1 DEF GoesOn
    <3> QED BY <1>2, <2>1, <3>1 DEF GoesOn
  <2> QED BY <1>3, <2>1, ReadCarried DEF Passes
<1>6. ReconsLast(r) /\ ReconsAll(r)'
  BY <1>2, <1>3, OrderStays DEF GoesOn, Passes
<1>7. ASSUME HasRouting, ~Reconciles(r) PROVE Settled
  <2>1. CASE Top(h).op \in Recons
    <3>1. ~Reconciles(fs)
      <4>1. \A i \in DOMAIN fs : i \in DOMAIN r /\ r[i] = fs[i]
        BY <1>2 DEF GoesOn
      <4> QED BY <1>7, <4>1 DEF Reconciles
    <3>2. fs = <<>> /\ r = Tail(stack[h])
      <4>1. fs = <<>>
        BY <2>1, <3>1
      <4>2. Tail(q) \in Seq(Frames)
        BY <1>2 DEF GoesOn
      <4> QED BY <1>1, <1>2, <4>1, <4>2 DEF GoesOn
    <3> QED BY <1>7, <2>1, <3>2
  <2>2. CASE Top(h).op \notin Recons
    <3>1. Holds(q, "work")
      BY <1>2 DEF GoesOn, Holds
    <3>2. PICK k \in DOMAIN q : q[k].op \in Recons
      BY <1>3, <1>7, <3>1 DEF Passes, ReconsAll, Reconciles
    <3>3. k > 1
      BY <1>2, <2>2, <3>2 DEF GoesOn
    <3> QED BY <1>2, <1>7, <3>2, <3>3 DEF GoesOn, Reconciles
  <2> QED BY <2>1, <2>2
<1>8. HasRouting' /\ ~Reconciles(r) => Settled'
  <2>1. HasRouting' = HasRouting /\ Settled' = Settled
    BY SameRows
  <2> QED BY <1>7, <2>1
<1>9. Passes(r)'
  BY <1>5, <1>6, <1>8 DEF Passes
<1>10. Creating(h)'
  <2>1. ASSUME NEW i \in DOMAIN r PROVE r[i].op # "create"
    <3>1. CASE i <= Len(fs)
      BY <1>2, <3>1 DEF GoesOn
    <3>2. CASE ~(i <= Len(fs))
      <4>1. i - Len(fs) + 1 \in DOMAIN q /\ i - Len(fs) + 1 # 1 /\ r[i] = q[i - Len(fs) + 1]
        BY <1>2, <3>2 DEF GoesOn
      <4> QED BY <1>2, <4>1 DEF GoesOn, Orderly
    <3> QED BY <3>1, <3>2
  <2> QED BY <2>1, NoCreate
<1> QED BY <1>4, <1>9, <1>10

\* A pass begins.
LEMMA ReachStep ==
    ASSUME Shape, Calls, Shape', Rejected, FirstOpened, Clean, NEW h \in Handlers, Passes(stack[h]), ReadReachable(h)
    PROVE  Rejected' /\ FirstOpened' /\ Clean' /\ Creating(h)' /\ Passes(stack[h])'
<1> PICK f : f = Top(h)
  OBVIOUS
<1> DEFINE gg == [op |-> "sweep", pass |-> f.pass, reach |-> Reachable]
<1> PICK g : g = gg
  OBVIOUS
<1>1. ~Idle(h) /\ f \in Frames /\ f.op = "reach" /\ f.pass \in Nat
  BY TopIs, StackTyped, FrameFields DEF ReadReachable
<1>2. Continue(h, <<g>>) /\ UNCHANGED <<wf, status, decision>>
  BY DEF ReadReachable, SweepFrom, rows
<1>3. g \in Frames /\ g.op = "sweep" /\ g.pass = f.pass /\ g.reach = Reachable
  BY <1>1, ReachableTyped DEF Frames
<1> HIDE DEF gg
<1>4. PICK fs : fs = <<g>>
  OBVIOUS
<1>5. fs \in Seq(Frames) /\ Len(fs) = 1 /\ DOMAIN fs = {1} /\ fs[1] = g
  BY <1>3, <1>4
<1>6. PICK q : q = stack[h]
  OBVIOUS
<1>7. PICK r : r = stack'[h]
  OBVIOUS
<1>8. GoesOn(q, fs, r) /\ q[1] = f
  BY <1>1, <1>2, <1>4, <1>5, <1>6, <1>7, WentOn
<1>9. r[1] = g /\ \A i \in DOMAIN r : i = 1 \/ (i \in DOMAIN q /\ i > 1 /\ r[i] = q[i])
  <2>1. 1 \in DOMAIN r
    BY <1>5, <1>8 DEF GoesOn
  <2>2. ASSUME NEW i \in DOMAIN r, i # 1 PROVE i \in DOMAIN q /\ i > 1 /\ r[i] = q[i]
    <3>1. i \in 1..Len(q) /\ i > 1 /\ ~(i <= 1) /\ i - 1 + 1 = i
      BY <1>5, <1>8, <2>2 DEF GoesOn
    <3> QED BY <1>5, <1>8, <3>1 DEF GoesOn
  <2> QED BY <1>5, <1>8, <2>1, <2>2 DEF GoesOn
<1>10. Passes(q) /\ q \in Seq(Frames) /\ 1 \in DOMAIN q
  BY <1>6, <1>8 DEF GoesOn
<1>11. Within(f.pass)
  <2>1. Bounded(f)
    BY <1>1, <1>8, <1>10 DEF Passes, Passing, Current, Scanning
  <2> QED BY <1>1, <2>1, FirstPass DEF Bounded
<1>12. /\ Reachable' = Reachable /\ Within(f.pass)' /\ wf' = wf
       /\ \A s \in Steps : status'[s] = "pending" => status[s] = "pending"
  BY <1>2, <1>11, SameRows DEF Within
<1>13. Passing(r)'
  <2>1. (Current(r, 1))'
    BY <1>3, <1>9, <1>12 DEF Current
  <2>2. Passing(q) /\ ~Asks(q[1]) /\ q[1].op # "fire"
    BY <1>1, <1>8, <1>10 DEF Passes, Asks
  <2> QED BY <1>9, <1>10, <1>12, <2>1, <2>2, PassingStays
<1>14. Asking(r)'
  <2>1. ~Asks(r[1])
    BY <1>3, <1>9 DEF Asks
  <2> QED BY <2>1 DEF Asking
<1>15. Kind(f) = "work" /\ f.op # "activate" /\ f.op \in Recons
  BY <1>1, ReconKinds DEF Recons
<1>16. Reconciles(fs) /\ fs # <<>>
  <2>1. 1 \in DOMAIN fs /\ fs[1].op \in Recons
    BY <1>3, <1>5 DEF Recons
  <2> QED BY <1>5, <2>1 DEF Reconciles
<1>17. (\A i \in DOMAIN fs : fs[i].op # "create") /\ (\A i, j \in DOMAIN fs : i < j => fs[i].op \notin Recons)
  BY <1>3, <1>5
<1> QED BY <1>1, <1>2, <1>4, <1>5, <1>7, <1>13, <1>14, <1>15, <1>16, <1>17, ReadStep

\* The joins of a pass, one after the other.
LEMMA NextJoinStep ==
    ASSUME Shape, Calls, Shape', Rejected, FirstOpened, Clean, NEW h \in Handlers, Passes(stack[h]), NextJoin(h)
    PROVE  Rejected' /\ FirstOpened' /\ Clean' /\ Creating(h)' /\ Passes(stack[h])'
<1> PICK f : f = Top(h)
  OBVIOUS
<1>1. /\ ~Idle(h) /\ f \in Frames /\ f.op = "joins" /\ f.pass \in Nat
      /\ f.changed \in BOOLEAN /\ f.left \subseteq Joins
  BY TopIs, StackTyped, FrameFields DEF NextJoin
<1>2. UNCHANGED <<wf, status, decision>>
  BY DEF NextJoin, rows
<1>3. Kind(f) = "work" /\ f.op # "activate" /\ f.op \in Recons
  BY <1>1, ReconKinds DEF Recons
<1>4. PICK q : q = stack[h]
  OBVIOUS
<1>5. PICK r : r = stack'[h]
  OBVIOUS
<1>6. q \in Seq(Frames) /\ q[1] = f /\ 1 \in DOMAIN q /\ Passes(q)
  <2>1. stack[h] \in Seq(Frames) /\ stack[h] # <<>> /\ Top(h) = stack[h][1]
    BY <1>1, StackTyped
  <2>2. 1 \in DOMAIN q
    BY <1>4, <2>1
  <2> QED BY <1>4, <2>1, <2>2
<1>7. Bounded(f) \/ Scanning(f, {})
  BY <1>1, <1>6 DEF Passes, Passing, Current
<1>8. wf' = wf /\ (\A s \in Steps : status'[s] = "pending" => status[s] = "pending")
      /\ Passing(q) /\ ~Asks(q[1]) /\ q[1].op # "fire"
  BY <1>1, <1>2, <1>6 DEF Passes, Asks
<1>9. CASE f.left = {}
  <2>1. PICK fs : fs = IF f.changed THEN ReconcileInstance(f.pass + 1) ELSE <<>>
    OBVIOUS
  <2> DEFINE gg == [op |-> "reach", pass |-> f.pass + 1]
  <2> PICK g : g = gg
    OBVIOUS
  <2>2. Continue(h, fs)
    BY <1>9, <2>1 DEF NextJoin
  <2>3. g \in Frames /\ g.op = "reach" /\ g.pass = f.pass + 1
    BY <1>1 DEF Frames
  <2>4. fs = <<>> \/ (fs = <<g>> /\ f.changed)
    BY <2>1 DEF ReconcileInstance
  <2> HIDE DEF gg
  <2>5. fs \in Seq(Frames) /\ Len(fs) <= 1 /\ Len(fs) \in Nat /\ DOMAIN fs = 1..Len(fs) /\ \A i \in DOMAIN fs : fs[i] = g /\ f.changed
    <3>1. CASE fs = <<>>
      BY <3>1
    <3>2. CASE fs = <<g>> /\ f.changed
      <4>1. Len(fs) = 1 /\ fs \in Seq(Frames) /\ fs[1] = g /\ DOMAIN fs = {1}
        BY <2>3, <3>2
      <4> QED BY <3>2, <4>1
    <3> QED BY <2>4, <3>1, <3>2
  <2>6. GoesOn(q, fs, r)
    BY <1>1, <1>4, <1>5, <2>2, <2>5, WentOn
  <2>7. ASSUME NEW i \in DOMAIN r PROVE (r[i] = g /\ f.changed) \/ \E k \in DOMAIN q : k > 1 /\ r[i] = q[k]
    <3>1. CASE i <= Len(fs)
      BY <2>5, <2>6, <3>1 DEF GoesOn
    <3>2. CASE ~(i <= Len(fs))
      <4>1. i - Len(fs) + 1 \in DOMAIN q /\ i - Len(fs) + 1 > 1 /\ r[i] = q[i - Len(fs) + 1]
        BY <2>6, <3>2 DEF GoesOn
      <4> QED BY <4>1
    <3> QED BY <3>1, <3>2
  <2>8. f.changed => Within(f.pass + 1)
    BY <1>1, <1>7 DEF Bounded, Scanning
  <2>9. f.changed => Bounded(g)'
    <3>1. Left' = Left
      BY <1>2, SameRows
    <3> QED BY <1>2, <2>3, <2>8, <3>1 DEF Bounded, Within
  <2>10. Passing(r)'
    <3>1. \A i \in DOMAIN r : Bounded(r[i])' \/ \E k \in DOMAIN q : k > 1 /\ r[i] = q[k]
      BY <2>7, <2>9
    <3> QED BY <1>6, <1>8, <3>1, PassingStays
  <2>11. \A i \in DOMAIN r : ~Asks(r[i])
    <3>1. \A k \in DOMAIN q : k > 1 => ~Asks(q[k])
      BY <2>6 DEF GoesOn, Orderly, Asks
    <3> QED BY <2>3, <2>7, <3>1 DEF Asks
  <2>12. Asking(r)'
    <3>1. r # <<>> => 1 \in DOMAIN r
      BY <2>6 DEF GoesOn
    <3> QED BY <2>11, <3>1, AskingElse
  <2>13. ASSUME HasRouting, fs = <<>> PROVE Settled
    <3>1. ~f.changed
      <4>1. ASSUME f.changed PROVE FALSE
        <5>1. ~(f.pass + 1 <= Len(wf.type))
          BY <2>1, <2>13, <4>1 DEF ReconcileInstance
        <5>2. Left \in Nat /\ Len(wf.type) \in Nat /\ Left <= Len(wf.type) - (f.pass + 1)
          BY <2>8, <4>1, LeftTyped, WfTyped DEF Within
        <5> QED BY <1>1, <5>1, <5>2
      <4> QED BY <4>1
    <3> QED BY <1>1, <1>7, <1>9, <3>1 DEF Bounded, Scanning, Settled
  <2>14. fs = <<>> \/ Reconciles(fs)
    <3>1. CASE fs = <<g>>
      <4>1. 1 \in DOMAIN fs /\ fs[1] = g
        BY <3>1
      <4> QED BY <2>3, <4>1 DEF Reconciles, Recons
    <3> QED BY <2>4, <3>1
  <2>15. (\A i \in DOMAIN fs : fs[i].op # "create") /\ (\A i, j \in DOMAIN fs : i < j => fs[i].op \notin Recons)
    <3>1. \A i, j \in DOMAIN fs : ~(i < j)
      BY <2>5
    <3> QED BY <2>3, <2>5, <3>1
  <2> QED BY <1>1, <1>2, <1>3, <1>5, <2>2, <2>5, <2>10, <2>12, <2>13, <2>14, <2>15, ReadStep
<1>10. CASE f.left # {} /\ status[First(f.left)] # "pending"
  <2> DEFINE gg == [f EXCEPT !.left = Rest(@)]
  <2> PICK g : g = gg
    OBVIOUS
  <2>1. Continue(h, <<>> \o <<g>>)
    BY <1>10 DEF NextJoin
  <2>2. g \in Frames /\ g.op = "joins" /\ g.left = Rest(f.left) /\ g.changed = f.changed /\ g.pass = f.pass
    <3>1. g.pass = f.pass
      BY <1>1 DEF Frames
    <3> QED BY <1>1, <3>1, FrameRest
  <2> HIDE DEF gg
  <2>3. PICK fs : fs = <<g>>
    OBVIOUS
  <2>4. fs \in Seq(Frames) /\ Len(fs) = 1 /\ DOMAIN fs = {1} /\ fs[1] = g /\ <<>> \o <<g>> = fs
    BY <2>2, <2>3
  <2>5. GoesOn(q, fs, r)
    BY <1>1, <1>4, <1>5, <2>1, <2>4, WentOn
  <2>6. 1 \in DOMAIN r /\ r[1] = g /\ \A i \in DOMAIN r : i = 1 \/ \E k \in DOMAIN q : k > 1 /\ r[i] = q[k]
    <3>1. 1 \in DOMAIN r
      BY <2>4, <2>5 DEF GoesOn
    <3>2. ASSUME NEW i \in DOMAIN r, i # 1 PROVE i \in DOMAIN q /\ i > 1 /\ r[i] = q[i]
      <4>1. i \in 1..Len(q) /\ i > 1 /\ ~(i <= 1) /\ i - 1 + 1 = i
        BY <2>4, <2>5, <3>2 DEF GoesOn
      <4> QED BY <2>4, <2>5, <4>1 DEF GoesOn
    <3>3. r[1] = g
      <4>1. 1 <= Len(fs)
        BY <2>4
      <4> QED BY <2>4, <2>5, <3>1, <4>1 DEF GoesOn
    <3> QED BY <3>1, <3>2, <3>3
  <2>7. (Bounded(g) \/ Scanning(g, {}))'
    <3>1. CASE Bounded(f)
      <4>1. Bounded(g)
        BY <1>1, <2>2, <3>1 DEF Bounded
      <4> QED BY <1>2, <4>1, SameBounded
    <3>2. CASE Scanning(f, {})
      <4>1. First(f.left) \notin Waiting
        BY <1>10 DEF Waiting
      <4>2. Scanning(g, {})
        BY <1>1, <2>2, <3>2, <4>1 DEF Scanning, Rest
      <4> QED BY <1>2, <4>2, SameScan
    <3> QED BY <1>7, <3>1, <3>2
  <2>8. Passing(r)'
    <3>1. (Bounded(r[1]) \/ Current(r, 1))'
      BY <2>6, <2>7 DEF Current
    <3> QED BY <1>6, <1>8, <2>6, <3>1, PassingStays
  <2>9. Asking(r)'
    <3>1. ~Asks(r[1])
      BY <2>2, <2>6 DEF Asks
    <3> QED BY <3>1 DEF Asking
  <2>10. Reconciles(fs) /\ fs # <<>>
    <3>1. 1 \in DOMAIN fs /\ fs[1].op \in Recons
      BY <2>2, <2>4 DEF Recons
    <3> QED BY <2>4, <3>1 DEF Reconciles
  <2>11. (\A i \in DOMAIN fs : fs[i].op # "create") /\ (\A i, j \in DOMAIN fs : i < j => fs[i].op \notin Recons)
    BY <2>2, <2>4
  <2> QED BY <1>1, <1>2, <1>3, <1>5, <2>1, <2>4, <2>8, <2>9, <2>10, <2>11, ReadStep
<1>11. CASE f.left # {} /\ status[First(f.left)] = "pending"
  <2> PICK j : j = First(f.left)
    OBVIOUS
  <2> DEFINE aa == [op |-> "preds", join |-> j, left |-> Predecessors(j), then |-> "any"]
             gg == [f EXCEPT !.left = Rest(@)]
  <2> PICK a, g : a = aa /\ g = gg
    OBVIOUS
  <2>1. Continue(h, <<a>> \o <<g>>)
    BY <1>11 DEF NextJoin, ReadPredecessors
  <2>2. g \in Frames /\ g.op = "joins" /\ g.left = Rest(f.left) /\ g.changed = f.changed /\ g.pass = f.pass
    <3>1. g.pass = f.pass
      BY <1>1 DEF Frames
    <3> QED BY <1>1, <3>1, FrameRest
  <2>3. j \in f.left /\ j \in Joins /\ j \in Steps
    <3>1. f.left \in SUBSET Nat
      BY <1>1, WfTyped DEF Joins
    <3>2. j \in f.left
      BY <1>11, <3>1, FirstIn
    <3> QED BY <1>1, <3>2 DEF Joins
  <2>4. a \in Frames /\ a.op = "preds" /\ a.then = "any" /\ a.join = j /\ a.left = Predecessors(j) /\ Asks(a)
    BY <2>3, AskFrame DEF Asks
  <2> HIDE DEF gg, aa
  <2>5. PICK fs : fs = <<a>> \o <<g>>
    OBVIOUS
  <2>6. fs \in Seq(Frames) /\ Len(fs) = 2 /\ DOMAIN fs = {1, 2} /\ fs[1] = a /\ fs[2] = g
    BY <2>2, <2>4, <2>5
  <2>7. GoesOn(q, fs, r)
    BY <1>1, <1>4, <1>5, <2>1, <2>5, <2>6, WentOn
  <2>8. 1 \in DOMAIN r /\ r[1] = a /\ 2 \in DOMAIN r /\ r[2] = g
        /\ \A i \in DOMAIN r : i = 1 \/ i = 2 \/ \E k \in DOMAIN q : k > 1 /\ r[i] = q[k]
    <3>1. 1 \in DOMAIN r /\ 2 \in DOMAIN r
      BY <2>6, <2>7 DEF GoesOn
    <3>2. ASSUME NEW i \in DOMAIN r, i # 1, i # 2 PROVE i - 1 \in DOMAIN q /\ i - 1 > 1 /\ r[i] = q[i - 1]
      <4>1. i - 1 \in 1..Len(q) /\ i - 1 > 1 /\ ~(i <= 2) /\ i - 2 + 1 = i - 1
        BY <2>6, <2>7, <3>2 DEF GoesOn
      <4> QED BY <2>6, <2>7, <4>1 DEF GoesOn
    <3>3. r[1] = a /\ r[2] = g
      <4>1. 1 <= Len(fs) /\ 2 <= Len(fs)
        BY <2>6
      <4> QED BY <2>6, <2>7, <3>1, <4>1 DEF GoesOn
    <3> QED BY <3>1, <3>2, <3>3
  <2>9. (Bounded(g) \/ Scanning(g, {j}))'
    <3>1. CASE Bounded(f)
      <4>1. Bounded(g)
        BY <1>1, <2>2, <3>1 DEF Bounded
      <4> QED BY <1>2, <4>1, SameBounded
    <3>2. CASE Scanning(f, {})
      <4>1. Scanning(g, {j})
        BY <1>1, <2>2, <3>2 DEF Scanning, Rest
      <4> QED BY <1>2, <4>1, SameScan
    <3> QED BY <1>7, <3>1, <3>2
  <2>10. Passing(r)'
    <3>1. (Bounded(r[2]) \/ Current(r, 2))'
      BY <2>4, <2>8, <2>9 DEF Current
    <3>2. Bounded(r[1])'
      BY <2>4, <2>8 DEF Bounded
    <3> QED BY <1>6, <1>8, <2>8, <3>1, <3>2, PassingStays
  <2>11. Asking(r)'
    <3>1. status'[j] = "pending" /\ Predecessors(j)' = Predecessors(j)
      BY <1>2, <1>11, <2>3, SameRows
    <3> QED BY <2>4, <2>8, <3>1 DEF Asking
  <2>12. Reconciles(fs) /\ fs # <<>>
    <3>1. 2 \in DOMAIN fs /\ fs[2].op \in Recons
      BY <2>2, <2>6 DEF Recons
    <3> QED BY <2>6, <3>1 DEF Reconciles
  <2>13. (\A i \in DOMAIN fs : fs[i].op # "create") /\ (\A i, k \in DOMAIN fs : i < k => fs[i].op \notin Recons)
    BY <2>2, <2>4, <2>6 DEF Recons
  <2> QED BY <1>1, <1>2, <1>3, <1>5, <2>1, <2>5, <2>6, <2>10, <2>11, <2>12, <2>13, ReadStep
<1> QED BY <1>9, <1>10, <1>11

\* The join that the top frame asks about goes on being asked about.
LEMMA AskedOn ==
    ASSUME Shape, UNCHANGED <<wf, status, decision>>, NEW q, NEW fs, NEW r, GoesOn(q, fs, r), Passing(q),
           Asks(q[1]), NEW g, fs = <<g>>, Asks(g), g.join = q[1].join
    PROVE  Passing(r)'
<1>1. Len(fs) = 1 /\ fs[1] = g
  OBVIOUS
<1>2. r[1] = g /\ DOMAIN r = DOMAIN q /\ \A i \in DOMAIN r : i # 1 => r[i] = q[i]
  <2>1. DOMAIN r = DOMAIN q /\ 1 \in DOMAIN r /\ DOMAIN r \subseteq Nat \ {0}
    BY <1>1 DEF GoesOn
  <2>2. ASSUME NEW i \in DOMAIN r, i # 1 PROVE r[i] = q[i]
    <3>1. ~(i <= 1) /\ i - 1 + 1 = i
      BY <2>1, <2>2
    <3> QED BY <1>1, <3>1 DEF GoesOn
  <2>3. r[1] = g
    BY <1>1, <2>1 DEF GoesOn
  <2> QED BY <2>1, <2>2, <2>3
<1>3. ASSUME NEW i \in DOMAIN r PROVE (Bounded(r[i]) \/ Current(r, i))'
  <2>1. CASE i = 1
    <3>1. Bounded(g)'
      BY DEF Bounded, Asks
    <3> QED BY <1>2, <2>1, <3>1
  <2>2. CASE i = 2
    <3>1. Bounded(q[2]) \/ Scanning(q[2], {q[1].join})
      BY <1>2, <1>3, <2>2 DEF Passing, Current, Asks
    <3>2. CASE Bounded(q[2])
      BY <1>2, <1>3, <2>2, <3>2, SameBounded
    <3>3. CASE Scanning(q[2], {q[1].join})
      <4>1. Scanning(q[2], {q[1].join})'
        BY <3>3, SameScan
      <4> QED BY <1>2, <1>3, <2>2, <4>1 DEF Current
    <3> QED BY <3>1, <3>2, <3>3
  <2>3. CASE i > 2
    <3>1. Bounded(q[i])'
      BY <1>2, <1>3, <2>3, PassingAsked DEF GoesOn
    <3> QED BY <1>2, <2>3, <3>1
  <2>4. i \in Nat \ {0}
    BY <1>2 DEF GoesOn
  <2> QED BY <2>1, <2>2, <2>3, <2>4
<1> QED BY <1>3 DEF Passing

\* The join that the top frame asked about does not fire.
LEMMA AskedOff ==
    ASSUME Shape, UNCHANGED <<wf, status, decision>>, NEW q, NEW r, GoesOn(q, <<>>, r), Passing(q),
           Asks(q[1]), Stuck(q[1].join)
    PROVE  Passing(r)' /\ Asking(r)'
<1>1. ASSUME NEW i \in DOMAIN r PROVE i + 1 \in DOMAIN q /\ r[i] = q[i + 1] /\ i \in Nat \ {0}
  <2>1. Len(<<>>) = 0
    OBVIOUS
  <2>2. i \in 1..(Len(q) - 1) /\ Len(q) \in Nat
    BY <1>1, <2>1 DEF GoesOn
  <2>3. i + 1 \in DOMAIN q /\ i \in Nat \ {0} /\ ~(i <= 0) /\ i - 0 + 1 = i + 1
    BY <2>2 DEF GoesOn
  <2> QED BY <1>1, <2>1, <2>3 DEF GoesOn
<1>2. ASSUME NEW i \in DOMAIN r PROVE (Bounded(r[i]) \/ Current(r, i))'
  <2>1. CASE i = 1
    <3>1. Bounded(q[2]) \/ Scanning(q[2], {q[1].join})
      <4>1. 2 \in DOMAIN q
        BY <1>1, <1>2, <2>1
      <4> QED BY <4>1 DEF Passing, Current, Asks
    <3>2. CASE Bounded(q[2])
      BY <1>1, <1>2, <2>1, <3>2, SameBounded
    <3>3. CASE Scanning(q[2], {q[1].join})
      <4>1. Scanning(q[2], {})
        BY <3>3 DEF Scanning
      <4>2. Scanning(q[2], {})'
        BY <4>1, SameScan
      <4> QED BY <1>1, <1>2, <2>1, <4>2 DEF Current
    <3> QED BY <3>1, <3>2, <3>3
  <2>2. CASE i > 1
    <3>1. i + 1 > 2 /\ i + 1 \in DOMAIN q /\ q \in Seq(Frames)
      BY <1>1, <1>2, <2>2 DEF GoesOn
    <3>2. Bounded(q[i + 1])'
      BY <3>1, PassingAsked
    <3> QED BY <1>1, <1>2, <3>2
  <2> QED BY <1>1, <1>2, <2>1, <2>2
<1>3. \A i \in DOMAIN r : ~Asks(r[i])
  <2>1. ASSUME NEW k \in DOMAIN q, k # 1 PROVE ~Asks(q[k])
    BY <2>1 DEF GoesOn, Orderly, Asks
  <2> QED BY <1>1, <2>1
<1>4. r # <<>> => 1 \in DOMAIN r
  BY DEF GoesOn
<1>5. Asking(r)'
  BY <1>3, <1>4, AskingElse
<1> QED BY <1>2, <1>5 DEF Passing

\* What a frame that asks about a join knows.
LEMMA AskTop ==
    ASSUME Shape, Calls, NEW h \in Handlers, ~Idle(h), Asks(Top(h)), Passes(stack[h]), NEW f, f = Top(h)
    PROVE  /\ f \in Frames /\ f.op \in {"preds", "any"} /\ f.join \in Joins /\ f.join \in Steps
           /\ f.left \subseteq Predecessors(f.join) /\ f.left \in SUBSET Nat /\ status[f.join] = "pending"
           /\ f.op = "any" => \A p \in Predecessors(f.join) \ f.left : status[p] # "completed"
           /\ f.op = "preds" => f.then = "any"
           /\ Kind(f) = "work" /\ f.op # "activate" /\ f.op \notin Recons
<1>1. stack[h] # <<>> /\ f = stack[h][1] /\ f \in Frames
  BY StackTyped
<1>2. f.op \in {"preds", "any"} /\ (f.op = "preds" => f.then = "any")
  BY DEF Asks
<1>3. f.join \in Joins /\ f.left \subseteq Steps
  BY <1>1, <1>2, FrameFields
<1>4. f.join \in Steps /\ f.left \in SUBSET Nat
  BY <1>3, WfTyped DEF Joins
<1>5. Kind(f) = "work" /\ f.op # "activate" /\ f.op \notin Recons
  BY <1>2, ReconKinds DEF Recons
<1> QED BY <1>1, <1>2, <1>3, <1>4, <1>5 DEF Passes, Asking

LEMMA AskGoesOn ==
    ASSUME Shape, Calls, Shape', UNCHANGED <<wf, status, decision>>, Rejected, FirstOpened, Clean,
           NEW h \in Handlers, ~Idle(h), Asks(Top(h)), Passes(stack[h]),
           NEW g \in Frames, Asks(g), g.join = Top(h).join, Continue(h, <<g>>),
           g.left \subseteq Predecessors(g.join),
           g.op = "any" => \A p \in Predecessors(g.join) \ g.left : status[p] # "completed"
    PROVE  Rejected' /\ FirstOpened' /\ Clean' /\ Creating(h)' /\ Passes(stack[h])'
<1>1. PICK f : f = Top(h)
  OBVIOUS
<1>2. /\ f.join \in Steps /\ status[f.join] = "pending" /\ Kind(f) = "work" /\ f.op # "activate" /\ f.op \notin Recons
  BY <1>1, AskTop
<1>3. PICK fs : fs = <<g>>
  OBVIOUS
<1>4. fs \in Seq(Frames) /\ Len(fs) = 1 /\ DOMAIN fs = {1} /\ fs[1] = g /\ g.op \in {"preds", "any"}
  BY <1>3 DEF Asks
<1>5. PICK q : q = stack[h]
  OBVIOUS
<1>6. PICK r : r = stack'[h]
  OBVIOUS
<1>7. GoesOn(q, fs, r) /\ q[1] = Top(h)
  BY <1>3, <1>4, <1>5, <1>6, WentOn
<1>8. Passing(r)'
  BY <1>3, <1>5, <1>7, AskedOn DEF Passes
<1>9. r[1] = g
  <2>1. 1 \in DOMAIN r /\ 1 <= Len(fs)
    BY <1>4, <1>7 DEF GoesOn
  <2> QED BY <1>4, <1>7, <2>1 DEF GoesOn
<1>10. Asking(r)'
  <2>1. Predecessors(f.join)' = Predecessors(f.join)
    BY <1>2, SameRows
  <2>2. g.join = f.join
    BY <1>1
  <2>3. Predecessors(g.join)' = Predecessors(g.join)
    BY <2>1, <2>2
  <2> QED BY <1>2, <1>9, <2>2, <2>3 DEF Asking
<1>11. ~Reconciles(fs) /\ \A i \in DOMAIN fs : fs[i].op \notin Recons \cup {"create"}
  BY <1>4 DEF Reconciles, Recons
<1> QED BY <1>1, <1>2, <1>3, <1>4, <1>6, <1>8, <1>10, <1>11, ReadStep

LEMMA AskEnds ==
    ASSUME Shape, Calls, Shape', UNCHANGED <<wf, status, decision>>, Rejected, FirstOpened, Clean,
           NEW h \in Handlers, ~Idle(h), Asks(Top(h)), Passes(stack[h]), Continue(h, <<>>), Stuck(Top(h).join)
    PROVE  Rejected' /\ FirstOpened' /\ Clean' /\ Creating(h)' /\ Passes(stack[h])'
<1>1. Kind(Top(h)) = "work" /\ Top(h).op # "activate" /\ Top(h).op \notin Recons
  BY AskTop
<1>2. <<>> \in Seq(Frames) /\ DOMAIN <<>> = {} /\ ~Reconciles(<<>>)
  BY DEF Reconciles
<1>3. PICK q : q = stack[h]
  OBVIOUS
<1>4. PICK r : r = stack'[h]
  OBVIOUS
<1>5. GoesOn(q, <<>>, r) /\ q[1] = Top(h)
  BY <1>2, <1>3, <1>4, WentOn
<1>6. Passing(q) /\ Asks(q[1]) /\ Stuck(q[1].join)
  BY <1>3, <1>5 DEF Passes
<1>7. Passing(r)' /\ Asking(r)'
  BY <1>5, <1>6, AskedOff
<1> QED BY <1>1, <1>2, <1>4, <1>7, ReadStep

\* A join of the pass is looked at: are its predecessors resolved?
LEMMA PredsStep ==
    ASSUME Shape, Calls, Shape', Rejected, FirstOpened, Clean, NEW h \in Handlers, Passes(stack[h]),
           ReadPredecessor(h), Asks(Top(h))
    PROVE  Rejected' /\ FirstOpened' /\ Clean' /\ Creating(h)' /\ Passes(stack[h])'
<1> PICK f : f = Top(h)
  OBVIOUS
<1>1. ~Idle(h) /\ f.op = "preds" /\ UNCHANGED <<wf, status, decision>>
  BY TopIs DEF ReadPredecessor, rows
<1>2. /\ f \in Frames /\ f.join \in Joins /\ f.left \subseteq Predecessors(f.join) /\ f.left \in SUBSET Nat
      /\ f.then = "any"
  BY <1>1, AskTop
<1>3. CASE f.left = {}
  <2> DEFINE gg == [op |-> "any", join |-> f.join, left |-> Predecessors(f.join)]
  <2> PICK g : g = gg
    OBVIOUS
  <2>1. g \in Frames /\ g.op = "any" /\ g.join = f.join /\ g.left = Predecessors(f.join)
    BY <1>2, AskFrame
  <2>2. Continue(h, <<g>>)
    BY <1>2, <1>3 DEF ReadPredecessor
  <2> HIDE DEF gg
  <2>3. g.left \subseteq Predecessors(g.join) /\ Predecessors(g.join) \ g.left = {}
    BY <2>1
  <2> QED BY <1>1, <2>1, <2>2, <2>3, AskGoesOn DEF Asks
<1>4. CASE f.left # {} /\ PredecessorDone(First(f.left))
  <2> DEFINE gg == [f EXCEPT !.left = Rest(@)]
  <2> PICK g : g = gg
    OBVIOUS
  <2>1. g \in Frames /\ g.op = "preds" /\ g.join = f.join /\ g.left = Rest(f.left) /\ g.then = "any"
    BY <1>1, <1>2, FrameRest
  <2>2. Continue(h, <<g>>)
    BY <1>4 DEF ReadPredecessor
  <2> HIDE DEF gg
  <2>3. g.left \subseteq Predecessors(g.join)
    BY <1>2, <2>1 DEF Rest
  <2> QED BY <1>1, <2>1, <2>2, <2>3, AskGoesOn DEF Asks
<1>5. CASE f.left # {} /\ ~PredecessorDone(First(f.left))
  <2>1. Continue(h, <<>>)
    BY <1>5 DEF ReadPredecessor
  <2>2. First(f.left) \in Predecessors(f.join)
    BY <1>2, <1>5, FirstIn
  <2>3. Stuck(f.join)
    BY <1>5, <2>2 DEF Stuck, PredecessorDone
  <2> QED BY <1>1, <2>1, <2>3, AskEnds
<1> QED BY <1>3, <1>4, <1>5

\* A predecessor has completed: the join is to fire, and the pass has changed
\* something.
LEMMA FiresStep ==
    ASSUME Shape, Calls, Shape', Rejected, FirstOpened, Clean, NEW h \in Handlers, Passes(stack[h]),
           ReadCompleted(h), NEW f, f = Top(h), f.left # {}, status[First(f.left)] = "completed"
    PROVE  Rejected' /\ FirstOpened' /\ Clean' /\ Creating(h)' /\ Passes(stack[h])'
<1>1. ~Idle(h) /\ f.op = "any" /\ At(h, "any") /\ UNCHANGED <<wf, status, decision>>
  BY TopIs DEF ReadCompleted, rows
<1>2. Asks(Top(h))
  BY <1>1 DEF Asks
<1>3. f \in Frames /\ f.join \in Joins /\ f.join \in Steps /\ status[f.join] = "pending"
  BY <1>1, <1>2, AskTop
<1>4. Rejected' /\ FirstOpened' /\ Clean'
  BY <1>1, ReadRows
<1>q. PICK q : q = stack[h]
  OBVIOUS
<1>a. PICK a : a = [op |-> "fire", join |-> f.join, left |-> {}]
  OBVIOUS
<1>b. PICK b : b = [q[2] EXCEPT !.changed = TRUE]
  OBVIOUS
<1>r. PICK r : r = <<a>> \o <<b>> \o Tail(Tail(q))
  OBVIOUS
<1>5. /\ r \in Seq(Frames) /\ Orderly(r) /\ Len(r) = Len(q) /\ Len(r) \in Nat
      /\ r[1] = a /\ r[2] = b /\ b.op = "joins" /\ q[2].op = "joins"
      /\ \A i \in 3..Len(r) : r[i] = q[i]
  <2> DEFINE aa == [op |-> "fire", join |-> f.join, left |-> {}]
             bb == [stack[h][2] EXCEPT !.changed = TRUE]
             rr == <<aa>> \o <<bb>> \o Tail(Tail(stack[h]))
  <2>1. /\ rr \in Seq(Frames) /\ Orderly(rr) /\ Len(rr) = Len(stack[h]) /\ Len(rr) \in Nat
        /\ rr[1] = aa /\ rr[2] = bb /\ rr[2].op = "joins" /\ stack[h][2].op = "joins"
        /\ \A i \in 3..Len(rr) : rr[i] = stack[h][i]
    BY <1>1, <1>3, CompletedStack
  <2>2. rr = r /\ aa = a /\ bb = b
    BY <1>q, <1>a, <1>b, <1>r
  <2> HIDE DEF aa, bb, rr
  <2> QED BY <1>q, <2>1, <2>2
<1>6. stack' = [stack EXCEPT ![h] = r] /\ stack'[h] = r
  <2>1. stack' = [stack EXCEPT ![h] = r]
    BY <1>1, <1>q, <1>a, <1>b, <1>r DEF ReadCompleted
  <2> QED BY <2>1 DEF Shape
<1>7. /\ q \in Seq(Frames) /\ q # <<>> /\ Orderly(q) /\ q[1] = f /\ Passes(q)
      /\ DOMAIN q = 1..Len(q) /\ DOMAIN r = 1..Len(r) /\ 1 \in DOMAIN q /\ 2 \in DOMAIN q
  <2>1. q \in Seq(Frames) /\ q # <<>> /\ Orderly(q) /\ q[1] = f
    BY <1>1, <1>q, StackTyped
  <2>2. DOMAIN q = 1..Len(q) /\ 1 \in DOMAIN q
    BY <2>1
  <2>3. 2 \in DOMAIN q
    BY <1>2, <2>1, <2>2 DEF Orderly
  <2> QED BY <1>5, <1>q, <2>1, <2>2, <2>3
<1>8. q[2] \in Frames /\ q[2].changed \in BOOLEAN /\ q[2].pass \in Nat /\ b.changed = TRUE /\ b.pass = q[2].pass
  <2>1. q[2] \in Frames
    BY <1>7
  <2>2. q[2].changed \in BOOLEAN /\ q[2].pass \in Nat
    BY <1>5, <2>1, FrameFields
  <2>3. b.changed = TRUE /\ b.pass = q[2].pass
    BY <1>5, <1>b, <2>1 DEF Frames
  <2> QED BY <2>1, <2>2, <2>3
<1>9. a.op = "fire" /\ a.join = f.join
  BY <1>a
<1>10. ASSUME NEW i \in DOMAIN r PROVE i = 1 \/ i = 2 \/ (i > 2 /\ i \in DOMAIN q /\ r[i] = q[i])
  BY <1>5, <1>7, <1>10
<1>11. Carried(r)'
  <2>1. ASSUME NEW k \in DOMAIN q, q[k].op = "activate"
        PROVE  \E i \in DOMAIN r : r[i].op = "activate" /\ r[i].to = q[k].to
    <3>1. k # 1 /\ k # 2
      BY <1>1, <1>5, <1>7, <2>1
    <3>2. k \in 3..Len(r) /\ k \in DOMAIN r
      BY <1>5, <1>7, <2>1, <3>1
    <3> QED BY <1>5, <2>1, <3>2
  <2> QED BY <1>1, <1>7, <2>1, ReadCarried DEF Passes
<1>12. Passing(r)'
  <2>1. Bounded(a)'
    BY <1>9 DEF Bounded
  <2>2. Bounded(b)' \/ Current(r, 2)'
    <3>1. Bounded(q[2]) \/ Scanning(q[2], {q[1].join})
      <4>1. Passing(q) /\ 2 \in DOMAIN q /\ q[1].op # "fire"
        BY <1>1, <1>7 DEF Passes
      <4> QED BY <4>1 DEF Passing, Current
    <3>2. Left' = Left /\ wf' = wf
      BY <1>1, SameRows
    <3>3. CASE Bounded(q[2])
      <4>1. Within(b.pass + 1)
        BY <1>5, <1>8, <3>3 DEF Bounded
      <4> QED BY <1>5, <1>8, <3>2, <4>1 DEF Bounded, Within
    <3>4. CASE Scanning(q[2], {q[1].join})
      <4>1. Within(b.pass)
        BY <1>8, <3>4 DEF Scanning
      <4>2. status'[a.join] = "pending"
        BY <1>1, <1>3, <1>9
      <4> QED BY <1>5, <1>8, <1>9, <3>2, <4>1, <4>2 DEF Current, Within
    <3> QED BY <3>1, <3>3, <3>4
  <2>3. ASSUME NEW i \in DOMAIN q, i > 2 PROVE Bounded(q[i])'
    BY <1>1, <1>7, <2>3, PassingAsked DEF Passes
  <2>4. ASSUME NEW i \in DOMAIN r PROVE (Bounded(r[i]) \/ Current(r, i))'
    BY <1>5, <1>10, <2>1, <2>2, <2>3, <2>4
  <2> QED BY <2>4 DEF Passing
<1>13. Asking(r)'
  BY <1>5, <1>9 DEF Asking, Asks
<1>14. ReconsLast(r)
  <2>1. ASSUME NEW i \in DOMAIN r, NEW j \in DOMAIN r, i < j, r[i].op \in Recons PROVE Kind(r[j]) # "work"
    <3>1. i # 1
      BY <1>5, <1>9, <2>1 DEF Recons
    <3>2. i \in DOMAIN q /\ j \in DOMAIN q /\ r[j] = q[j] /\ q[i].op \in Recons
      <4>1. i >= 2 /\ j > 2
        BY <1>7, <2>1, <3>1
      <4> QED BY <1>5, <1>7, <1>10, <2>1, <4>1 DEF Recons
    <3> QED BY <1>7, <2>1, <3>2 DEF Passes, ReconsLast
  <2> QED BY <2>1 DEF ReconsLast
<1>15. Reconciles(r)
  <2>1. 2 \in DOMAIN r /\ r[2].op \in Recons
    BY <1>5, <1>7 DEF Recons
  <2> QED BY <2>1 DEF Reconciles
<1>16. Passes(r)'
  BY <1>11, <1>12, <1>13, <1>14, <1>15 DEF Passes, ReconsAll
<1>17. Creating(h)'
  <2>1. \A i \in DOMAIN r : r[i].op # "create"
    BY <1>5, <1>7, <1>9 DEF Orderly
  <2> QED BY <1>6, <2>1, NoCreate
<1> QED BY <1>4, <1>6, <1>16, <1>17

\* Has any of its predecessors completed?
LEMMA AnyStep ==
    ASSUME Shape, Calls, Shape', Rejected, FirstOpened, Clean, NEW h \in Handlers, Passes(stack[h]), ReadCompleted(h)
    PROVE  Rejected' /\ FirstOpened' /\ Clean' /\ Creating(h)' /\ Passes(stack[h])'
<1> PICK f : f = Top(h)
  OBVIOUS
<1>1. ~Idle(h) /\ f.op = "any" /\ UNCHANGED <<wf, status, decision>> /\ Asks(Top(h))
  BY TopIs DEF ReadCompleted, rows, Asks
<1>2. /\ f \in Frames /\ f.join \in Joins /\ f.left \subseteq Predecessors(f.join) /\ f.left \in SUBSET Nat
      /\ \A p \in Predecessors(f.join) \ f.left : status[p] # "completed"
  BY <1>1, AskTop
<1>3. CASE f.left = {}
  <2>1. Continue(h, <<>>)
    BY <1>3 DEF ReadCompleted
  <2>2. Stuck(f.join)
    BY <1>2, <1>3 DEF Stuck
  <2> QED BY <1>1, <2>1, <2>2, AskEnds
<1>4. CASE f.left # {} /\ status[First(f.left)] = "completed"
  BY <1>4, FiresStep
<1>5. CASE f.left # {} /\ status[First(f.left)] # "completed"
  <2> DEFINE gg == [f EXCEPT !.left = Rest(@)]
  <2> PICK g : g = gg
    OBVIOUS
  <2>1. g \in Frames /\ g.op = "any" /\ g.join = f.join /\ g.left = Rest(f.left)
    BY <1>1, <1>2, FrameRest
  <2>2. Continue(h, <<g>>)
    BY <1>5 DEF ReadCompleted
  <2> HIDE DEF gg
  <2>3. g.left \subseteq Predecessors(g.join) /\ \A p \in Predecessors(g.join) \ g.left : status[p] # "completed"
    BY <1>2, <1>5, <2>1 DEF Rest
  <2> QED BY <1>1, <2>1, <2>2, <2>3, AskGoesOn DEF Asks
<1> QED BY <1>3, <1>4, <1>5

\* What nothing can visit any more is skipped.
LEMMA SweepRows ==
    ASSUME Shape, Shape', Rejected, FirstOpened, Clean, UNCHANGED <<wf, decision>>,
           status' = [s \in Steps |-> IF s \in Waiting \ Reachable THEN "skipped" ELSE status[s]]
    PROVE  /\ Rejected' /\ FirstOpened' /\ Clean'
           /\ \A s \in Steps : status'[s] = "pending" => status[s] = "pending"
           /\ \A s \in Steps : status'[s] \in Finished => status[s] \in Finished
<1>1. /\ Steps' = Steps /\ 1 \in Steps
      /\ \A s \in Steps : AllTargets(s)' = AllTargets(s) /\ ResolveNext(s, decision[s])' = ResolveNext(s, decision[s])
  BY SameWorkflow, WfTyped, NextPrimed
<1>2. \A s \in Steps : (s \in Waiting \ Reachable /\ status'[s] = "skipped") \/ (s \notin Waiting \ Reachable /\ status'[s] = status[s])
  OBVIOUS
<1>3. Rejected' /\ FirstOpened'
  BY <1>1, <1>2 DEF Rejected, FirstOpened
<1>4. /\ \A s \in Steps : status'[s] = "pending" => status[s] = "pending"
      /\ \A s \in Steps : status'[s] \in Finished => status[s] \in Finished
  BY <1>2 DEF Finished
<1>5. Clean'
  <2>1. ASSUME Waiting' # {}, NEW s \in Steps, status'[s] \in Open \cup Finished, NEW t \in Onto(s)', t \in Passed'
        PROVE  FALSE
    <3>1. status'[s] = status[s] /\ s \notin Waiting \ Reachable
      BY <1>2, <2>1 DEF Open, Finished
    <3>2. Onto(s)' = Onto(s)
      BY <1>1, <3>1 DEF Onto
    <3>3. s \in Reachable
      BY <2>1, <3>1, ReachableIs DEF Open, Finished, Waiting
    <3>4. t \in Reachable
      BY <2>1, <3>2, <3>3, ReachableIs
    <3>5. t \in Passed
      BY <1>1, <1>2, <2>1, <3>4 DEF Passed
    <3>6. Waiting # {}
      BY <1>1, <1>4, <2>1 DEF Waiting
    <3> QED BY <2>1, <3>1, <3>2, <3>5, <3>6 DEF Clean
  <2> QED BY <1>1, <2>1 DEF Clean
<1> QED BY <1>3, <1>4, <1>5

LEMMA SweepStep ==
    ASSUME Shape, Calls, Shape', Rejected, FirstOpened, Clean, NEW h \in Handlers, Passes(stack[h]), Sweep(h)
    PROVE  Rejected' /\ FirstOpened' /\ Clean' /\ Creating(h)' /\ Passes(stack[h])'
<1>f. PICK f : f = Top(h)
  OBVIOUS
<1>q. PICK q : q = stack[h]
  OBVIOUS
<1>r. PICK r : r = stack'[h]
  OBVIOUS
<1>1. ~Idle(h) /\ f \in Frames /\ f.op = "sweep" /\ f.pass \in Nat /\ UNCHANGED <<wf, decision>>
  BY <1>f, TopIs, StackTyped, FrameFields DEF Sweep
<1>2. q \in Seq(Frames) /\ q[1] = f /\ 1 \in DOMAIN q /\ Passes(q)
  <2>1. stack[h] \in Seq(Frames) /\ stack[h] # <<>> /\ Top(h) = stack[h][1]
    BY <1>1, StackTyped
  <2>2. 1 \in DOMAIN q
    BY <1>q, <2>1
  <2> QED BY <1>f, <1>q, <2>1, <2>2
<1>3. f.reach = Reachable /\ Within(f.pass)
  BY <1>1, <1>2 DEF Passes, Passing, Bounded, Current, Scanning
<1>g. PICK g : g = [op |-> "joins", pass |-> f.pass, changed |-> Waiting \ Reachable # {}, left |-> Joins \cap f.reach]
  OBVIOUS
<1>4. /\ status' = [s \in Steps |-> IF s \in Waiting \ Reachable THEN "skipped" ELSE status[s]]
      /\ Continue(h, <<g>>)
  <2>1. {s \in Steps \ Top(h).reach : status[s] = "pending"} = Waiting \ Reachable
    BY <1>3, <1>f DEF Waiting
  <2> QED BY <2>1, <1>f, <1>g DEF Sweep, FireJoins
<1>5. /\ g \in Frames /\ g.op = "joins" /\ g.pass = f.pass /\ g.left = Joins \cap f.reach
      /\ g.changed \in BOOLEAN /\ (g.changed <=> Waiting \ Reachable # {})
  <2>1. (Waiting \ Reachable # {}) \in BOOLEAN
    OBVIOUS
  <2> QED BY <1>1, <1>g, <2>1 DEF Frames
<1>6. /\ Rejected' /\ FirstOpened' /\ Clean' /\ wf' = wf
      /\ \A s \in Steps : status'[s] = "pending" => status[s] = "pending"
      /\ \A s \in Steps : status'[s] \in Finished => status[s] \in Finished
  BY <1>1, <1>4, SweepRows
<1>s. PICK fs : fs = <<g>>
  OBVIOUS
<1>7. fs \in Seq(Frames) /\ Len(fs) = 1 /\ DOMAIN fs = {1} /\ fs[1] = g
  BY <1>5, <1>s
<1>8. GoesOn(q, fs, r)
  BY <1>1, <1>4, <1>7, <1>q, <1>r, <1>s, WentOn
<1>9. 1 \in DOMAIN r /\ r[1] = g /\ \A i \in DOMAIN r : i = 1 \/ (i \in DOMAIN q /\ i > 1 /\ r[i] = q[i])
  <2>1. 1 \in DOMAIN r /\ 1 <= Len(fs)
    BY <1>7, <1>8 DEF GoesOn
  <2>2. ASSUME NEW i \in DOMAIN r, i # 1 PROVE i \in DOMAIN q /\ i > 1 /\ r[i] = q[i]
    <3>1. i \in 1..Len(q) /\ i > 1 /\ ~(i <= 1) /\ i - 1 + 1 = i
      BY <1>7, <1>8, <2>2 DEF GoesOn
    <3> QED BY <1>7, <1>8, <3>1 DEF GoesOn
  <2>3. r[1] = g
    BY <1>7, <1>8, <2>1 DEF GoesOn
  <2> QED BY <2>1, <2>2, <2>3
<1>10. Carried(r)'
  <2>1. ASSUME NEW k \in DOMAIN q, q[k].op = "activate"
        PROVE  \E i \in DOMAIN r : r[i].op = "activate" /\ r[i].to = q[k].to
    <3>1. k > 1
      BY <1>1, <1>2, <1>8, <2>1 DEF GoesOn
    <3> QED BY <1>8, <2>1, <3>1 DEF GoesOn
  <2> QED BY <1>1, <1>2, <1>6, <2>1, CarriedStays DEF Passes
<1>11. Bounded(g)' \/ Scanning(g, {})'
  <2>1. CASE Waiting \ Reachable = {}
    <3>1. status' = status
      BY <1>4, <2>1, ShapeParts
    <3>2. Scanning(g, {})
      BY <1>3, <1>5, <2>1 DEF Scanning
    <3> QED BY <1>1, <3>1, <3>2, SameScan
  <2>2. CASE Waiting \ Reachable # {}
    <3>1. \E s \in Steps : status[s] = "pending" /\ status'[s] # "pending"
      BY <1>4, <2>2 DEF Waiting
    <3>2. Within(f.pass + 1)'
      BY <1>1, <1>3, <1>6, <3>1, WithinFalls DEF Recons
    <3>3. Within(g.pass + 1)'
      BY <1>5, <3>2
    <3> QED BY <1>5, <2>2, <3>3 DEF Bounded
  <2> QED BY <2>1, <2>2
<1>12. Passing(r)'
  <2>1. (Bounded(r[1]) \/ Current(r, 1))'
    BY <1>9, <1>11 DEF Current
  <2>2. Passing(q) /\ ~Asks(q[1]) /\ q[1].op # "fire"
    BY <1>1, <1>2 DEF Passes, Asks
  <2> QED BY <1>2, <1>6, <1>9, <2>1, <2>2, PassingStays
<1>13. Asking(r)'
  BY <1>5, <1>9 DEF Asking, Asks
<1>14. Kind(q[1]) = "work" /\ q[1].op \in Recons
  BY <1>1, <1>2, ReconKinds DEF Recons
<1>15. Reconciles(fs) /\ Reconciles(r)
  <2>1. g.op \in Recons /\ 1 \in DOMAIN fs
    BY <1>5, <1>7 DEF Recons
  <2> QED BY <1>7, <1>9, <2>1 DEF Reconciles
<1>16. ReconsLast(r) /\ ReconsAll(r)'
  <2>1. \A i, j \in DOMAIN fs : i < j => fs[i].op \notin Recons
    BY <1>7
  <2> QED BY <1>2, <1>6, <1>7, <1>8, <1>14, <1>15, <2>1, OrderStays DEF GoesOn, Passes
<1>17. Passes(r)'
  BY <1>10, <1>12, <1>13, <1>15, <1>16 DEF Passes
<1>18. Creating(h)'
  <2>1. \A i \in DOMAIN q : i > 1 => q[i].op # "create"
    BY <1>8 DEF GoesOn, Orderly
  <2>2. g.op # "create"
    BY <1>5
  <2>3. \A i \in DOMAIN r : r[i].op # "create"
    BY <1>9, <2>1, <2>2
  <2> QED BY <1>r, <2>3, NoCreate
<1> QED BY <1>6, <1>17, <1>18, <1>r

\* The reconciliation of a cascade is below the frame that does not belong to it.
LEMMA ReconKept ==
    ASSUME NEW q, NEW fs, NEW r, GoesOn(q, fs, r), Passes(q), HasRouting, Kind(q[1]) = "work", q[1].op \notin Recons
    PROVE  Reconciles(r)
<1>1. Holds(q, "work")
  BY DEF GoesOn, Holds
<1>2. PICK k \in DOMAIN q : q[k].op \in Recons
  BY <1>1 DEF Passes, ReconsAll, Reconciles
<1>3. k > 1
  BY <1>2 DEF GoesOn
<1> QED BY <1>2, <1>3 DEF GoesOn, Reconciles

\* A row is inserted.
LEMMA CreateReach ==
    ASSUME Shape, Calls, Shape', FirstOpened, NEW h \in Handlers, Creating(h), Passes(stack[h]), CreateStep(h)
    PROVE  Rejected' /\ FirstOpened' /\ Clean' /\ Creating(h)' /\ Passes(stack[h])'
<1>f. PICK f : f = Top(h)
  OBVIOUS
<1>q. PICK q : q = stack[h]
  OBVIOUS
<1>r. PICK r : r = stack'[h]
  OBVIOUS
<1>1. /\ ~Idle(h) /\ f \in Frames /\ f.op = "create" /\ f.step \in Steps /\ wf' = wf /\ At(h, "create")
      /\ status' = [status EXCEPT ![f.step] = IF f.step = 1 THEN "in_progress" ELSE "pending"]
  BY <1>f, TopIs, StackTyped, FrameFields DEF CreateStep
<1>2. Steps' = Steps /\ Joins' = Joins /\ HasRouting' = HasRouting /\ 1 \in Steps
  BY <1>1, SameWorkflow, WfTyped
<1>3. \A s \in Steps : status'[s] \in Open \cup {"absent"}
  <2>1. \A s \in Steps : status[s] \in Open \cup {"absent"}
    BY <1>1 DEF Creating
  <2> QED BY <1>1, <2>1, ShapeParts DEF Open
<1>4. Rejected' /\ FirstOpened' /\ Clean'
  <2>1. FirstOpened'
    BY <1>1, <1>2, ShapeParts DEF FirstOpened
  <2>2. Passed' = {}
    BY <1>2, <1>3 DEF Passed, Open
  <2> QED BY <1>2, <1>3, <2>1, <2>2 DEF Rejected, Clean, Open
<1>5. PICK fs \in Seq(Frames) :
        /\ Continue(h, fs) /\ Len(fs) <= 1 /\ \A i \in DOMAIN fs : fs[i].op = "create"
  <2> DEFINE g == [op |-> "create", step |-> f.step + 1]
  <2>1. CASE f.step = Len(wf.type)
    <3>1. Continue(h, <<>>)
      BY <1>f, <2>1 DEF CreateStep
    <3>2. <<>> \in Seq(Frames) /\ Len(<<>>) <= 1 /\ DOMAIN <<>> = {}
      OBVIOUS
    <3> QED BY <3>1, <3>2
  <2>2. CASE f.step # Len(wf.type)
    <3>1. Continue(h, <<g>>)
      BY <1>f, <2>2 DEF CreateStep
    <3>2. f.step + 1 \in Steps
      BY <1>1, <2>2, WfTyped DEF Steps
    <3>3. g \in Frames /\ g.op = "create"
      BY <3>2 DEF Frames
    <3> HIDE DEF g
    <3>4. <<g>> \in Seq(Frames) /\ Len(<<g>>) <= 1 /\ \A i \in DOMAIN <<g>> : <<g>>[i].op = "create"
      BY <3>3
    <3> QED BY <3>1, <3>4
  <2> QED BY <2>1, <2>2
<1>6. GoesOn(q, fs, r) /\ q[1] = f
  BY <1>1, <1>5, <1>f, <1>q, <1>r, WentOn
<1>7. /\ Passes(q) /\ q \in Seq(Frames) /\ q # <<>> /\ Kind(q[1]) = "work" /\ q[1].op \notin Recons
      /\ \A k \in DOMAIN q : q[k].op \in Recons => q[k].op = "reach" /\ q[k].pass = 1
  <2>1. \A k \in DOMAIN q : q[k].op \in Recons => q[k].op = "reach" /\ q[k].pass = 1
    BY <1>1, <1>q DEF Creating
  <2>2. Kind(q[1]) = "work" /\ q[1].op \notin Recons
    BY <1>1, <1>6, ReconKinds DEF Recons
  <2> QED BY <1>6, <1>q, <2>1, <2>2 DEF GoesOn
<1>8. ASSUME NEW i \in DOMAIN r PROVE r[i].op = "create" \/ \E k \in DOMAIN q : k > 1 /\ r[i] = q[k]
  <2>1. CASE i <= Len(fs)
    <3>1. i \in DOMAIN fs /\ r[i] = fs[i]
      BY <1>6, <1>8, <2>1 DEF GoesOn
    <3> QED BY <1>5, <3>1
  <2>2. CASE ~(i <= Len(fs))
    <3>1. i - Len(fs) + 1 \in DOMAIN q /\ i - Len(fs) + 1 > 1 /\ r[i] = q[i - Len(fs) + 1]
      BY <1>6, <1>8, <2>2 DEF GoesOn
    <3> QED BY <3>1
  <2> QED BY <2>1, <2>2
<1>9. \A i \in DOMAIN r : (r[i].op \in Recons => r[i].op = "reach" /\ r[i].pass = 1) /\ ~Asks(r[i])
  <2>1. ASSUME NEW k \in DOMAIN q, k > 1 PROVE ~Asks(q[k])
    BY <1>6, <2>1 DEF GoesOn, Orderly, Asks
  <2> QED BY <1>7, <1>8, <2>1 DEF Recons, Asks
<1>10. Carried(r)'
  BY <1>2, <1>3 DEF Carried, Open, Finished
<1>11. Passing(r)'
  BY <1>9 DEF Passing, Bounded, Recons
<1>12. Asking(r)'
  <2>1. r # <<>> => 1 \in DOMAIN r
    BY <1>6 DEF GoesOn
  <2> QED BY <1>9, <2>1, AskingElse
<1>13. ReconsLast(r) /\ ReconsAll(r)'
  <2>1. ~Reconciles(fs) /\ \A i, j \in DOMAIN fs : i < j => fs[i].op \notin Recons
    BY <1>5 DEF Reconciles, Recons
  <2> QED BY <1>1, <1>5, <1>6, <1>7, <2>1, OrderStays DEF GoesOn, Passes
<1>14. HasRouting => Reconciles(r)
  BY <1>6, <1>7, ReconKept
<1>15. Passes(r)'
  BY <1>2, <1>10, <1>11, <1>12, <1>13, <1>14 DEF Passes
<1>16. Creating(h)'
  BY <1>2, <1>3, <1>9, <1>r DEF Creating
<1> QED BY <1>4, <1>15, <1>16, <1>r

-----------------------------------------------------------------------------
(* The requests that begin a cascade. *)

\* r is a cascade c, its reconciliation, and frames that are no work.
Begins(c, r) ==
    /\ r \in Seq(Frames) /\ \A i \in DOMAIN c : i \in DOMAIN r /\ r[i] = c[i]
    /\ \A i \in DOMAIN r : i \in DOMAIN c \/ r[i].op \notin {"create", "preds", "any", "fire"}
    /\ \A i \in DOMAIN r : r[i].op \in Recons => r[i].op = "reach" /\ r[i].pass = 1
    /\ \A i \in DOMAIN r : ~Asks(r[i])
    /\ ReconsLast(r)
    /\ HasRouting => Reconciles(r)

LEMMA Joined ==
    ASSUME NEW F, NEW a \in Seq(F), NEW b \in Seq(F), NEW r, r = a \o b
    PROVE  r \in Seq(F)
  OBVIOUS

LEMMA BeginsOnly ==
    ASSUME Shape, NEW c \in Seq(Frames), \A i \in DOMAIN c : c[i].op \notin Recons /\ ~Asks(c[i]),
           NEW r, r = c \o ReconcileInstance(1)
    PROVE  Begins(c, r)
<1> DEFINE gg == [op |-> "reach", pass |-> 1]
<1>g. PICK g : g = gg
  OBVIOUS
<1>m. PICK m : m = ReconcileInstance(1)
  OBVIOUS
<1>1. m = <<>> \/ m = <<g>>
  BY <1>g, <1>m, ReconcilePushed
<1>2. HasRouting => m = <<g>>
  BY <1>g, <1>m, WfTyped DEF ReconcileInstance
<1>3. g \in Frames /\ g.op = "reach" /\ g.pass = 1 /\ ~Asks(g) /\ g.op \in Recons
  BY <1>g DEF Frames, Asks, Recons
<1> HIDE DEF gg
<1>4. r \in Seq(Frames) /\ \A i \in DOMAIN c : i \in DOMAIN r /\ r[i] = c[i]
  <2>1. <<>> \in Seq(Frames) /\ <<g>> \in Seq(Frames)
    BY <1>3
  <2>2. m \in Seq(Frames)
    BY <1>1, <2>1
  <2>3. r = c \o m
    BY <1>m
  <2>4. r \in Seq(Frames)
    BY <2>2, <2>3, Joined
  <2>5. \A i \in DOMAIN c : i \in DOMAIN r /\ r[i] = c[i]
    BY <2>2, <2>3
  <2> QED BY <2>4, <2>5
<1>5. \A i \in DOMAIN r : i \in DOMAIN c \/ (i = Len(c) + 1 /\ r[i] = g)
  <2>1. CASE m = <<>>
    <3>1. r = c
      BY <1>m, <2>1
    <3> QED BY <3>1
  <2>2. CASE m = <<g>>
    <3>1. r = c \o <<g>>
      BY <1>m, <2>2
    <3>2. Len(r) = Len(c) + 1 /\ DOMAIN r = 1..Len(r) /\ DOMAIN c = 1..Len(c) /\ Len(c) \in Nat /\ r[Len(c) + 1] = g
      BY <1>3, <3>1
    <3> QED BY <3>2
  <2> QED BY <1>1, <2>1, <2>2
<1>6. ReconsLast(r)
  <2>1. ASSUME NEW i \in DOMAIN r, NEW j \in DOMAIN r, i < j, r[i].op \in Recons PROVE FALSE
    <3>1. i \notin DOMAIN c
      BY <1>4, <2>1
    <3>2. i = Len(c) + 1
      BY <1>5, <2>1, <3>1
    <3>3. j \notin DOMAIN c
      BY <2>1, <3>2
    <3> QED BY <1>5, <2>1, <3>2, <3>3
  <2> QED BY <2>1 DEF ReconsLast
<1>7. ASSUME HasRouting PROVE Reconciles(r)
  <2>1. Len(c) + 1 \in DOMAIN r /\ r[Len(c) + 1] = g
    BY <1>2, <1>7, <1>m
  <2> QED BY <1>3, <2>1 DEF Reconciles
<1>8. \A i \in DOMAIN r : i \in DOMAIN c \/ r[i].op \notin {"create", "preds", "any", "fire"}
  BY <1>3, <1>5
<1>9. \A i \in DOMAIN r : ~Asks(r[i]) /\ (r[i].op \in Recons => r[i].op = "reach" /\ r[i].pass = 1)
  BY <1>3, <1>4, <1>5
<1> QED BY <1>4, <1>6, <1>7, <1>8, <1>9 DEF Begins

LEMMA BeginsMore ==
    ASSUME NEW c, NEW q, Begins(c, q), NEW t \in Seq(Frames), \A i \in DOMAIN t : Kind(t[i]) # "work",
           NEW r, r = q \o t
    PROVE  Begins(c, r)
<1>1. q \in Seq(Frames) /\ \A i \in DOMAIN c : i \in DOMAIN q /\ q[i] = c[i]
  BY DEF Begins
<1>2. r \in Seq(Frames) /\ \A i \in DOMAIN q : i \in DOMAIN r /\ r[i] = q[i]
  BY <1>1
<1>3. \A i \in DOMAIN r : i \in DOMAIN q \/ (i > Len(q) /\ i - Len(q) \in DOMAIN t /\ r[i] = t[i - Len(q)])
  BY <1>1
<1>4. \A i \in DOMAIN t : t[i].op \notin Recons \cup {"create", "preds", "any", "fire"} /\ ~Asks(t[i])
  BY KindIs DEF Recons, Asks
<1>5. ReconsLast(r)
  <2>1. ASSUME NEW i \in DOMAIN r, NEW j \in DOMAIN r, i < j, r[i].op \in Recons PROVE Kind(r[j]) # "work"
    <3>1. i \in DOMAIN q
      BY <1>3, <1>4, <2>1
    <3>2. CASE j \in DOMAIN q
      BY <1>2, <2>1, <3>1, <3>2 DEF Begins, ReconsLast
    <3>3. CASE j \notin DOMAIN q
      BY <1>3, <2>1, <3>3
    <3> QED BY <3>2, <3>3
  <2> QED BY <2>1 DEF ReconsLast
<1>6. HasRouting => Reconciles(r)
  BY <1>2 DEF Begins, Reconciles
<1>7. \A i \in DOMAIN r : i \in DOMAIN c \/ r[i].op \notin {"create", "preds", "any", "fire"}
  BY <1>2, <1>3, <1>4 DEF Begins
<1>8. \A i \in DOMAIN r : ~Asks(r[i]) /\ (r[i].op \in Recons => r[i].op = "reach" /\ r[i].pass = 1)
  BY <1>2, <1>3, <1>4 DEF Begins
<1> QED BY <1>1, <1>2, <1>5, <1>6, <1>7, <1>8 DEF Begins

LEMMA BeginsPasses ==
    ASSUME wf' = wf, NEW c, NEW r, Begins(c, r), Carried(r)'
    PROVE  Passes(r)'
<1>1. HasRouting' = HasRouting
  BY SameWorkflow
<1>2. Passing(r)'
  BY DEF Begins, Passing, Bounded, Recons
<1>3. Asking(r)'
  <2>1. r # <<>> => 1 \in DOMAIN r
    BY DEF Begins
  <2> QED BY <2>1, AskingElse DEF Begins
<1> QED BY <1>1, <1>2, <1>3 DEF Begins, Passes, ReconsAll

LEMMA StartReach ==
    ASSUME Shape, Calls, Inserting, Shape', Rejected, FirstOpened, Clean, NEW h \in Handlers, Passes(stack[h]),
           StartWorkflow(h)
    PROVE  Rejected' /\ FirstOpened' /\ Clean' /\ Creating(h)' /\ Passes(stack[h])'
<1> DEFINE a == [op |-> "create", step |-> 1]
           b == [op |-> "drive", event |-> "started"]
           p == ProcessAutoStep(1)
           c == <<a>> \o <<b>> \o p
           i == <<[op |-> "idle"]>>
           z == <<[op |-> "started"]>>
           q == c \o ReconcileInstance(1)
           x == q \o i \o z
<1>1. UNCHANGED <<wf, status, decision>> /\ instance = "absent" /\ Idle(h) /\ stack' = [stack EXCEPT ![h] = x]
  BY DEF StartWorkflow, Request, Drive, CloseInstanceIfIdle, rows
<1>2. 1 \in Steps
  BY WfTyped
<1>3. c \in Seq(Frames) /\ \A k \in DOMAIN c : c[k].op \notin Recons /\ ~Asks(c[k])
  <2>1. a \in Frames /\ b \in Frames /\ a.op = "create" /\ b.op = "drive"
    BY <1>2 DEF Frames
  <2>2. p \in Seq(Frames) /\ \A k \in DOMAIN p : p[k].op = "auto"
    <3>1. p \in Seq(Plain) /\ \A k \in DOMAIN p : p[k] = [op |-> "auto", step |-> 1]
      BY <1>2, AutoPushed
    <3>2. Plain \subseteq Frames
      BY DEF Plain
    <3> HIDE DEF p
    <3> QED BY <3>1, <3>2
  <2> HIDE DEF a, b, p
  <2>3. c \in Seq(Frames) /\ Len(c) = 2 + Len(p) /\ Len(p) \in Nat /\ \A k \in DOMAIN c : c[k] = IF k = 1 THEN a ELSE IF k = 2 THEN b ELSE p[k - 2]
    BY <2>1, <2>2
  <2>4. \A k \in DOMAIN c : k \in {1, 2} \/ k - 2 \in DOMAIN p
    BY <2>2, <2>3
  <2>5. \A k \in DOMAIN c : c[k].op \in {"create", "drive", "auto"}
    BY <2>1, <2>2, <2>3, <2>4
  <2> QED BY <2>3, <2>5 DEF Recons, Asks
<1>4. /\ i \in Seq(Frames) /\ \A k \in DOMAIN i : Kind(i[k]) # "work"
      /\ z \in Seq(Frames) /\ \A k \in DOMAIN z : Kind(z[k]) # "work"
  <2>1. [op |-> "idle"] \in Frames /\ [op |-> "started"] \in Frames
    BY DEF Frames
  <2>2. Kind([op |-> "idle"]) # "work" /\ Kind([op |-> "started"]) # "work"
    BY KindIs
  <2> QED BY <2>1, <2>2
<1> HIDE DEF c, i, z
<1>5. Begins(c, q)
  BY <1>3, BeginsOnly
<1> HIDE DEF q
<1>6. Begins(c, q \o i)
  BY <1>4, <1>5, BeginsMore
<1>7. Begins(c, x)
  BY <1>4, <1>6, BeginsMore
<1> HIDE DEF x
<1>8. PICK r : r = x
  OBVIOUS
<1>c. PICK d : d = c
  OBVIOUS
<1>9. Begins(d, r) /\ stack'[h] = r
  BY <1>1, <1>7, <1>8, <1>c DEF Shape
<1>10. Rejected' /\ FirstOpened' /\ Clean'
  BY <1>1, ReadRows
<1>11. Carried(r)'
  <2>1. Carried(<<>>)
    BY <1>1 DEF Passes, Idle
  <2>2. DOMAIN <<>> = {}
    OBVIOUS
  <2> QED BY <1>1, <2>1, <2>2, ReadCarried
<1>12. Passes(r)'
  BY <1>1, <1>9, <1>11, BeginsPasses
<1>13. Creating(h)'
  <2>1. Steps' = Steps /\ \A s \in Steps : status'[s] \in Open \cup {"absent"}
    BY <1>1, SameWorkflow DEF Inserting
  <2> QED BY <1>9, <2>1 DEF Creating, Begins
<1> QED BY <1>9, <1>10, <1>12, <1>13

\* A decision and the cascade it sets off.
LEMMA CompleteReach ==
    ASSUME Shape, Calls, Shape', ~Direct, Rejected, FirstOpened, Clean, NEW h \in Handlers, Passes(stack[h]),
           NEW s \in Steps, NEW d \in Decisions(s), CompleteStep(h, s, d)
    PROVE  Rejected' /\ FirstOpened' /\ Clean' /\ Creating(h)' /\ Passes(stack[h])'
<1>1. PICK next \in ActivateNextSteps(s, d) : Request(h, next \o ReconcileInstance(1) \o CloseInstanceIfIdle)
  BY DEF CompleteStep
<1> DEFINE i == <<[op |-> "idle"]>>
           q == next \o ReconcileInstance(1)
<1>2. next \in Seq(Frames) /\ \A k \in DOMAIN next : next[k].op \notin Recons \cup {"create"} /\ ~Asks(next[k])
  <2>1. next \in Seq(Calm)
    BY ActivateCalm
  <2>2. Calm \subseteq Frames /\ \A f \in Calm : f.op \notin Recons \cup {"create"} /\ ~Asks(f)
    BY DEF Calm
  <2> QED BY <2>1, <2>2
<1>3. i \in Seq(Frames) /\ \A k \in DOMAIN i : Kind(i[k]) # "work"
  <2>1. [op |-> "idle"] \in Frames
    BY DEF Frames
  <2>2. Kind([op |-> "idle"]) # "work"
    BY KindIs
  <2> QED BY <2>1, <2>2
<1>4. Idle(h) /\ stack' = [stack EXCEPT ![h] = q \o i]
  BY <1>1 DEF Request, CloseInstanceIfIdle
<1> HIDE DEF i
<1>5. Begins(next, q)
  BY <1>2, BeginsOnly
<1> HIDE DEF q
<1>6. PICK r : r = q \o i
  OBVIOUS
<1>7. Begins(next, r) /\ stack'[h] = r
  <2>1. Begins(next, r)
    BY <1>3, <1>5, <1>6, BeginsMore
  <2>2. stack'[h] = r
    BY <1>4, <1>6 DEF Shape
  <2> QED BY <2>1, <2>2
<1>8. /\ wf' = wf /\ status' = [status EXCEPT ![s] = IF d = "reject" THEN "rejected" ELSE "completed"]
      /\ decision' = [decision EXCEPT ![s] = d] /\ status[s] = "in_progress"
      /\ d = "reject" => wf.type[s] = "approval"
  BY DEF CompleteStep, MayDecide, Decisions
<1>9. /\ status'[s] = (IF d = "reject" THEN "rejected" ELSE "completed") /\ decision'[s] = d
      /\ \A t \in Steps : t # s => status'[t] = status[t] /\ decision'[t] = decision[t]
  BY <1>8, ShapeParts
<1>10. Onward
  BY <1>8, <1>9 DEF Onward, Open
<1>11. /\ Rejected' /\ FirstOpened' /\ Clean'
       /\ \A t \in Steps : status'[t] = "pending" => status[t] = "pending"
  BY <1>10, OnwardRows
<1>12. Carried(r)'
  <2>1. Carried(<<>>)
    BY <1>4 DEF Passes, Idle
  <2>2. DOMAIN <<>> = {}
    OBVIOUS
  <2>3. \A t \in Steps : status[t] \in Finished /\ status'[t] \in Finished => decision'[t] = decision[t]
    BY <1>8, <1>9 DEF Finished
  <2>4. ASSUME NEW p \in Steps, status[p] \notin Finished, status'[p] \in Finished, NEW t \in ResolveNext(p, decision'[p])
        PROVE  \E k \in DOMAIN r : r[k].op = "activate" /\ r[k].to = t
    <3>1. p = s /\ t \in ResolveNext(s, d)
      BY <1>9, <2>4
    <3>2. PICK k \in DOMAIN next : next[k].op = "activate" /\ next[k].to = t
      BY <3>1, NextActivates
    <3> QED BY <1>7, <3>2 DEF Begins
  <2> QED BY <1>8, <1>11, <2>1, <2>2, <2>3, <2>4, CarriedStays
<1>13. Passes(r)'
  BY <1>7, <1>8, <1>12, BeginsPasses
<1>14. Creating(h)'
  <2>1. \A k \in DOMAIN r : r[k].op # "create"
    BY <1>2, <1>7 DEF Begins
  <2> QED BY <1>7, <2>1, NoCreate
<1> QED BY <1>7, <1>11, <1>13, <1>14

-----------------------------------------------------------------------------
(* What is no cascade: the end of a request, the close and the cancel. *)

LEMMA RestReach ==
    ASSUME Shape, Shape', UNCHANGED <<wf, decision>>, Rejected, FirstOpened, Clean,
           NEW h \in Handlers, Passes(stack[h]), \A i \in DOMAIN stack[h] : Kind(stack[h][i]) # "work",
           \A i \in DOMAIN stack'[h] : Kind(stack'[h][i]) # "work",
           \/ status' = status
           \/ \A s \in Steps : status'[s] # "pending" /\ status'[s] \in {status[s], "skipped"}
    PROVE  Rejected' /\ FirstOpened' /\ Clean' /\ Creating(h)' /\ Passes(stack[h])'
<1>q. PICK q : q = stack[h]
  OBVIOUS
<1>r. PICK r : r = stack'[h]
  OBVIOUS
<1>1. wf' = wf /\ Steps' = Steps /\ Joins' = Joins /\ HasRouting' = HasRouting /\ 1 \in Steps
  BY SameWorkflow, WfTyped
<1>2. /\ \A i \in DOMAIN q : q[i].op \notin Recons \cup {"activate"}
      /\ \A i \in DOMAIN r : r[i].op \notin Recons \cup {"create"} /\ ~Asks(r[i]) /\ Kind(r[i]) # "work"
  <2>1. \A f : Kind(f) # "work" => f.op \notin Recons \cup {"activate", "create"} /\ ~Asks(f)
    BY ReconKinds DEF Asks
  <2> QED BY <1>q, <1>r, <2>1
<1>3. HasRouting => Settled
  BY <1>2, <1>q DEF Passes, Reconciles
<1>4. Rejected' /\ FirstOpened' /\ Clean' /\ (HasRouting' => Settled')
  <2>1. CASE status' = status
    BY <1>3, <2>1, ReadRows, SameRows
  <2>2. CASE \A s \in Steps : status'[s] # "pending" /\ status'[s] \in {status[s], "skipped"}
    <3>1. Waiting' = {}
      BY <1>1, <2>2 DEF Waiting
    <3>2. Rejected' /\ FirstOpened'
      BY <1>1, <2>2 DEF Rejected, FirstOpened
    <3> QED BY <3>1, <3>2 DEF Clean, Settled
  <2> QED BY <2>1, <2>2
<1>5. Carried(r)'
  <2>1. /\ \A s \in Steps : status'[s] = "pending" => status[s] = "pending"
        /\ \A s \in Steps : status'[s] \in Finished => status[s] \in Finished
    BY DEF Finished
  <2>2. Carried(q)
    BY <1>q DEF Passes
  <2> QED BY <1>1, <1>2, <2>1, <2>2, CarriedStays
<1>6. Passing(r)'
  BY <1>2 DEF Passing, Bounded, Recons
<1>7. Asking(r)'
  <2>1. r \in Seq(Frames')
    BY <1>r DEF Shape
  <2>2. r # <<>> => 1 \in DOMAIN r
    BY <2>1
  <2> QED BY <1>2, <2>2, AskingElse
<1>8. ReconsLast(r) /\ ReconsAll(r)'
  BY <1>2 DEF ReconsLast, ReconsAll, Holds
<1>9. Passes(r)'
  BY <1>4, <1>5, <1>6, <1>7, <1>8 DEF Passes
<1>10. Creating(h)'
  BY <1>2, <1>r, NoCreate
<1> QED BY <1>4, <1>9, <1>10, <1>r

\* Below a frame that is no work there is none.
LEMMA NoWorkBelow ==
    ASSUME Shape, Calls, Phases, NEW h \in Handlers, ~Idle(h), Kind(Top(h)) # "work"
    PROVE  \A i \in DOMAIN stack[h] : Kind(stack[h][i]) # "work"
<1>1. /\ stack[h] \in Seq(Frames) /\ stack[h][1] = Top(h)
      /\ \A i \in DOMAIN stack[h] : i > 1 => Kind(stack[h][i]) \in Below(Kind(Top(h)))
  BY TopPhased
<1>2. "work" \notin Below(Kind(Top(h)))
  BY KindIs, BelowIs
<1>3. \A i \in DOMAIN stack[h] : i = 1 \/ i > 1
  BY <1>1
<1> QED BY <1>1, <1>2, <1>3

LEMMA OthersReach ==
    ASSUME Shape, Calls, Phases, Shape', Rejected, FirstOpened, Clean, NEW h \in Handlers, Passes(stack[h]),
           \/ CancelInstance(h) \/ ReadIdle(h) \/ SkipPending(h)
           \/ Statement(h) /\ Kind(Top(h)) \in {"end", "rest", "last"}
    PROVE  Rejected' /\ FirstOpened' /\ Clean' /\ Creating(h)' /\ Passes(stack[h])'
<1>1. CASE CancelInstance(h)
  <2>1. \A i \in DOMAIN stack[h] : Kind(stack[h][i]) # "work"
    BY <1>1 DEF CancelInstance, Request, Idle
  <2>2. \A i \in DOMAIN stack'[h] : Kind(stack'[h][i]) # "work"
    BY <1>1, CancelPhased
  <2>3. /\ UNCHANGED <<wf, decision>>
        /\ \A s \in Steps : status'[s] # "pending" /\ status'[s] \in {status[s], "skipped"}
    BY <1>1, ShapeParts DEF CancelInstance, Withdrawn, Open
  <2> QED BY <2>1, <2>2, <2>3, RestReach
<1>2. CASE ReadIdle(h)
  <2>1. ~Idle(h) /\ Top(h).op = "idle" /\ UNCHANGED <<wf, status, decision>>
    BY <1>2, TopIs DEF ReadIdle, rows
  <2>2. Kind(Top(h)) # "work"
    BY <2>1, KindIs
  <2>3. \A i \in DOMAIN stack[h] : Kind(stack[h][i]) # "work"
    BY <2>1, <2>2, NoWorkBelow
  <2>4. \A i \in DOMAIN stack'[h] : Kind(stack'[h][i]) # "work"
    <3> DEFINE F == {f \in Frames : f.op \in {"skip", "end", "endexec"}}
    <3>1. PICK fs \in Seq(F) : Continue(h, fs)
      <4>1. [op |-> "skip"] \in F /\ [op |-> "end"] \in F /\ [op |-> "endexec"] \in F
        BY DEF Frames
      <4>2. <<>> \in Seq(F) /\ CloseInstance \in Seq(F)
        <5> HIDE DEF F
        <5> QED BY <4>1 DEF CloseInstance
      <4>3. Continue(h, <<>>) \/ Continue(h, CloseInstance)
        BY <1>2 DEF ReadIdle
      <4> QED BY <4>2, <4>3
    <3>2. Pushed(h, F)
      BY <2>1, <3>1, ContinuePushes
    <3>3. \A f \in F : Kind(f) # "work"
      BY KindIs
    <3> HIDE DEF F
    <3> QED BY <2>3, <3>2, <3>3 DEF Pushed
  <2> QED BY <2>1, <2>3, <2>4, RestReach
<1>3. CASE SkipPending(h)
  <2>1. ~Idle(h) /\ Top(h).op = "skip" /\ UNCHANGED <<wf, decision>>
    BY <1>3, TopIs DEF SkipPending
  <2>2. Kind(Top(h)) # "work"
    BY <2>1, KindIs
  <2>3. \A i \in DOMAIN stack[h] : Kind(stack[h][i]) # "work"
    BY <2>1, <2>2, NoWorkBelow
  <2>4. \A i \in DOMAIN stack'[h] : Kind(stack'[h][i]) # "work"
    BY <1>3, SkipPhased
  <2>5. \A s \in Steps : status'[s] # "pending" /\ status'[s] \in {status[s], "skipped"}
    BY <1>3, ShapeParts DEF SkipPending
  <2> QED BY <2>1, <2>3, <2>4, <2>5, RestReach
<1>4. CASE Statement(h) /\ Kind(Top(h)) \in {"end", "rest", "last"}
  <2>1. ~Idle(h) /\ Kind(Top(h)) # "work"
    BY <1>4, InstanceMoves
  <2>2. \A i \in DOMAIN stack[h] : Kind(stack[h][i]) # "work"
    BY <2>1, NoWorkBelow
  <2>3. (\A i \in DOMAIN stack'[h] : Kind(stack'[h][i]) # "work") /\ UNCHANGED rows
    BY <1>4, RestPhased
  <2>4. wf' = wf
    <3>1. Next
      BY <1>4 DEF Next
    <3> QED BY <3>1, SameDefinition
  <2> QED BY <2>2, <2>3, <2>4, RestReach DEF rows
<1> QED BY <1>1, <1>2, <1>3, <1>4

-----------------------------------------------------------------------------
(* The whole run. *)

LEMMA WorkReach ==
    ASSUME Shape, Calls, Shape', Rejected, FirstOpened, Clean, NEW h \in Handlers, Creating(h), Passes(stack[h]),
           Statement(h), Kind(Top(h)) = "work", reopened' = {}
    PROVE  Rejected' /\ FirstOpened' /\ Clean' /\ Creating(h)' /\ Passes(stack[h])'
<1>1. ~Idle(h) /\ Top(h) \in Frames
  <2>1. ~Idle(h)
    BY InstanceMoves
  <2> QED BY <2>1, StackTyped
<1>2. CASE Top(h).op = "create"
  <2>1. CreateStep(h)
    BY <1>2, OpOf DEF Statement
  <2> QED BY <2>1, CreateReach
<1>3. CASE Top(h).op \in Recons
  <2>1. ReadReachable(h) \/ Sweep(h) \/ NextJoin(h)
    BY <1>3, OpOf DEF Statement, Recons
  <2> QED BY <2>1, ReachStep, SweepStep, NextJoinStep
<1>4. CASE Asks(Top(h))
  <2>1. ReadPredecessor(h) \/ ReadCompleted(h)
    BY <1>4, OpOf DEF Statement, Asks
  <2> QED BY <1>4, <2>1, PredsStep, AnyStep
<1>5. CASE Top(h).op \notin Recons \cup {"create"} /\ ~Asks(Top(h))
  <2>1. Top(h) \in Calm
    BY <1>1, <1>5 DEF Calm
  <2> QED BY <2>1, CalmStep
<1> QED BY <1>2, <1>3, <1>4, <1>5

LEMMA ReachKept ==
    ASSUME Serial, ~Direct, RowsInv, Phases, Shape', ReachInv, Next, reopened' = {}
    PROVE  ReachInv'
<1>1. Shape /\ Calls /\ Inserting
  BY DEF RowsInv
<1>2. PICK h \in Handlers : StepKinds(h) /\ \A g \in Handlers : g = h
  BY <1>1, SerialSteps
<1>3. Rejected /\ FirstOpened /\ Clean /\ Creating(h) /\ Passes(stack[h])
  BY DEF ReachInv
<1>4. Rejected' /\ FirstOpened' /\ Clean' /\ Creating(h)' /\ Passes(stack[h])'
  <2>1. CASE StartWorkflow(h)
    BY <1>1, <1>3, <2>1, StartReach
  <2>2. ASSUME NEW s \in Steps, NEW d \in Decisions(s), CompleteStep(h, s, d)
        PROVE  Rejected' /\ FirstOpened' /\ Clean' /\ Creating(h)' /\ Passes(stack[h])'
    BY <1>1, <1>3, <2>2, CompleteReach
  <2>3. CASE Statement(h) /\ Kind(Top(h)) = "work"
    BY <1>1, <1>3, <2>3, WorkReach
  <2>4. CASE \/ CancelInstance(h) \/ ReadIdle(h) \/ SkipPending(h)
             \/ Statement(h) /\ Kind(Top(h)) \in {"end", "rest", "last"}
    BY <1>1, <1>3, <2>4, OthersReach
  <2> QED BY <1>2, <2>1, <2>2, <2>3, <2>4 DEF StepKinds
<1> QED BY <1>2, <1>4 DEF ReachInv

\* What was sent back stays sent back.
LEMMA ReopenedGrows ==
    ASSUME [Next]_vars
    PROVE  reopened \subseteq reopened'
<1>1. CASE UNCHANGED vars
  BY <1>1 DEF vars, rows
<1>2. ASSUME NEW h \in Handlers, NEW s \in Steps, NEW d \in Decisions(s), CompleteStep(h, s, d)
      PROVE  reopened \subseteq reopened'
  BY <1>2 DEF CompleteStep
<1>3. ASSUME NEW h \in Handlers, StartWorkflow(h) \/ CancelInstance(h) \/ Abandon(h) \/ StatementFails(h)
      PROVE  reopened \subseteq reopened'
  BY <1>3 DEF StartWorkflow, CancelInstance, Abandon, StatementFails, rows
<1>4. ASSUME NEW h \in Handlers, Statement(h) PROVE reopened \subseteq reopened'
  <2>1. CASE ResetDownstream(h) \/ Revive(h)
    BY <2>1 DEF ResetDownstream, Revive, Reopen
  <2>2. CASE \/ CreateStep(h) \/ Fallback(h) \/ Activate(h) \/ ActivateJoin(h) \/ ReadPredecessor(h) \/ FireJoin(h)
             \/ ReadRework(h) \/ FailInstance(h) \/ FailExecution(h) \/ RunAutoStep(h)
    BY <2>2 DEF CreateStep, Fallback, Activate, ActivateJoin, ReadPredecessor, FireJoin, ReadRework, FailInstance,
       FailExecution, RunAutoStep, rows
  <2>3. CASE \/ ReadReachable(h) \/ Sweep(h) \/ NextJoin(h) \/ ReadCompleted(h) \/ ReadIdle(h) \/ SkipPending(h)
             \/ EndInstance(h) \/ EndExecution(h) \/ DriveRecords(h) \/ ReadMirror(h) \/ RecordExecution(h)
    BY <2>3 DEF ReadReachable, Sweep, NextJoin, ReadCompleted, ReadIdle, SkipPending, EndInstance, EndExecution,
       DriveRecords, ReadMirror, RecordExecution, rows
  <2> QED BY <1>4, <2>1, <2>2, <2>3 DEF Statement
<1> QED BY <1>1, <1>2, <1>3, <1>4 DEF Next

LEMMA ReachInit == Init => ReachInv
<1> SUFFICES ASSUME Init PROVE ReachInv
  OBVIOUS
<1>1. (\A s \in Steps : status[s] = "absent") /\ \A h \in Handlers : stack[h] = <<>>
  BY DEF Init
<1>2. Shape
  BY RowsInvInit DEF RowsInv
<1>3. 1 \in Steps /\ \A s \in Steps : \A d : ResolveNext(s, d) \subseteq Steps
  BY <1>2, WfTyped, NextTyped
<1>4. Waiting = {}
  BY <1>1 DEF Waiting
<1>5. Rejected /\ FirstOpened /\ Clean /\ Settled
  BY <1>1, <1>3, <1>4 DEF Rejected, FirstOpened, Clean, Settled
<1>6. Passes(<<>>)
  <2>1. Carried(<<>>)
    BY <1>1 DEF Carried, Finished
  <2>2. DOMAIN <<>> = {}
    OBVIOUS
  <2> QED BY <1>5, <2>1, <2>2 DEF Passes, Passing, Asking, ReconsLast, ReconsAll, Reconciles, Holds
<1>7. \A h \in Handlers : Creating(h)
  BY <1>1 DEF Creating, At, Idle
<1> QED BY <1>1, <1>5, <1>6, <1>7 DEF ReachInv

LEMMA ReachStill ==
    ASSUME Shape, ReachInv, UNCHANGED <<wf, status, decision, stack>>
    PROVE  ReachInv'
<1>1. Rejected' /\ FirstOpened' /\ Clean' /\ Steps' = Steps /\ HasRouting' = HasRouting /\ Settled' = Settled
  BY ReadRows, SameRows DEF ReachInv
<1>2. ASSUME NEW h \in Handlers PROVE Creating(h)' /\ Passes(stack[h])'
  <2>1. PICK q : q = stack[h]
    OBVIOUS
  <2>2. Passes(q) /\ Creating(h)
    BY <2>1 DEF ReachInv
  <2>3. Creating(h)'
    BY <1>1, <2>2 DEF Creating, At, Idle, Top
  <2>4. Carried(q)'
    BY <2>2, ReadCarried DEF Passes
  <2>5. Passing(q)'
    <3>1. ASSUME NEW i \in DOMAIN q PROVE (Bounded(q[i]) \/ Current(q, i))'
      <4>1. CASE Bounded(q[i])
        BY <4>1, SameBounded
      <4>2. CASE Current(q, i)
        <5>1. Reachable' = Reachable /\ Left' = Left
          BY SameRows
        <5>2. \A f, asked : Scanning(f, asked) => Scanning(f, asked)'
          BY SameScan
        <5> QED BY <4>2, <5>1, <5>2 DEF Current, Within
      <4> QED BY <2>2, <3>1, <4>1, <4>2 DEF Passes, Passing
    <3> QED BY <3>1 DEF Passing
  <2>6. Asking(q)'
    <3>1. \A j : Predecessors(j)' = Predecessors(j)
      BY SameWorkflow DEF Predecessors, RoutesTo
    <3> QED BY <2>2, <3>1 DEF Passes, Asking
  <2>7. Passes(q)'
    BY <1>1, <2>2, <2>4, <2>5, <2>6 DEF Passes, ReconsAll
  <2> QED BY <2>1, <2>3, <2>7
<1> QED BY <1>1, <1>2 DEF ReachInv

\* Between the requests of a run that reworked nothing the promise is kept.
LEMMA QuietReaches ==
    ASSUME WorkInv, VerdictInv, ~Direct, ReachInv, Handlers = {} => instance = "absent", JoinsAhead, RejectsPass
    PROVE  PendingIsReachable
<1> SUFFICES ASSUME Quiet, HasRouting
             PROVE  \A s \in Steps : status[s] = "pending"
                      => s \in Closure({t \in Steps : status[t] = "in_progress"}, [t \in Steps |-> AllTargets(t)])
  BY DEF PendingIsReachable
<1>1. Shape /\ Inserting /\ RowsThere
  BY DEF WorkInv, RowsInv
<1>2. CASE instance = "absent"
  BY <1>1, <1>2 DEF Inserting
<1>3. CASE instance # "absent"
  <2>1. PICK h \in Handlers : stack[h] = <<>>
    BY <1>3 DEF Quiet, Idle
  <2>2. \A s \in Steps : status[s] # "absent"
    BY <1>1, <1>3 DEF RowsThere, Quiet, At
  <2>3. Carried(<<>>) /\ Settled
    <3>1. DOMAIN <<>> = {}
      OBVIOUS
    <3> QED BY <2>1, <3>1 DEF ReachInv, Passes, Reconciles
  <2>4. Rejected /\ Clean
    BY DEF ReachInv
  <2>5. Waiting \subseteq ToCome
    BY <1>1, <2>2, <2>3, <2>4, SettledReaches
  <2> QED BY <2>5 DEF Waiting, ToCome, Every
<1> QED BY <1>2, <1>3

LEMMA ReachCorrect ==
    ASSUME Serial, ~Direct
    PROVE  Spec => [](/\ WorkInv /\ VerdictInv /\ (Handlers = {} => instance = "absent")
                      /\ reopened = {} => ReachInv)
<1> DEFINE Inv == /\ WorkInv /\ VerdictInv /\ (Handlers = {} => instance = "absent")
                  /\ reopened = {} => ReachInv
<1>1. Init => Inv
  <2> SUFFICES ASSUME Init PROVE Inv
    OBVIOUS
  <2>1. WorkInv /\ VerdictInv /\ ReachInv
    BY WorkInit, RowsInvInit, VerdictInit, ReachInit DEF WorkInv
  <2>2. instance = "absent"
    BY DEF Init
  <2> QED BY <2>1, <2>2
<1>2. Inv /\ WorkInv' /\ [Next]_vars => Inv'
  <2> SUFFICES ASSUME Inv, WorkInv', [Next]_vars PROVE Inv'
    OBVIOUS
  <2>1. RowsInv /\ Phases /\ Shape /\ Shape'
    BY DEF WorkInv, RowsInv
  <2>2. VerdictInv'
    BY <2>1, VerdictStep
  <2>3. Handlers = {} => instance' = "absent"
    BY DEF Next, vars
  <2>4. ASSUME reopened' = {} PROVE ReachInv'
    <3>1. ReachInv
      BY <2>4, ReopenedGrows
    <3>2. CASE Next
      BY <2>1, <2>4, <3>1, <3>2, ReachKept
    <3>3. CASE UNCHANGED vars
      BY <2>1, <3>1, <3>3, ReachStill DEF vars, rows
    <3> QED BY <3>2, <3>3
  <2> QED BY <2>2, <2>3, <2>4
<1> QED BY <1>1, <1>2, WorkCorrect, PTL DEF Spec

\* Between requests a step that waits can still be reached from a step that is
\* in progress: in every run that sends nothing back, of any definition whose
\* joins are on no loop and whose reject branches do not lead into a join,
\* with requests taken one at a time. reconcileInstance reaches its fixpoint
\* within its passes, since every pass but the last skips or fires a step.
THEOREM PendingIsReachableHolds ==
    ASSUME Serial, ~Direct
    PROVE  Spec => [](JoinsAhead /\ RejectsPass /\ reopened = {} => PendingIsReachable)
<1> DEFINE Inv == /\ WorkInv /\ VerdictInv /\ (Handlers = {} => instance = "absent")
                  /\ reopened = {} => ReachInv
<1>1. Spec => []Inv
  BY ReachCorrect, PTL
<1>2. Inv => (JoinsAhead /\ RejectsPass /\ reopened = {} => PendingIsReachable)
  BY QuietReaches
<1> QED BY <1>1, <1>2, PTL

-----------------------------------------------------------------------------
(* What the close skips. *)

\* Sweeping, closing and cancelling skip steps; nothing else does.
LEMMA SkippedBy ==
    ASSUME Shape, Inserting, Next, NEW s \in Steps, status[s] = "pending", status'[s] = "skipped"
    PROVE  \E h \in Handlers : Sweep(h) \/ SkipPending(h) \/ CancelInstance(h)
<1>1. status \in [Steps -> Statuses]
  BY ShapeParts
<1>2. ASSUME NEW h \in Handlers, StartWorkflow(h) \/ Abandon(h) \/ StatementFails(h) PROVE FALSE
  BY <1>2 DEF StartWorkflow, Abandon, StatementFails, rows
<1>3. ASSUME NEW h \in Handlers, NEW t \in Steps, NEW d \in Decisions(t), CompleteStep(h, t, d) PROVE FALSE
  BY <1>1, <1>3 DEF CompleteStep
<1>4. ASSUME NEW h \in Handlers, Statement(h), ~Sweep(h), ~SkipPending(h) PROVE FALSE
  <2>1. CASE \/ ActivateJoin(h) \/ ReadPredecessor(h) \/ ReadRework(h) \/ FailInstance(h) \/ FailExecution(h)
             \/ ReadReachable(h) \/ NextJoin(h) \/ ReadCompleted(h) \/ ReadIdle(h)
    BY <2>1 DEF ActivateJoin, ReadPredecessor, ReadRework, FailInstance, FailExecution, ReadReachable,
       NextJoin, ReadCompleted, ReadIdle, rows
  <2>2. CASE \/ EndInstance(h) \/ EndExecution(h) \/ DriveRecords(h) \/ ReadMirror(h) \/ RecordExecution(h)
    BY <2>2 DEF EndInstance, EndExecution, DriveRecords, ReadMirror, RecordExecution, rows
  <2>3. CASE Fallback(h)
    BY <1>1, <2>3 DEF Fallback
  <2>4. CASE CreateStep(h)
    BY <1>1, <2>4 DEF CreateStep
  <2>5. CASE Activate(h)
    <3>1. status' = status \/ status' = [status EXCEPT ![Top(h).to] = "in_progress"]
      BY <2>5 DEF Activate
    <3> QED BY <1>1, <3>1
  <2>6. CASE FireJoin(h)
    <3>1. status' = [status EXCEPT ![Top(h).join] = IF @ = "pending" THEN "completed" ELSE @]
      BY <2>6 DEF FireJoin
    <3> QED BY <1>1, <3>1
  <2>7. CASE ResetDownstream(h) \/ Revive(h)
    BY <2>7 DEF ResetDownstream, Revive, Reopen
  <2>8. CASE RunAutoStep(h)
    <3>1. status' = status \/ status' = [status EXCEPT ![Top(h).step] = "completed"]
      BY <2>8 DEF RunAutoStep
    <3> QED BY <1>1, <3>1
  <2> QED BY <1>4, <2>1, <2>2, <2>3, <2>4, <2>5, <2>6, <2>7, <2>8 DEF Statement
<1> QED BY <1>2, <1>3, <1>4 DEF Next

\* A sweep knows what is reachable, and that has every step that is routed to.
LEMMA SweepSkips ==
    ASSUME Shape, Calls, ReachInv, NEW h \in Handlers, Sweep(h),
           NEW s \in Steps, status[s] = "pending", status'[s] = "skipped",
           NEW p \in Steps, status[p] \in Finished, s \in ResolveNext(p, decision[p])
    PROVE  FALSE
<1>1. ~Idle(h) /\ Top(h).op = "sweep" /\ stack[h] \in Seq(Frames) /\ stack[h] # <<>> /\ Top(h) = stack[h][1]
  BY TopIs, StackTyped DEF Sweep
<1>2. 1 \in DOMAIN stack[h]
  BY <1>1
<1>3. Top(h).reach = Reachable
  <2>1. Bounded(stack[h][1]) \/ Current(stack[h], 1)
    BY <1>2 DEF ReachInv, Passes, Passing
  <2> QED BY <1>1, <2>1 DEF Bounded, Current, Scanning
<1>4. s \notin Reachable
  <2>1. status' = [t \in Steps |-> IF t \in {u \in Steps \ Top(h).reach : status[u] = "pending"} THEN "skipped" ELSE status[t]]
    BY DEF Sweep
  <2> QED BY <1>3, <2>1
<1>5. p \in Reachable /\ s \in Onto(p)
  BY ReachableIs DEF Onto
<1> QED BY <1>4, <1>5, ReachableIs

\* When a run with routes is found idle, no step waits: what the close would
\* skip has been swept before.
LEMMA CloseFindsNone ==
    ASSUME WorkInv, VerdictInv, ~Direct, ReachInv, JoinsAhead, RejectsPass, HasRouting,
           NEW h \in Handlers, At(h, "skip")
    PROVE  Waiting = {}
<1>1. Shape /\ Calls /\ Phases
  BY DEF WorkInv, RowsInv
<1>2. ~Idle(h) /\ Top(h).op = "skip" /\ stack[h] \in Seq(Frames)
  BY <1>1, TopIs, StackTyped
<1>3. \A i \in DOMAIN stack[h] : Kind(stack[h][i]) # "work"
  <2>1. Kind(Top(h)) # "work"
    BY <1>2, KindIs
  <2> QED BY <1>1, <1>2, <2>1, NoWorkBelow
<1>4. \A i \in DOMAIN stack[h] : stack[h][i].op \notin Recons \cup {"activate"}
  BY <1>3, KindIs DEF Recons
<1>5. \A s \in Steps : status[s] # "absent" /\ status[s] # "in_progress"
  BY DEF WorkInv, Closing, Resolved, Finished
<1>6. Carried(<<>>) /\ Settled
  BY <1>4 DEF ReachInv, Passes, Carried, Reconciles
<1>7. Waiting \subseteq ToCome
  BY <1>1, <1>5, <1>6, SettledReaches DEF ReachInv
<1>8. ToCome = {}
  <2>1. {s \in Steps : status[s] = "in_progress"} = {}
    BY <1>5
  <2>2. {} \in SUBSET Steps
    OBVIOUS
  <2>3. Closure({}, Every) \subseteq {}
    BY <1>1, <2>2, EveryIs
  <2> QED BY <2>1, <2>3 DEF ToCome
<1> QED BY <1>7, <1>8

\* "Remaining 'pending' steps sit on branches routing never reached": in a run
\* that sends nothing back, of a definition whose joins are on no loop and
\* whose reject branches do not lead into a join, with requests taken one at a
\* time, no step that a decision routes to is skipped, by a pass of
\* reconcileInstance or when the run closes.
THEOREM RoutedIsNotSkippedHolds ==
    ASSUME Serial, ~Direct
    PROVE  Spec /\ [](JoinsAhead /\ RejectsPass /\ reopened = {}) => RoutedIsNotSkipped
<1> DEFINE Inv == /\ WorkInv /\ VerdictInv /\ (reopened = {} => ReachInv)
           ForwardRun == JoinsAhead /\ RejectsPass /\ reopened = {}
           NoneSkipped == \A s \in Steps :
                        /\ status[s] = "pending" /\ status'[s] = "skipped" /\ UNCHANGED instance
                        /\ s \notin reopened
                        => ~ \E p \in Steps : status[p] \in Finished /\ s \in ResolveNext(p, decision[p])
<1>1. Spec => []Inv
  BY ReachCorrect, PTL
<1>2. Inv /\ ForwardRun /\ [Next]_vars => [NoneSkipped]_vars
  <2> SUFFICES ASSUME Inv, ForwardRun, Next, NEW s \in Steps, status[s] = "pending", status'[s] = "skipped", UNCHANGED instance,
                      NEW p \in Steps, status[p] \in Finished, s \in ResolveNext(p, decision[p])
               PROVE  FALSE
    OBVIOUS
  <2>1. Shape /\ Calls /\ Inserting /\ ReachInv
    BY DEF WorkInv, RowsInv
  <2>2. PICK h \in Handlers : Sweep(h) \/ SkipPending(h) \/ CancelInstance(h)
    BY <2>1, SkippedBy
  <2>3. CASE Sweep(h)
    BY <2>1, <2>3, SweepSkips
  <2>4. CASE SkipPending(h)
    <3>1. At(h, "skip")
      BY <2>4 DEF SkipPending
    <3>2. HasRouting
      BY <2>1, NextTyped DEF HasRouting, Routeless, AllTargets
    <3>3. Waiting = {}
      BY <2>1, <3>1, <3>2, CloseFindsNone
    <3> QED BY <3>3 DEF Waiting
  <2>5. CASE CancelInstance(h)
    BY <2>5 DEF CancelInstance
  <2> QED BY <2>2, <2>3, <2>4, <2>5
<1> QED BY <1>1, <1>2, PTL DEF Spec, RoutedIsNotSkipped

=============================================================================

--------------------------- MODULE MCWorkflowEngine ---------------------------
(* Instances of WorkflowEngine for TLC: the workflows that are started. *)
EXTENDS WorkflowEngine, TLC

NoRoutes == <<>>
Next1(t) == [next |-> t]
Fork(t, u) == [a |-> t, b |-> u]
Verdict(yes, no) == [approve |-> yes, reject |-> no]
Branch(yes, no) == [true |-> yes, false |-> no]

Flow(types, routes) == [type |-> types, routes |-> routes, test |-> FALSE, rule |-> TRUE]
ByHand(flow) == [flow EXCEPT !.rule = FALSE]
TestRun(flow) == [flow EXCEPT !.test = TRUE, !.rule = FALSE]

\* Draft, review; a reject sends it back; the requester is told.
Review == Flow(<<"task", "approval", "notification">>,
               <<Next1(2), Verdict(3, 1), Next1(End)>>)

\* Two branches and a join; the second review sends the first branch back.
ForkJoin == Flow(<<"task", "task", "approval", "join", "approval">>,
                 <<Fork(2, 3), Next1(4), Verdict(4, 4), Next1(5), Verdict(End, 2)>>)

\* A condition picks one of two branches that meet in a join.
Either == Flow(<<"condition", "task", "notification", "join", "task">>,
               <<Branch(2, 3), Next1(4), Next1(4), Next1(5), Next1(End)>>)

\* Two joins in a row, fed by a condition and a parallel task.
Cascade == Flow(<<"task", "condition", "task", "join", "task", "join">>,
                <<[a |-> 2, b |-> 3, c |-> 5], Branch(4, End), Next1(4), Next1(6), Next1(6), Next1(End)>>)

\* No routes at all: document order.
InOrder == Flow(<<"task", "task", "task">>, <<NoRoutes, NoRoutes, NoRoutes>>)

\* Approve goes on, reject tells the requester; the notification, the last
\* step of the document, has no route of its own.
RejectNotifies == Flow(<<"approval", "task", "notification">>,
                       <<Verdict(2, 3), Next1(End), NoRoutes>>)

\* A review on one branch, on the other a condition that may end it; a reject
\* of the review goes to the join as well.
RejectJoins == Flow(<<"task", "approval", "condition", "task", "join", "task">>,
                    <<Fork(2, 3), Verdict(5, 5), Branch(4, End), Next1(5), Next1(6), Next1(End)>>)

\* What publishing a definition asks of its graph: a step without routes is
\* followed by the next one in the document; every step can be reached, some
\* path ends, and on every loop there is a task or approval.
Publishable(w) ==
    LET N       == Len(w.type)
        Autos   == {s \in 1..N : w.type[s] \notin {"task", "approval"}}
        To(s)   == {w.routes[s][k] : k \in DOMAIN w.routes[s]}
        Succ    == [s \in 1..N |-> IF To(s) = {} THEN {s + 1} \cap 1..N ELSE To(s) \ {End}]
        Ends(s) == IF To(s) = {} THEN s = N ELSE End \in To(s)
        ByAuto  == [s \in Autos |-> Succ[s] \cap Autos]
    IN /\ Closure({1}, Succ) = 1..N
       /\ \E s \in 1..N : Ends(s)
       /\ \A s \in Autos : s \notin Closure(ByAuto[s], ByAuto)

\* Every workflow of three steps that can be published, that opens with a
\* task, alone or a fork, routes every step and has no join on a loop.
RoutesOf(type) ==
    CASE type = "approval"  -> {Verdict(t, u) : t \in 0..3, u \in 0..3}
      [] type = "condition" -> {Branch(t, u) : t \in 0..3, u \in 0..3}
      [] OTHER -> {Next1(t) : t \in 0..3}

NoJoinOnLoop(w) ==
    LET To == [s \in 1..3 |-> {w.routes[s][k] : k \in DOMAIN w.routes[s]} \ {End}]
    IN \A s \in 1..3 : w.type[s] = "join" => s \notin Closure(To[s], To)

Valid3 == UNION {
    {w \in {Flow(<<"task", b, c>>, <<x, y, z>>) :
             x \in {Next1(2), Next1(3), Fork(2, 3)}, y \in RoutesOf(b), z \in RoutesOf(c)} :
        Publishable(w) /\ NoJoinOnLoop(w)} :
    b \in {"task", "approval", "condition"}, c \in {"approval", "notification", "join"}}

Sequential == Valid3 \cup {TestRun(Review), ForkJoin, Either, Cascade, ByHand(InOrder), RejectNotifies}

\* Two reviews and a join; the second review sends the run back to the first.
TwoReviews == Flow(<<"approval", "approval", "join">>,
                   <<Verdict(2, 3), Verdict(3, 1), Next1(End)>>)

\* One review that is repeated until it is granted, and a message at its end.
UntilGranted == Flow(<<"approval", "notification">>, <<Verdict(2, 1), Next1(End)>>)

Parallel == {TwoReviews, UntilGranted}

OnlyRejectJoins == {RejectJoins}
OnlyReview == {Review}

Interchangeable == Permutations(Handlers)
=============================================================================

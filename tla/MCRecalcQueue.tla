----------------------------- MODULE MCRecalcQueue -----------------------------
(* Instances of RecalcQueue for TLC. *)
EXTENDS RecalcQueue, TLC

CONSTANTS g1, g2,           \* gateways
          q1, q2, q3, q4,   \* requests
          m1, m2,           \* calculated metrics
          c1, c2            \* cells

\* Three requests meet in one gateway's queue, a fourth comes by another.
TwoGateways == (q1 :> g1) @@ (q2 :> g1) @@ (q3 :> g1) @@ (q4 :> g2)

Asks(ids, cells) == [ids |-> ids, cells |-> cells, counted |-> TRUE, durable |-> FALSE]
Foreground(a) == [a EXCEPT !.counted = FALSE]
Durable(a) == [a EXCEPT !.durable = TRUE, !.counted = FALSE]
Nothing == Asks({}, {})

\* Cells of two metrics from one gateway, an approval's copy from the other.
Across == (q1 :> Asks({m1, m2}, {c1})) @@ (q2 :> Nothing) @@ (q3 :> Nothing) @@ (q4 :> Durable(Asks({m1}, {})))

\* In one queue: two cells of a metric, and the metric whole.
Merged == (q1 :> Foreground(Asks({m1}, {c1}))) @@ (q2 :> Foreground(Asks({m1}, {c2})))
          @@ (q3 :> Foreground(Asks({m1}, {}))) @@ (q4 :> Nothing)

\* One counted recalculation in each gateway.
Counted == (q1 :> Asks({m1}, {c1})) @@ (q2 :> Nothing) @@ (q3 :> Nothing) @@ (q4 :> Asks({m1, m2}, {}))

Mixed == {Across, Merged, Counted}
=============================================================================

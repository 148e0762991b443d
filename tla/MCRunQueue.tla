------------------------------ MODULE MCRunQueue ------------------------------
(* Instances of RunQueue for TLC. *)
EXTENDS RunQueue, TLC

CONSTANTS w1, w2,       \* integration workers
          g1,           \* a gateway, which claims model links
          a1, a2, b1,   \* claim loops of w1 and of w2
          c1            \* the model-link loop of g1

J(conn, mode) == [conn |-> conn, mode |-> mode, data |-> TRUE]

\* Two workers; w1 has two claim loops (the real worker has four), so two
\* attempts can share one worker id.
WorkerProcs  == {w1, w2}
WorkerSlots  == {a1, a2, b1}
WorkerProcOf == (a1 :> w1) @@ (a2 :> w1) @@ (b1 :> w2)
WorkerJobs   == {J("pull", "real"), J("batch", "real"), J("record", "test")}

\* One claim loop per process, workers and a gateway side by side on one queue,
\* and every kind of run.
MixedProcs  == {w1, w2, g1}
MixedSlots  == {a1, b1, c1}
MixedProcOf == (a1 :> w1) @@ (b1 :> w2) @@ (c1 :> g1)
MixedGateways == {g1}
MixedJobs   == [conn : Connectors, mode : Modes, data : BOOLEAN]
=============================================================================

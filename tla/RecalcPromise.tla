----------------------------- MODULE RecalcPromise -----------------------------
(***************************************************************************)
(* What passQueue promises the callers of a recalculation, and nothing of  *)
(* how it keeps it: "a request returns once a pass that began after it has *)
(* finished". A pass serves the requests that were waiting when it began,  *)
(* all of them and no other; a request is answered when its pass has       *)
(* ended; a gateway that stops takes its requests with it.                 *)
(***************************************************************************)
CONSTANTS
    Gateways,   \* processes; each has a queue of its own for the revision
    Requests,   \* calls of passQueue.runRequest
    GatewayOf   \* the gateway each is made in

VARIABLES
    phase,      \* "new", "asked", "served", "answered" or "lost"
    serving     \* the requests the pass under way in each gateway serves

promiseVars == <<phase, serving>>

PromiseInit ==
    /\ phase = [r \in Requests |-> "new"]
    /\ serving = [g \in Gateways |-> {}]

\* The requests of g in phase p.
In(p, g) == {r \in Requests : GatewayOf[r] = g /\ phase[r] = p}

\* A request arrives and waits: a pass is under way.
Ask(r) ==
    /\ phase[r] = "new"
    /\ phase' = [phase EXCEPT ![r] = "asked"]
    /\ UNCHANGED serving

\* A request arrives and its own pass begins at once.
AskAndBegin(r) ==
    /\ phase[r] = "new"
    /\ serving[GatewayOf[r]] = {}
    /\ phase' = [phase EXCEPT ![r] = "asked"]
    /\ serving' = [serving EXCEPT ![GatewayOf[r]] = In("asked", GatewayOf[r]) \cup {r}]

\* A pass begins for every request that waits.
BeginPass(g) ==
    /\ serving[g] = {}
    /\ In("asked", g) # {}
    /\ serving' = [serving EXCEPT ![g] = In("asked", g)]
    /\ UNCHANGED phase

\* The pass ends, well or not, and has served its requests.
EndPass(g) ==
    /\ serving[g] # {}
    /\ phase' = [r \in Requests |-> IF r \in serving[g] THEN "served" ELSE phase[r]]
    /\ serving' = [serving EXCEPT ![g] = {}]

\* The pass ends by a panic, which answers the caller that ran it.
PanicPass(g) ==
    /\ \E r \in serving[g] :
        phase' = [q \in Requests |-> IF q = r THEN "answered"
                                     ELSE IF q \in serving[g] THEN "served" ELSE phase[q]]
    /\ serving' = [serving EXCEPT ![g] = {}]

\* A request gets its answer; one that fails before it is queued gets an
\* error without a pass.
Answer(r) ==
    /\ phase[r] \in {"new", "served"}
    /\ phase' = [phase EXCEPT ![r] = "answered"]
    /\ UNCHANGED serving

\* The gateway stops: its requests, waiting or to come, are gone.
Lose(g) ==
    /\ phase' \in [Requests -> {"new", "asked", "served", "answered", "lost"}]
    /\ \A r \in Requests :
        \/ phase'[r] = phase[r] /\ ~(GatewayOf[r] = g /\ phase[r] \in {"asked", "served"})
        \/ phase'[r] = "lost" /\ GatewayOf[r] = g
    /\ serving' = [serving EXCEPT ![g] = {}]

PromiseNext ==
    \/ \E r \in Requests : Ask(r) \/ AskAndBegin(r) \/ Answer(r)
    \/ \E g \in Gateways : BeginPass(g) \/ EndPass(g) \/ PanicPass(g) \/ Lose(g)

PromiseSpec == PromiseInit /\ [][PromiseNext]_promiseVars

=============================================================================

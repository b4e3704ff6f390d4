----------------------------- MODULE AgentPool -----------------------------
(***************************************************************************)
(* What the pool of a node promises, abstractly (spec sections 3 and 4.C): *)
(* every agent slot moves forward through its lifecycle and never back.   *)
(* A slot is "free" until its process is warmed, then "pending" (in the    *)
(* pool, selectable by a deploy), "active" (holding exactly the one        *)
(* workload it was deployed with) and finally "gone" (timed out, failed    *)
(* to start, or stopped).  A gone agent never re-enters the pool and an    *)
(* active one is never handed to a second deploy.                          *)
(***************************************************************************)
CONSTANT Ids

VARIABLE slot

Slots == {"free", "pending", "active", "gone"}

PoolTypeOK == slot \in [Ids -> Slots]

Init == slot = [w \in Ids |-> "free"]

\* Move slot w from state a to state b.
Move(w, a, b) ==
    /\ slot[w] = a
    /\ slot' = [slot EXCEPT ![w] = b]

\* A warmed agent is admitted to the pool.
Warm(w) == Move(w, "free", "pending")

\* A warmed agent never makes it into the pool.
Discard(w) == Move(w, "free", "gone")

\* A pending agent is given a workload.
Deploy(w) == Move(w, "pending", "active")

\* A pending agent leaves the pool without a workload.
Expire(w) == Move(w, "pending", "gone")

\* A deployed workload is stopped.
Retire(w) == Move(w, "active", "gone")

Next ==
    \E w \in Ids :
        Warm(w) \/ Discard(w) \/ Deploy(w) \/ Expire(w) \/ Retire(w)

Spec == Init /\ [][Next]_slot

=============================================================================

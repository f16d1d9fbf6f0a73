--------------------------- MODULE GuardedRelease ---------------------------
(***************************************************************************)
(* What a governed execution promises: the policy engine allows the call,  *)
(* then it is executed, once; the engine allows the result, then something *)
(* is released.  Without the one or the other allow the call is refused.   *)
(***************************************************************************)
EXTENDS Naturals

VARIABLES
    stage,    \* "idle", "asked", "executed", "released", "refused"
    allows,   \* allows of the engine for this call
    runs      \* executions for this call

vars == <<stage, allows, runs>>

Init == stage = "idle" /\ allows = 0 /\ runs = 0

Ask == stage = "idle" /\ stage' = "asked" /\ allows' = 0 /\ runs' = 0

Execute ==
    stage = "asked" /\ stage' = "executed" /\ allows' = allows + 1 /\ runs' = runs + 1

Release ==
    /\ stage = "executed" /\ stage' = "released"
    /\ allows' = allows + 1 /\ allows' = 2 /\ runs = 1 /\ UNCHANGED runs

Refuse ==
    /\ stage \in {"asked", "executed"} /\ stage' = "refused"
    /\ UNCHANGED <<allows, runs>>

RefuseAtOnce == stage = "idle" /\ stage' = "refused" /\ allows' = 0 /\ runs' = 0

Forget == stage \in {"released", "refused"} /\ stage' = "idle" /\ UNCHANGED <<allows, runs>>

Next == Ask \/ Execute \/ Release \/ Refuse \/ RefuseAtOnce \/ Forget

Spec == Init /\ [][Next]_vars
=============================================================================

--------------------------- MODULE DeliveryCadence ---------------------------
(***************************************************************************)
(* What the heartbeat gate promises of one process, whatever happens to    *)
(* the stamp, the network, the opt-out and the other processes: between    *)
(* two deliveries by the same running process there is at least Interval.  *)
(***************************************************************************)
EXTENDS Integers

CONSTANTS
    Proc,      \* processes
    Interval,  \* the least time between two deliveries
    Never      \* no delivery yet

VARIABLE sinceDelivery  \* per process, saturated at Interval

Due(p) == ~(sinceDelivery[p] # Never /\ sinceDelivery[p] < Interval)

Init == sinceDelivery = [p \in Proc |-> Never]

Deliver(p) ==
    /\ Due(p)
    /\ sinceDelivery' = [sinceDelivery EXCEPT ![p] = 0]

\* A fresh process remembers nothing.
Forget(p) == sinceDelivery' = [sinceDelivery EXCEPT ![p] = Never]

TimePasses ==
    sinceDelivery' = [p \in Proc |-> IF Due(p) THEN sinceDelivery[p]
                                     ELSE sinceDelivery[p] + 1]

Next == (\E p \in Proc : Deliver(p) \/ Forget(p)) \/ TimePasses

Spec == Init /\ [][Next]_sinceDelivery
=============================================================================

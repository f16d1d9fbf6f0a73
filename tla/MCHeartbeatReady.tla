-------------------------- MODULE MCHeartbeatReady --------------------------
(* One process over its restarts: two roots, one with a client derived by asUser. *)
EXTENDS HeartbeatReady, HeartbeatProperties

CONSTANTS p1, parent, derived, other

OneProc == {p1}
NoProc == {}
Clients == {parent, derived, other}
Roots == [c \in Clients |-> IF c = derived THEN parent ELSE c]
=============================================================================

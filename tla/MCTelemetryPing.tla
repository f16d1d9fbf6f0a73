--------------------------- MODULE MCTelemetryPing ---------------------------
(* Four names, two of them the same adapter and one refused; room for one of two. *)
EXTENDS TelemetryPing

CONSTANTS langgraph, shouted, litellm, blank, version, tier

Names == {langgraph, shouted, litellm, blank}
NormalNames == [r \in Names |->
    IF r = blank THEN 0 ELSE IF r = litellm THEN 2 ELSE 1]
Fields == {version, tier}
=============================================================================

-------------------------- MODULE MCWorkflowAdapter --------------------------
(* Two nodes that run the same tool, an id that either may pass, and two workflows. *)
EXTENDS WorkflowAdapter, TLC

CONSTANTS toolA, toolB, deploy, w1, w2

Nodes == {toolA, toolB}
SameName == [n \in Node |-> "tools-search"]
OneId == {deploy}
BothWorkflows == {w1, w2}

\* The nodes have the same step name and no two workflows differ: for safety only.
Symmetry == Permutations(Nodes) \cup Permutations(BothWorkflows)
=============================================================================

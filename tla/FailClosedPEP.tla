---------------------------- MODULE FailClosedPEP ----------------------------
(***************************************************************************)
(* What an enforcement point promises: a request leaves it only when the   *)
(* decision point allowed it and every redaction it was obliged to have    *)
(* done has been discharged by the engine, one answer of an engine that    *)
(* ran for each; otherwise it stays.                                       *)
(***************************************************************************)
EXTENDS Naturals

CONSTANT Duty    \* the redaction obligations a verdict may carry

VARIABLES
    outcome,    \* "undecided", "open" while being fulfilled, "forwarded", "blocked"
    owed,       \* the redaction obligations not discharged yet
    confirmed   \* this request's engine answers that say the redactor ran

vars == <<outcome, owed, confirmed>>

Init == outcome = "undecided" /\ owed = {} /\ confirmed = 0

Permit(obliged) ==
    outcome = "undecided" /\ outcome' = "open" /\ owed' = obliged /\ UNCHANGED confirmed

Discharge(i) ==
    /\ outcome = "open" /\ i \in owed
    /\ owed' = owed \ {i} /\ confirmed' = confirmed + 1 /\ UNCHANGED outcome

Forward ==
    outcome = "open" /\ owed = {} /\ outcome' = "forwarded" /\ UNCHANGED <<owed, confirmed>>

Block ==
    /\ outcome \in {"undecided", "open"}
    /\ outcome' = "blocked" /\ owed' = {} /\ UNCHANGED confirmed

NextRequest ==
    /\ outcome \in {"forwarded", "blocked"}
    /\ outcome' = "undecided" /\ owed' = {} /\ confirmed' = 0

Next ==
    \/ \E obliged \in SUBSET Duty : Permit(obliged)
    \/ \E i \in owed : Discharge(i)
    \/ Forward \/ Block \/ NextRequest

Spec == Init /\ [][Next]_vars
=============================================================================

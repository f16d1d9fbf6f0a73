---------------------------- MODULE DecideFulfill ----------------------------
(***************************************************************************)
(* The enforcement point of src/client.ts and src/pep.ts: decide, the      *)
(* engine round-trip that discharges each redact_pii obligation, and the   *)
(* caller that forwards or blocks.  The platform answers as it likes:      *)
(* refusals, truncated bodies, obligations it should not have sent, an     *)
(* engine whose redactor is off or whose answer contradicts itself.        *)
(*                                                                         *)
(* A statement is the set of sensitive items still readable in it.         *)
(***************************************************************************)
EXTENDS Integers, Sequences, FiniteSets

CONSTANTS
    Item,            \* what the engine could mask in the query
    Callers,         \* which of "oneCall" and "branching" the callers are
    MaxObligations   \* bound on the obligations of one verdict

ASSUME PEPAssumption ==
    /\ IsFiniteSet(Item)
    /\ Callers \subseteq {"oneCall", "branching"} /\ Callers # {}
    /\ MaxObligations \in Nat

(***************************************************************************)
(* Obligations by what fulfillRequest tells apart: a type that mutates     *)
(* nothing, redact_pii the client can discharge, and redact_pii it cannot: *)
(* no fulfillment block, another phase, no text/plain, another endpoint.   *)
(***************************************************************************)
Obligation ==
    {"other", "redact", "noFulfillment", "responsePhase", "otherContent", "foreignEndpoint"}
Verdict == {"allow", "deny", "needs_approval", "unrecognised"}

VARIABLES
    pc,           \* where the call is
    caller,       \* decideAndFulfill, or decide then hasRequestRedaction
    verdict,      \* the verdict decide returned
    obligations,  \* decision.obligations, normalised
    next,         \* index of the loop of fulfillRequest
    redacted,     \* the statement so far; the query while nothing was redacted
    raised,       \* the error thrown to the caller, or "none"
    masked,       \* observed: items the engine has masked
    confirmed     \* observed: engine answers of this call that say the redactor ran

vars == <<pc, caller, verdict, obligations, next, redacted, raised, masked, confirmed>>

Errors == {"none", "AuthenticationError", "APIError", "Transport",
           "ObligationNotFulfillableError"}

TypeOK ==
    /\ pc \in {"idle", "deciding", "permitted", "fulfilling", "checking",
               "forwarded", "blocked"}
    /\ caller \in Callers
    /\ verdict \in Verdict \cup {"none"}
    /\ obligations \in Seq(Obligation)
    /\ next \in Nat /\ next >= 1
    /\ redacted \subseteq Item
    /\ raised \in Errors
    /\ masked \subseteq Item
    /\ confirmed \in Nat

RequestRedaction == {"redact", "otherContent", "foreignEndpoint"}

\* pep.ts: does this verdict carry request-phase redaction work?
hasRequestRedaction(obs) == \E i \in DOMAIN obs : obs[i] \in RequestRedaction

-----------------------------------------------------------------------------
(* decide. *)

StartCall(c) ==
    /\ pc = "idle"
    /\ pc' = "deciding" /\ caller' = c
    /\ verdict' = "none" /\ obligations' = <<>> /\ next' = 1
    /\ redacted' = Item /\ raised' = "none" /\ masked' = {}
    /\ UNCHANGED confirmed

\* 401 or 403, another non-2xx, no answer, or a 200 without a verdict.
DecideRefused(error) ==
    /\ pc = "deciding"
    /\ raised' = error /\ pc' = "blocked"
    /\ UNCHANGED <<caller, verdict, obligations, next, redacted, masked, confirmed>>

\* An absent or non-array obligations member becomes [].
ObligationSeqs == UNION {[1 .. n -> Obligation] : n \in 0 .. MaxObligations}

\* What a caller does with a verdict: only "allow" is a permission.
Permits(v) == v = "allow"

Decided(v, obs) ==
    /\ pc = "deciding"
    /\ verdict' = v /\ obligations' = obs
    /\ pc' = IF Permits(v) THEN "permitted" ELSE "blocked"
    /\ UNCHANGED <<caller, next, redacted, raised, masked,
                   confirmed>>

\* decideAndFulfill always fulfils, a branching caller when there is work.
Fulfil ==
    /\ pc = "permitted"
    /\ caller = "oneCall" \/ hasRequestRedaction(obligations)
    /\ pc' = "fulfilling"
    /\ UNCHANGED <<caller, verdict, obligations, next, redacted, raised, masked,
                   confirmed>>

\* The branching caller sends its own query on when it sees no work.
ForwardQuery ==
    /\ pc = "permitted"
    /\ caller = "branching" /\ ~hasRequestRedaction(obligations)
    /\ pc' = "forwarded"
    /\ UNCHANGED <<caller, verdict, obligations, next, redacted, raised, masked,
                   confirmed>>

-----------------------------------------------------------------------------
(* fulfillRequest. *)

AtObligation(o) == pc = "fulfilling" /\ next <= Len(obligations) /\ obligations[next] = o

SkipWithoutFulfillment ==
    /\ AtObligation("other") \/ AtObligation("noFulfillment")
    /\ next' = next + 1
    /\ UNCHANGED <<pc, caller, verdict, obligations, redacted, raised, masked,
                   confirmed>>
SkipOther ==
    /\ AtObligation("other")
    /\ next' = next + 1
    /\ UNCHANGED <<pc, caller, verdict, obligations, redacted, raised, masked,
                   confirmed>>

\* Each of the four checks before the engine is called.
Unfulfillable == {"noFulfillment", "responsePhase", "otherContent", "foreignEndpoint"}

RefuseObligation ==
    /\ \E o \in Unfulfillable : AtObligation(o)
    /\ raised' = "ObligationNotFulfillableError" /\ pc' = "blocked"
    /\ UNCHANGED <<caller, verdict, obligations, next, redacted, masked, confirmed>>

CallEngine ==
    /\ \E o \in Obligation \ (Unfulfillable \cup {"other"}) : AtObligation(o)
    /\ pc' = "checking"
    /\ UNCHANGED <<caller, verdict, obligations, next, redacted, raised, masked,
                   confirmed>>

\* mcpCheckInput throws: no answer, no JSON, or a status other than 2xx and 403.
EngineFails ==
    /\ pc = "checking"
    /\ raised' = "ObligationNotFulfillableError" /\ pc' = "blocked"
    /\ UNCHANGED <<caller, verdict, obligations, next, redacted, masked, confirmed>>

\* redaction_evaluated false or absent, or redacted without a redacted_statement.
EngineUnusable ==
    /\ pc = "checking"
    /\ raised' = "ObligationNotFulfillableError" /\ pc' = "blocked"
    /\ UNCHANGED <<caller, verdict, obligations, next, redacted, masked, confirmed>>

\* The redactor ran and masked the items of hidden, none of them perhaps.  The answer
\* may be a 2xx or the 403 of a blocked check: `allowed` is not looked at.
ForwardOfOriginal(hidden) ==
    /\ pc = "checking" /\ hidden \subseteq redacted
    /\ redacted' = Item \ hidden
    /\ masked' = masked \cup hidden /\ confirmed' = confirmed + 1
    /\ next' = next + 1 /\ pc' = "fulfilling"
    /\ UNCHANGED <<caller, verdict, obligations, raised>>
EngineRedacts(hidden) ==
    /\ pc = "checking" /\ hidden \subseteq redacted
    /\ redacted' = redacted \ hidden
    /\ masked' = masked \cup hidden /\ confirmed' = confirmed + 1
    /\ next' = next + 1 /\ pc' = "fulfilling"
    /\ UNCHANGED <<caller, verdict, obligations, raised>>

\* fulfillRequest returns and the caller forwards what it returned.
ForwardContent ==
    /\ pc = "fulfilling" /\ next > Len(obligations)
    /\ pc' = "forwarded"
    /\ UNCHANGED <<caller, verdict, obligations, next, redacted, raised, masked,
                   confirmed>>

Finish ==
    /\ pc \in {"forwarded", "blocked"}
    /\ pc' = "idle" /\ confirmed' = 0
    /\ UNCHANGED <<caller, verdict, obligations, next, redacted, raised, masked>>

Init ==
    /\ pc = "idle" /\ caller \in Callers
    /\ verdict = "none" /\ obligations = <<>> /\ next = 1
    /\ redacted = Item /\ raised = "none" /\ masked = {} /\ confirmed = 0

Next ==
    \/ \E c \in Callers : StartCall(c)
    \/ \E e \in {"AuthenticationError", "APIError", "Transport"} : DecideRefused(e)
    \/ \E v \in Verdict, obs \in ObligationSeqs : Decided(v, obs)
    \/ Fulfil \/ ForwardQuery \/ SkipOther \/ RefuseObligation \/ CallEngine \/ EngineFails
    \/ EngineUnusable
    \/ \E hidden \in SUBSET Item : EngineRedacts(hidden)
    \/ ForwardContent \/ Finish

Spec == Init /\ [][Next]_vars

-----------------------------------------------------------------------------

\* decideAndFulfill answers for every redact_pii; a caller that branches on
\* hasRequestRedaction only for those it can see.
Owes(o) == IF caller = "oneCall" THEN o # "other" ELSE o \in RequestRedaction

Owed == IF pc \in {"permitted", "fulfilling", "checking"}
        THEN {i \in 1 .. Len(obligations) : i >= next /\ Owes(obligations[i])}
        ELSE {}

Outcome == IF pc \in {"idle", "deciding"} THEN "undecided"
           ELSE IF pc \in {"permitted", "fulfilling", "checking"} THEN "open"
           ELSE pc

PEP == INSTANCE FailClosedPEP WITH
    Duty <- 1 .. MaxObligations, outcome <- Outcome, owed <- Owed

(***************************************************************************)
(* Refinement.  The caller is a fail-closed enforcement point: content is   *)
(* forwarded only after an allow and after the engine has discharged every  *)
(* redact_pii obligation owed, and an obligation is discharged only by an   *)
(* engine answer that says the redactor ran.                                *)
(***************************************************************************)
FailsClosed == PEP!Spec

(***************************************************************************)
(* Several obligations are chained: what one engine round-trip masked is   *)
(* not readable in what is forwarded after a later one.                    *)
(***************************************************************************)
MaskedStaysMasked == pc = "forwarded" => redacted \cap masked = {}

(***************************************************************************)
(* A call that raises has nothing to forward, whichever step raised, and   *)
(* the truncated or unknown verdict is never taken for a permission.        *)
(***************************************************************************)
ErrorMeansBlocked ==
    /\ raised # "none" => pc \in {"blocked", "idle"}
    /\ pc = "forwarded" => verdict = "allow"
=============================================================================

----------------------------- MODULE ProtectCall -----------------------------
(***************************************************************************)
(* AxonFlow.protect (src/client.ts): ask the agent, run the caller's       *)
(* aiCall, and in production run it also when AxonFlow is unavailable,     *)
(* which the catch block recognises by words in the message of whatever    *)
(* was thrown: the denial, the agent's errors and those of aiCall itself.  *)
(***************************************************************************)
EXTENDS Naturals

CONSTANTS
    Answers,         \* what a policy check may come to
    ProviderErrors   \* what aiCall may throw

\* Policy checks that end in an error: the denial itself, a 4xx, a 5xx, a failed
\* connection, AbortSignal.timeout, and a body that is no answer.
CheckErrors == {"denied", "rejected", "failing", "unreachable", "timedOut", "unreadable"}

ASSUME ProtectAssumption ==
    /\ Answers \subseteq {"allowed", "modified"} \cup CheckErrors
    /\ ProviderErrors \subseteq {"providerFetch", "providerGoverned", "providerOther"}

VARIABLES
    mode,        \* config.mode of the client
    phase,       \* where the call is
    caught,      \* what the catch block holds, or "none"
    executions,  \* observed: how often aiCall was executed
    effects,     \* observed: how often the provider did what aiCall asks for
    verdict      \* observed: the agent's answer, or "none"

protectVars == <<mode, phase, caught, executions, effects, verdict>>

ProtectTypeOK ==
    /\ mode \in {"sandbox", "production"}
    /\ phase \in {"idle", "checking", "running", "catching", "rescuing", "returned", "threw"}
    /\ caught \in CheckErrors \cup ProviderErrors \cup {"none"}
    /\ executions \in 0 .. 2
    /\ effects \in 0 .. 2
    /\ verdict \in Answers \cup {"none"}

protect ==
    /\ phase = "idle" /\ phase' = "checking"
    /\ caught' = "none" /\ executions' = 0 /\ effects' = 0 /\ verdict' = "none"
    /\ UNCHANGED mode

-----------------------------------------------------------------------------
(* checkPolicies. *)

CheckAllows ==
    /\ phase = "checking" /\ "allowed" \in Answers
    /\ verdict' = "allowed" /\ phase' = "running" /\ executions' = executions + 1
    /\ UNCHANGED <<mode, caught, effects>>

\* data in the answer is returned in the place of aiCall's result.
CheckSubstitutes ==
    /\ phase = "checking" /\ "modified" \in Answers
    /\ verdict' = "modified" /\ phase' = "returned"
    /\ UNCHANGED <<mode, caught, executions, effects>>

CheckThrows(error) ==
    /\ phase = "checking"
    /\ verdict' = error /\ caught' = error /\ phase' = "catching"
    /\ UNCHANGED <<mode, executions, effects>>

AiReturns ==
    /\ phase = "running" /\ phase' = "returned"
    /\ effects' = effects + 1
    /\ UNCHANGED <<mode, caught, executions, verdict>>

\* The provider may have done its work and the connection failed after it.
AiThrows(error, done) ==
    /\ phase = "running"
    /\ caught' = error /\ phase' = "catching"
    /\ effects' = effects + done
    /\ UNCHANGED <<mode, executions, verdict>>

-----------------------------------------------------------------------------
(* The catch block. *)

\* Their messages: "Request blocked by AxonFlow: ...", "AxonFlow API error: ...",
\* "fetch failed" of the agent's connection, "fetch" in the provider's own error,
\* and those of an aiCall that goes through AxonFlow itself.
namesAxonFlow(error) == error \in {"denied", "rejected", "failing", "providerGoverned"}
isAxonFlowError(error) == namesAxonFlow(error) \/ error \in {"unreachable", "providerFetch"}

FailsOpenAnywhere == isAxonFlowError(caught)
FailsOpenAlways == mode = "production"
FailsOpen == mode = "production" /\ isAxonFlowError(caught)

FailOpen ==
    /\ phase = "catching" /\ FailsOpen
    /\ phase' = "rescuing" /\ executions' = executions + 1
    /\ UNCHANGED <<mode, caught, effects, verdict>>

Rethrow ==
    /\ phase = "catching" /\ ~FailsOpen
    /\ phase' = "threw"
    /\ UNCHANGED <<mode, caught, executions, effects, verdict>>

\* The second aiCall is returned from the catch block: what it throws is not caught again.
RescueThrows(done) ==
    /\ phase = "rescuing" /\ ProviderErrors # {}
    /\ phase' = "threw" /\ effects' = effects + done
    /\ UNCHANGED <<mode, caught, executions, verdict>>

RescueReturns ==
    /\ phase = "rescuing" /\ phase' = "returned"
    /\ effects' = effects + 1
    /\ UNCHANGED <<mode, caught, executions, verdict>>

CallOver ==
    /\ phase \in {"returned", "threw"} /\ phase' = "idle"
    /\ UNCHANGED <<mode, caught, executions, effects, verdict>>

ProtectInit ==
    /\ mode \in {"sandbox", "production"}
    /\ phase = "idle" /\ caught = "none" /\ executions = 0 /\ effects = 0 /\ verdict = "none"

ProtectNext ==
    \/ protect \/ CheckAllows \/ CheckSubstitutes
    \/ \E error \in CheckErrors \cap Answers : CheckThrows(error)
    \/ AiReturns
    \/ \E error \in ProviderErrors, done \in {0, 1} : AiThrows(error, done)
    \/ \E done \in {0, 1} : RescueThrows(done)
    \/ FailOpen \/ Rethrow \/ RescueReturns \/ CallOver

ProtectSpec == ProtectInit /\ [][ProtectNext]_protectVars

-----------------------------------------------------------------------------

(***************************************************************************)
(* In the sandbox nothing fails open: the caller's aiCall is executed once *)
(* at most, and only when the agent allowed the call.                      *)
(***************************************************************************)
SandboxRunsWhenAllowed ==
    mode = "sandbox" => executions <= 1 /\ (executions = 1 => verdict = "allowed")

(***************************************************************************)
(* Production keeps the application alive through an outage that is        *)
(* recognised as one: a call that ends in an error either had its aiCall   *)
(* executed or met a failure that the catch block does not recognise.      *)
(***************************************************************************)
OutageNeverCostsTheCall ==
    mode = "production" /\ phase = "threw" =>
        executions > 0 \/ caught \in {"timedOut", "unreadable"}

(***************************************************************************)
(* The provider does the caller's work twice only in production, for a     *)
(* call the agent allowed, and after an error of the provider whose own    *)
(* words made the catch block take it for an outage of AxonFlow.           *)
(***************************************************************************)
DuplicateOnlyAfterMisreadError ==
    effects = 2 =>
        mode = "production" /\ verdict = "allowed"
        /\ caught \in {"providerFetch", "providerGoverned"}

\* Inductive: aiCall is executed by the allowed path, and again by the catch block.
ProtectInv ==
    /\ mode \in {"sandbox", "production"}
    /\ phase \in {"idle", "checking", "running", "catching", "rescuing", "returned", "threw"}
    /\ executions \in 0 .. 2 /\ effects \in 0 .. executions
    /\ caught \in CheckErrors \cup ProviderErrors \cup {"none"}
    /\ verdict \in Answers \cup {"none"}
    /\ phase = "checking" => executions = 0
    /\ phase = "running" => executions = 1 /\ effects = 0 /\ verdict = "allowed"
    /\ phase = "catching" => executions <= 1 /\ (executions = 1 => verdict = "allowed")
    /\ phase = "rescuing" => mode = "production" /\ executions \in {1, 2} /\ effects < executions
    /\ phase = "catching" /\ executions = 0 => caught \in CheckErrors
    /\ phase = "catching" /\ executions = 1 => caught \in ProviderErrors
    /\ phase = "rescuing" => isAxonFlowError(caught)
    /\ phase = "rescuing" /\ executions = 2 => verdict = "allowed" /\ caught \in ProviderErrors
    /\ SandboxRunsWhenAllowed
    /\ OutageNeverCostsTheCall
    /\ DuplicateOnlyAfterMisreadError

-----------------------------------------------------------------------------
(* What the source's comments and the README say and the code does not keep. *)

(***************************************************************************)
(* "If denied, throw error" (client.ts:925): the aiCall of a call that the *)
(* agent denied is not executed, in production either.                     *)
(***************************************************************************)
DeniedNeverRuns == verdict = "denied" => executions = 0
=============================================================================

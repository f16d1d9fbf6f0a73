----------------------------- MODULE RequestPath -----------------------------
(***************************************************************************)
(* One request of a method of src/client.ts (Operations), from the call to *)
(* the value or error its caller gets, beside the logins and logouts of    *)
(* PortalSession.  policyRequest and orchestratorRequest remember for all  *)
(* clients of a family which deprecated routes they have warned of.        *)
(***************************************************************************)
EXTENDS PortalSession, Operations, FiniteSets

CONSTANTS Id   \* ids of policies, workflows, ...

ASSUME IdAssumption == Id \cap {"route", "id", None} = {}

VARIABLES
    stage,      \* of the request: "idle", "sent", "answered" or "done"
    method,     \* which method was called, by its description in Operations
    id,         \* the id in its path, if it has one, or None
    client,     \* by which client, if that matters: if it needs a session
    answer,     \* what the platform answered
    outcome,    \* what the caller gets
    warned      \* warnedDeprecatedRoutes, shared by a client and all derived from it

\* Observed.
VARIABLES
    carried,    \* the session sent with the request
    announced   \* the warnings emitted for the routes of templates, up to two

requestVars == <<stage, method, id, client, answer, outcome, warned, carried, announced>>

-----------------------------------------------------------------------------
(* Answers. *)

(***************************************************************************)
(* A body holds rows, or what else the method asks for; is an empty page;  *)
(* lacks the members ("bare"); or is no JSON ("garbage").  The other       *)
(* bodies carry the marks that some method looks for.  An error's body has *)
(* nothing else that matters ("bare").                                     *)
(***************************************************************************)
Bodies(status) ==
    CASE status = 200 -> {"rows", "empty", "bare", "garbage", "blocked", "failed", "unsuccessful"}
      [] status = 204 -> {"none"}
      [] status \in {401, 403} -> {"bare", "garbage", "blocked"}
      [] status = 402 -> {"bare", "garbage", "budget"}
      [] status = 404 -> {"bare", "garbage", "nothingActive"}
      [] status = 409 -> {"bare", "garbage", "frozen", "keyMismatch"}
      [] status = 429 -> {"bare", "garbage", "tier"}
      [] status = 500 -> {"bare", "garbage"}
Statuses == {200, 204, 401, 402, 403, 404, 409, 429, 500}
Scopes(m, status) == IF m.scoped # "no" /\ status \in {200, 404}
                     THEN {"absent", "tenant", "own-rows", "none"} ELSE {"absent"}
Warns(m) == m.via \in {"policy", "orchestrator"}

Answers(m) == UNION {[status : {s}, body : Bodies(s), scope : Scopes(m, s)] : s \in Statuses}

NotYet == [status |-> 0, body |-> "none", scope |-> "absent"]
NoAnswer == [status |-> 0, body |-> "lost", scope |-> "absent"]

Ok(a) == a.status \in {200, 204}

-----------------------------------------------------------------------------
(* What an answer becomes. *)

\* throwTypedPolicyRefusal, and the status tests of the other paths.
ByStatus(via, status) ==
    CASE via = "masfeat" -> "apiError"
      [] via \in {"connector", "mcp", "check"} -> "connectorError"
      [] via \in {"plan", "planUpdate", "planGenerate", "planExecute"} -> "planExecutionError"
      [] via = "planStatus" -> "error"
      [] via \in {"typed", "typedActive"} ->
             IF status = 401 THEN "authenticationError" ELSE "typedPolicyRefusal"
      [] OTHER -> IF status \in {401, 403} THEN "authenticationError" ELSE "apiError"

\* readScopeErrorFor: a row that was not found under such a scope is no missing row.
HidesRows(a) == a.scope \in {"none", "own-rows"}
\* refuseVacuousScopedPage
Vacuous(m, a) == m.scoped = "page" /\ a.body \in {"empty", "bare"} /\ a.scope = "none"

\* legacyPolicyWriteFrozenFrom, mapIdempotencyKeyMismatch, fromTierEnvelope, ...
Refusal(m, a) ==
    CASE a.body = "frozen" /\ Warns(m) -> "legacyPolicyWriteFrozen"
      [] a.body = "keyMismatch" /\ m.rescued -> "idempotencyKeyMismatch"
      [] a.status = 409 /\ m.via = "planUpdate" -> "versionConflict"
      [] a.status = 404 /\ m.scoped # "no" /\ m.via = "orchestrator" /\ HidesRows(a) ->
             "readScopeError"
      [] a.body = "tier" /\ m.via = "decisions" -> "rateLimitError"
      [] a.body = "blocked" /\ m.via = "proxy" -> "policyViolation"
      [] a.body = "garbage" /\ m.via \in {"mcp", "check"} -> "syntaxError"
      [] OTHER -> ByStatus(m.via, a.status)

\* Error statuses some methods take for an answer.
AnyPaymentRequired(m, a) ==
    \/ m.via = "check" /\ a.status = 403 /\ a.body # "garbage"
    \/ m.via = "proxy" /\ a.status = 402 /\ a.body # "garbage"
    \/ m.via = "typedActive" /\ a.body = "nothingActive"
    \/ m.via = "health"
Tolerated(m, a) ==
    \/ m.via = "check" /\ a.status = 403 /\ a.body # "garbage"
    \/ m.via = "proxy" /\ a.body = "budget"
    \/ m.via = "typedActive" /\ a.body = "nothingActive"
    \/ m.via = "health"

\* No body: the wrappers return undefined, the others try to parse it.
ReadNothing(m) ==
    CASE m.via \in {"policy", "orchestrator", "portal"} ->
             CASE m.reads = "any" -> "nothing" [] m.reads = "default" -> "noRows"
               [] OTHER -> "typeError"
      [] m.via = "portalText" -> "value"
      [] m.via = "health" -> "unhealthy"
      [] m.via \in {"typed", "typedActive"} -> "axonFlowError"
      [] OTHER -> "syntaxError"

\* A body that is no JSON.
ReadGarbage(m) ==
    CASE m.via = "portalText" -> "value"
      [] m.via = "health" -> "unhealthy"
      [] m.via \in {"typed", "typedActive"} -> "axonFlowError"
      [] OTHER -> "syntaxError"

\* A 200 that says it is none.
SaysNo(m, a) == \/ m.via = "proxy" /\ a.body = "blocked"
                \/ m.via = "planGenerate" /\ a.body \in {"unsuccessful", "bare"}
                \/ m.via = "planExecute" /\ a.body = "failed"
                \/ m.reads = "inside" /\ a.body = "bare"
ReadNo(m) == CASE m.via = "proxy" -> "policyViolation"
               [] m.via \in {"planGenerate", "planExecute"} -> "planExecutionError"
               [] m.via = "typed" -> "axonFlowError"
               [] OTHER -> "typeError"

Value(m, a) ==
    IF m.via = "health" /\ ~Ok(a) THEN "unhealthy"
    ELSE IF a.body = "nothingActive" THEN "nothing"
    ELSE IF a.body = "none" THEN ReadNothing(m)
    ELSE IF a.body = "garbage" THEN ReadGarbage(m)
    ELSE IF SaysNo(m, a) THEN ReadNo(m)
    ELSE IF Vacuous(m, a) THEN "readScopeError"
    ELSE IF a.body \in {"empty", "bare"} THEN "noRows"
    ELSE "value"

-----------------------------------------------------------------------------
(* The request. *)

AnyMethod == Method("health", "any")

RequestInit ==
    /\ Init
    /\ stage = "idle" /\ method = AnyMethod /\ id = None /\ client = Original
    /\ answer = NotYet /\ outcome = "none" /\ carried = None
    /\ warned = {} /\ announced = 0

Finish(o) == stage' = "done" /\ outcome' = o

UsesPortal(m) == m.via \in {"portal", "portalText"}
Busy == {k \in Call : op[k] # "none"}

\* Bound: at most |Call| calls are under way; and as a request that needs no session shares
\* no state with logins and logouts, they start only where none was made that warned.
MayCall(m) == IF UsesPortal(m) THEN Cardinality(Busy) < Cardinality(Call)
              ELSE Busy = {} /\ exists = {Original} /\ \A s \in Session : owner[s] = None
MaySwitch == warned = {} /\ (stage # "idle" => UsesPortal(method))

CallMethod(m, i, c) ==
    /\ stage = "idle" /\ MayCall(m)
    /\ i = None <=> m.keyed = "route"
    /\ UsesPortal(m) => c \in exists /\ isLoggedIn(c)
    /\ ~UsesPortal(m) => c = Original
    /\ stage' = "sent" /\ method' = m /\ id' = i /\ client' = c
    /\ carried' = IF UsesPortal(m) THEN cookie[c] ELSE None
    /\ UNCHANGED <<vars, answer, outcome, warned, announced>>

\* Without its id, or without a session, a method throws before it sends.
RefuseCall(m, c) ==
    /\ stage = "idle" /\ MayCall(m)
    /\ \/ m.guarded /\ c = Original
       \/ UsesPortal(m) /\ c \in exists /\ ~isLoggedIn(c)
    /\ method' = m /\ client' = c /\ Finish("notSent")
    /\ UNCHANGED <<vars, id, answer, warned, carried, announced>>

\* A template is one route whatever id fills it; a path is a route for itself.
PathRoute(m) == IF m.keyed = "route" THEN "route" ELSE id
RouteOf(m) == CASE m.keyed = "route" -> "route" [] m.keyed = "template" -> "id" [] OTHER -> id

Answer(a, deprecated) ==
    /\ stage = "sent" /\ a \in Answers(method)
    /\ deprecated => Warns(method)
    /\ stage' = "answered" /\ answer' = a
    /\ LET first == deprecated /\ RouteOf(method) \notin warned
       IN  /\ warned' = IF first THEN warned \cup {RouteOf(method)} ELSE warned
           /\ announced' = IF first /\ method.keyed = "template" /\ announced < 2
                           THEN announced + 1 ELSE announced
    /\ UNCHANGED <<vars, method, id, client, outcome, carried>>

\* Out of reach, or timed out: the health checks alone answer all the same.
Lost ==
    /\ stage = "sent"
    /\ answer' = NoAnswer
    /\ Finish(IF method.via = "health" THEN "unhealthy" ELSE "networkError")
    /\ UNCHANGED <<vars, method, id, client, warned, carried, announced>>

Throw ==
    /\ stage = "answered" /\ ~Ok(answer) /\ ~Tolerated(method, answer)
    /\ Finish(Refusal(method, answer))
    /\ UNCHANGED <<vars, method, id, client, answer, warned, carried, announced>>

Return ==
    /\ stage = "answered" /\ (Ok(answer) \/ Tolerated(method, answer))
    /\ Finish(Value(method, answer))
    /\ UNCHANGED <<vars, method, id, client, answer, warned, carried, announced>>

Leave ==
    /\ stage = "done"
    /\ stage' = "idle" /\ method' = AnyMethod /\ id' = None /\ client' = Original
    /\ answer' = NotYet /\ outcome' = "none" /\ carried' = None
    /\ UNCHANGED <<vars, warned, announced>>

\* A login or logout of some client, within the bound of MayCall.
SessionStep ==
    /\ Next
    /\ MaySwitch /\ (stage # "idle" => Cardinality(Busy') < Cardinality(Call))
    /\ UNCHANGED requestVars

RequestNext ==
    \/ \E m \in Methods, i \in Id \cup {None}, c \in Client : CallMethod(m, i, c)
    \/ \E m \in Methods, c \in Client : RefuseCall(m, c)
    \/ \E a \in Answers(method), deprecated \in BOOLEAN : Answer(a, deprecated)
    \/ Lost \/ Throw \/ Return \/ Leave
    \/ SessionStep

RequestSpec == RequestInit /\ [][RequestNext]_<<vars, requestVars>>

-----------------------------------------------------------------------------

Values == {"value", "noRows", "nothing", "unhealthy"}
Errors == {"notSent", "networkError", "typeError", "syntaxError", "error", "apiError",
           "authenticationError", "connectorError", "planExecutionError", "versionConflict",
           "typedPolicyRefusal", "axonFlowError", "legacyPolicyWriteFrozen", "readScopeError",
           "idempotencyKeyMismatch", "rateLimitError", "policyViolation"}

AllTypesOK ==
    /\ TypeOK
    /\ stage \in {"idle", "sent", "answered", "done"}
    /\ method \in Methods /\ id \in Id \cup {None} /\ client \in exists
    /\ answer \in Answers(method) \cup {NotYet, NoAnswer}
    /\ outcome \in Values \cup Errors \cup {"none"}
    /\ stage = "done" <=> outcome # "none"
    /\ warned \subseteq Id \cup {"route", "id"} /\ announced \in 0 .. 2
    /\ carried \in Session \cup {None}

(***************************************************************************)
(* A portal request acts for the client that made it: it carries a session *)
(* that this client's own login minted, or that it was given when it was   *)
(* derived, however logins, logouts and derivations overlap with it        *)
(* (portalRequest and portalRequestText; "invisible to the other",         *)
(* client.ts:3160-3163).                                                   *)
(***************************************************************************)
ActsForItsCaller ==
    stage \in {"sent", "answered"} /\ UsesPortal(method) =>
        carried # None /\ (owner[carried] = client \/ carried = inherited[client])

\* No method returns an error answer as a value, but the health checks, a check that was
\* blocked, a budget that is spent and a policy that is not active, and these say so;
\* and a full answer never reaches the caller as an error.
ErrorsAreErrors ==
    /\ outcome \in Values =>
           \/ Ok(answer)
           \/ outcome = "unhealthy" /\ method.via = "health"
           \/ answer.status = 403 /\ method.via = "check"
           \/ answer.status = 402 /\ answer.body = "budget" /\ method.via = "proxy"
           \/ answer.body = "nothingActive" /\ outcome = "nothing"
    /\ answer.status = 200 /\ answer.body = "rows" => outcome = "value"

\* What was empty by construction is not evidence of absence: a page without rows is
\* returned only if the read had an identity, a row is reported missing only if no scope
\* could have hidden it, and nothing else is refused for its scope.
EmptyIsNotAbsence ==
    method.scoped # "no" /\ answer.scope \in {"none", "own-rows"} =>
        /\ outcome = "noRows" => answer.scope = "own-rows" \/ method.scoped # "page"
        /\ answer.status = 404 /\ method.via = "orchestrator" => outcome = "readScopeError"
        /\ outcome = "readScopeError" =>
               answer.status = 404 \/ (answer.scope = "none" /\ answer.body # "rows")

(***************************************************************************)
(* Whatever way a method sends and reads, its outcome tells what the       *)
(* platform answered: errors are errors, and an emptiness that a read      *)
(* scope produced is not taken for absence (client.ts, read-identity.ts).  *)
(***************************************************************************)
OutcomeTellsTheAnswer ==
    stage = "done" /\ answer \notin {NotYet, NoAnswer} => ErrorsAreErrors /\ EmptyIsNotAbsence

(***************************************************************************)
(* "a stamped route is reported once, not once per id" (client.ts:420):    *)
(* for a route built from a template the family of clients emits a single  *)
(* warning, with whatever ids it is called.                                *)
(***************************************************************************)
WarnedOncePerRoute == announced <= 1
=============================================================================

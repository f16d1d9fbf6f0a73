# A verification model of the AxonFlow TypeScript SDK

This directory holds TLA+ modules that model the stateful parts of the AxonFlow
SDK for TypeScript (`src/`), TLC configurations that check them on small
instances, and proofs, checked by TLAPS, that hold for every value of their
constants. Line numbers below refer to the files under `src/src/`; `client.ts`
is abbreviated C, `heartbeat.ts` H, `read-identity.ts` R, `adapters/langgraph.ts`
L; `telemetry.ts` T. `PROJECT.json` maps every definition to the lines it stands for.

## 1. The system

The SDK is a library inside an application's process. One class, `AxonFlow`
(C), turns method calls into HTTP requests to an AxonFlow agent; most methods
build a path, send a body and rename the fields of the answer. JavaScript runs
one callback at a time, so **every `await` is where another call may
interleave**: the state a method reads before an `await` may be different after
it. The state that lives longer than a call is listed here.

| Component | State | Operations | Interacts with | Hard behaviour |
|---|---|---|---|---|
| Heartbeat gate (H) | `HeartbeatState` of the process: `lastCheckedMs`, `inFlight`, `consecutiveFailures`, `lastDeliveredMs`; the stamp file, shared by the processes of a machine | `maybeSendHeartbeat`, `flushHeartbeat`, `writeStampAtomic`, `guardIntervalFor` | every request; the checkpoint; the file system; `process.env` | two processes and one file; exit between delivery and rename; backoff; a promise that must settle |
| `heartbeatReady` (C 191–262, 676–735) | a promise and a `settled` flag per root client, in a `WeakMap` | `_preRequestHook`, the getter, `asUser` | the gate, derived clients | a promise that may resolve too early, or never |
| Identity and redirects (C 264–269, 713–795; R) | the header bag and the hop of a call | `_fetch`, `applyReadIdentity`, `stripCredentialsOffOrigin` | every request; servers that redirect | a chain that leaves the origin and returns |
| Enforcement point (C 3426–3640; `pep.ts`) | the loop over a verdict's obligations | `decide`, `fulfillRequest`, `decideAndFulfill`, `hasRequestRedaction` | the decision point, the redaction engine | one of several round-trips fails; truncated and contradictory answers |
| Portal session (C 4566–4665, 5430–5445) | `sessionCookie` per client | `loginToPortal`, `logoutFromPortal`, `isLoggedIn`, the guard of portal requests, `asUser` | the portal | answers in another order than the calls |
| LangGraph adapter (L) | `workflowId`, `_stepCounter` per adapter | `startWorkflow`, `checkGate`, `stepCompleted`, tool variants, `waitForApproval` | the workflow control plane; a human; the parallel branches of a graph | both fields are read again after each `await`; polling against a timeout |
| `protect` (C 899–1073) | none beyond a call | `protect`, `checkPolicies`, `isAxonFlowError` | the agent, the caller's provider | one catch block for three kinds of error |
| Tool governance (`adapters/governed-tool.ts`, L 505–569) | none beyond a call | check input, run the tool, check output | `mcpCheckInput`, `mcpCheckOutput` | the tool has run when the output check fails |
| Execution stream (C 8655–8779) | a text buffer | `streamExecutionStatus` | a server-sent event stream, the caller's callback | split and missing events, a throwing callback, no timeout |
| AuthZEN client (`authzen.ts`) | none beyond a call: the document as each pass leaves it | `evaluate`, `evaluateAll`, `toWire` | the decision point | attributes that are known, absent or unknown at any depth; two counts of depth with one bound; a second pass over a resolved document |
| Telemetry ping (T) | the adapter registry of the process; the deadline of a ping | `registerAdapter`, `sendTelemetryPingNow`, `sendTelemetryPing`, `probePlatformHealth` | the gate, the health endpoint, the checkpoint, `Date.now()` | one budget for two requests; a body that stalls after its headers; redirects that look like success |
| Provider pages (C 1512–1596) | the list collected by a call | `listProvidersPaged`, `listAllProviders` | a registry that changes between two pages | providers skipped or listed twice; a walk without an end |
| Request path (C 3882–3951, 5341–5461; `errors.ts`; R 100–262) | `warnedDeprecatedRoutes`, one set for a client and all derived from it | `policyRequest`, `orchestratorRequest`, `portalRequest(Text)`, typed policies, and the methods with a path of their own | the portal session; the platform | statuses, bodies and scopes read in a different order by each way of sending |
| Proxy and gateway mode, plans, connectors, policies, budgets, executions, workflows, webhooks, HITL, media, MAS FEAT, code governance | none | some 150 methods, one request each | the request path | little by themselves: see `Operations` |
| PEP handshake (`pep-handshake.ts`) | a frozen header per client; the options object of a call, which its caller keeps | `new PEPHandshake`, `pepHandshakeHeaders` | `decide` and every engine round-trip | the options are read again for each obligation |

What makes each component correct:

* **Heartbeat**: a process does not deliver twice within seven days; failures
  space the attempts out and are forgotten after a success; a delivery a rename
  recorded is honoured by the next process; an opt-out stops traffic but for the
  ping under way; the in-flight promise settles, and a reachable checkpoint is
  eventually reached.
* **heartbeatReady**: it resolves for every root that is used, only once the
  ping of its first request is over, and never for a root that is not used.
* **Telemetry ping**: probe and POST keep to the one budget; nothing `/health` says
  or fails to say costs the ping; it counts as delivered only if it was taken, tells
  what the configured endpoint said, and ends.
* **Identity and redirects**: credentials never reach another origin; every hop
  at home carries them; a cleared identity stays cleared; a hop is the one `fetch`
  would make, or (the one departure) the first request's shape again; every call ends.
* **Enforcement point**: nothing is forwarded unless it was allowed and every
  redaction owed was done; what was masked stays masked.
* **PEP handshake**: equal declarations are equal headers; one call is one
  enforcement point.
* **Portal session**: a client acts only under its own login or the session it
  was derived with; a logout holds until the next login, and that one takes effect.
* **LangGraph adapter**: a node that was held back obeys the verdict on its own step;
  generated ids are unique; a completion names the step that was gated; a wait ends, and
  times out only where nobody decided in time. Section 5 says where the code does not.
* **Tool governance**: the tool runs once and only with what was checked; nothing
  unchecked comes back; what the engine redacts is redacted.
* **Execution stream**: the callback sees the statuses in order and without a gap,
  however the text is cut; the call ends when the stream does.
* **Provider pages**: a registry left alone is listed whole and in order; one that
  changes costs no provider that stays more than the change explains.
* **AuthZEN client**: what is sent is what was established, all of it; unknown is
  refused, absence stays local, and `toWire` shows what `evaluate` sends.
* **Request path**: an error of the platform is an error of the method, an empty
  answer under a narrow scope is no evidence of absence, a portal request acts for
  its own client, a template is reported once.
* **protect**: the sandbox never runs a call that was not allowed; an outage
  does not cost production its calls.

## 2. Modules

| Module | Models | Composition |
|---|---|---|
| `DeliveryCadence` | abstract: no two deliveries of a running process within the interval | implemented by `Heartbeat` |
| `Heartbeat` | H: gate, in-flight promise, stamp, restarts, opt-out, network, time | |
| `HeartbeatProperties` | its properties and inductive invariants | extends `Heartbeat`, instantiates `DeliveryCadence` |
| `HeartbeatReady` | `_preRequestHook` and the per-root promise | extends `Heartbeat`: each request runs its gate, each ping step continues the hooks that wait |
| `TelemetryPing` | T: the registry, the probe, the POST, their deadline and the wall clock | `Heartbeat` takes a ping by its outcome, which this module produces |
| `IdentityRedirect` | `_fetch`, the follower, `fetch` where no identity is attached | |
| `FailClosedPEP` | abstract: forward only after an allow and with nothing owed, each debt paid by one answer of an engine that ran | implemented by `DecideFulfill` |
| `DecideFulfill` | `decide` … `decideAndFulfill` and a caller that branches on `hasRequestRedaction` | instantiates `FailClosedPEP` |
| `PepHandshake` | construction of a declaration; what `decide` and each round-trip present | extends `DecideFulfill`: its requests carry the header |
| `PortalSession` | login, logout and `asUser`, each call split at its `await` | |
| `WorkflowAdapter` | the adapter's calls, split at their `await`s, the platform and a human | |
| `ProtectCall` | `protect` with its catch block | |
| `GuardedRelease` | abstract: one execution after a first allow, a release only after a second, else an error | implemented by `ToolGovernance` |
| `ToolGovernance` | `GovernedTool.invoke` and `mcpToolInterceptor`, each split at its `await`s | instantiates `GuardedRelease` |
| `ExecutionStream` | `streamExecutionStatus`, the server that writes the stream, the caller's callback and abort | |
| `ProviderPages` | `listAllProviders`, the platform's pages and its registry | |
| `AuthZen` | `evaluate`, `evaluateAll`, `toWire`, one action per pass | |
| `Operations` | the methods of C that make one request, each by what decides its outcome | |
| `RequestPath` | a request from the call to its outcome | extends `Operations` and `PortalSession`: its requests run between the steps of logins and logouts |
| `MC…` | constants for TLC | extend the module they instantiate. `MCCalls` extends the five modules of calls that take several steps and leave nothing behind (`IdentityRedirect`, `ToolGovernance`, `ProtectCall`, `ExecutionStream`, `ProviderPages`), `MCDecisions` the two surfaces that ask for a decision (`PepHandshake`, `AuthZen`); each of their behaviours is of one module, since these share no state |
| `…Proofs` | TLAPS proofs | extend the modules they are about and TLAPS |
| `OrderLemmas` | induction and recursion, least elements, places in an order, sorting: lemmas about sets, not about the code | extended by the proofs that count, sort or descend |

How state and actions correspond to the code:

**Heartbeat.** Instants are kept as ages: `checkedAgo[p]` is
`Date.now() - lastCheckedMs`. All comparisons of the code are of an age with at
most the interval, so an age that has reached it stops growing, and time needs
no bound. `inFlight` says how far the promise has got: `probing` (the health
probe and the POST are under way), `posted` (the checkpoint has it, the answer
is on its way), `acked` (delivered, H 313–322), `written` (the temporary file
exists, H 189–190); `RenameTmp` is the rename. `SuppressPing` and `StartPing`
are the two ways through `maybeSendHeartbeat` that change state; its other early
returns change nothing. `PingFailed` covers a lost POST and a lost answer (the
checkpoint may have got it). `Restart` ends the process at any point and starts
a new one; the environment keeps the stamp. The failure counter is counted up
to `MaxDoublings`, beyond which `guardIntervalFor` no longer changes. Clock
skew is a stamp dated up to `Skew` ahead. Observed, not recorded by the code:
when a ping was last started, when the environment last got one, the last
delivery that a rename recorded, the POSTs sent after an opt-out.

**HeartbeatReady.** `Request(c)` is `_preRequestHook` up to its `await`: the
gate runs, the entry of `RootOf[c]` is settled, and the promise resolves at once
if nothing is in flight. `ContinueHooks` is what follows the `await`.

**TelemetryPing.** `Begin` is a ping up to its first `await`, for either of its two
callers; `step` is where it is, `timer` what is left of the armed `AbortController`.
Timers run on the time that passes (`elapsed`), the deadline is read off the wall
clock, which `ClockStep` sets (`stepped`). `HealthBody` promotes each member by
itself: short, oversized, unusable or absent. `Post` computes what is left and gives
up below `MIN_BUDGET_MS`. `declared`, `said` and `stored` observe what there was to
tell and what the checkpoint has taken, `postedAt` and `skew` when the POST was due,
`excuse` whose fault a failure is. The opt-out of `sendTelemetryPing` (T 834–840)
only means that `Begin` is not taken.

**IdentityRedirect.** `headers` is the bag the follower copies from, `request`
what is on the wire. An identified call is followed by hand (`FollowByHand`,
`StopFollowing`), any other one by `fetch` (`FetchFollows`, external). Places are
URLs; `Home` are those with the configured origin. `abroad` collects what foreign
places received, `reference` the method and body `fetch` would be sending: it applies
each redirect to what the one before left, `HandShape` to the method of the first request.

**DecideFulfill.** A statement is the set of sensitive items still readable in
it. Obligations are told apart by what `fulfillRequest` asks of them. `Decided`
is a 200 with any verdict and any obligations, also those it should not have
sent; the engine may fail, answer without having run its redactor, or mask any
subset. A caller is either `decideAndFulfill` or one that forwards its own query
if `hasRequestRedaction` sees no work.

**PepHandshake.** A header is the list of its capabilities in the order they are
encoded in; `PEPHandshakes` is `new PEPHandshake` on every accepted list. `ours` is
the client's declaration, `theirs` what the options object of the call holds, which
`OptionsChanged` replaces at any `await`; `presented` collects what the requests of
the call carried. Identifiers and the size of the encoding are left out.

**PortalSession.** A call is `login`, then `accepted` once the portal has minted
a session, and writes the cookie when it returns; `logout` clears it when it
returns, failed or not. `Stored` is the rule of C 4608–4620: a readable
`Set-Cookie` wins, `session_id` only fills an empty place. `relogin` observes the last login whose header
could be read.

**WorkflowAdapter.** `checkGate` advances the counter, for a generated id, and sends
the request; `GateAnswers` is the rest. `ExplicitId` are the `stepId`s that callers may
pass: any node any of them, at once or one after the other, under any workflow.
`stepCompleted` makes a generated id again from the counter as it is then, and sends it
to `workflowId` as it is then. `approval` is the platform's status of every step of every
workflow, and `StatusOf` what `waitForApproval` reads (L 464-483): the step of that id in
the *present* workflow. A generated id is none of a workflow that replaced the node's
own; an explicit one may be. A step that is asked for again keeps its status or is put to
the human afresh (`Held`); a human decides on a pending step at any time, whoever waits.
A caller may wait again after a timeout (`WaitAgain`). `Leave` ends what is known of a
node's gate; `reported` holds the step a completion names and the one gated, in the
state after it. `disturbed` observes that the counter or `workflowId` changed between a
node's gate and its completion, `decidedAt` how far a node's wait had counted when the
human decided. The platform's workflow ids are not reused.

**ProtectCall.** Errors are told apart by the words `isAxonFlowError` looks for.
`executions` counts runs of `aiCall`; `effects` the times the provider did the
work, which may be the case although it ended in an error.

**ToolGovernance.** A value is the set of items readable in it and whether JSON
shows it: plain, emptied (a `Map`, `undefined`), or one `JSON.stringify` throws on.
`shownInput` and `shownOutput` are what the checks saw; `ArgsRewritten` and
`ResultRewritten` let whoever shares the object change it during an `await`.
`GovernedTool` and the interceptor differ in `Sendable`.

**ExecutionStream.** The text is a sequence of tokens, a line or a line end;
`WriteLine`, `EndEvent` and `Close` are the server. `ReadChunk(n)` takes any
number of them, `Cut` is what stands before the last blank line, `Rest` what stays in
the buffer. `events` is the text the loop has not gone over; `TakeLine` is a turn of it,
up to the next line: `SkipLine`, `CallbackReturns` or `CallbackThrows`; `Abort` may come at any step.

**ProviderPages.** `providers` is the platform's list, `atStart` what it was when the
call began. `Answer` serves the page as the registry is at that moment; `Register`
and `Unregister` change it anywhere in the list between two answers. `Collect` is a
turn of the loop. Older platforms answer with everything at once (C 1534).

**AuthZen.** Values (`Node`) are objects, lists, attributes and what has no parts; which
are inside which (`values`) is any relation between them, so that a bag may be of any
depth, share a part with another or refer to itself. Member names and the order of
lists are left out: the functions of `authzen.ts` keep both. Bags occur
where the schema has free-form members; names are told apart by missing, blank,
named, or an attribute put where a name belongs. The recursion of the code is a descent
by levels (`Below`), cut at `MAX_ATTRIBUTE_DEPTH`; what it makes of a value does not
depend on where the value stands, so each value is resolved and stripped once. Each function of `authzen.ts` is
one action and its refusals another: `resolveEnvelope`, `checkEnvelopeComplete`,
`assertFullyResolved`, `validateEnvelopeOrRefuse`, then the answer. `evaluate`
and `evaluateAll` go over the document twice (`buildEnvelope`, and `evaluateEnvelope` on
what it returned: `pass` 2), `toWire` once. `asked` and `built` are observed: what the
application put into its bags, what the first pass left there.

**Operations, RequestPath.** A method is a record: the helper it sends through,
what it reads of the body (anything, with a default, members, members of a member),
whether it refuses to send without an argument, whether a scope of the caller's
identity may hide its rows, whether an id is in its path and how, whether it looks
for an idempotency mismatch. Methods with equal records behave alike and TLC runs
them once. `Answer` is the platform and the deprecation warning; `Throw` and
`Return` follow the tests of each helper in their order: `Refusal`, `Tolerated`
(error statuses some methods take for an answer), `Value`. Values are told apart
as a full answer, no rows, nothing, or `unhealthy`. `warned` holds the keys of the
set; `announced` counts warnings for the one template, up to two.

## 3. Runs

All are complete explorations. Deadlock is checked except where the system stops:
in the adapter's runs, where ids and workflows run out by their bounds and the
nodes rest, and in those of `MCCalls`, whose stream ends once; there `RedirectsEnd` and
`ReadsEnd` say that calls come to an end.

| Run | States | Question |
|---|---|---|
| `HeartbeatReady` | 28 718 | One process over crashes and restarts, three clients of two roots: cadence (refinement of `DeliveryCadence`), backoff, recorded deliveries, opt-out, `heartbeatReady` (flushed, no hang), and the liveness of the gate |
| `TelemetryPing` | 1 308 230 | Every answer, stall and size of `/health` and the checkpoint, adapters registered at any time, a clock set forward or back: the budget, what costs a ping, what is delivered, what it says, an end |
| `Decisions` | 696 522 | Decision Mode: is the caller a fail-closed enforcement point (refinement of `FailClosedPEP`), with up to three chained obligations, does it present one declaration, and is that one canonical? AuthZEN, with envelopes of every kind of attribute at every depth, values too deep or without an end: does the wire say what was established, does the second pass change nothing? Yes |
| `RequestPath` | 664 210 | Every method and every answer, beside overlapping logins and logouts: does the outcome tell the answer, does a request act for its caller, does a logout hold and a login take effect, is a template reported once? Yes |
| `WorkflowAdapter` | 675 960 | Two nodes with the same name, two workflows, an explicit id either node may pass under either, a human who decides at any time: do held nodes obey the verdict on their step, are ids unique, do completions match unless disturbed, do waits time out only on late decisions? Yes |
| `ApprovalWait` | 339 741 | The same with one generated id: does every wait end? Yes |
| `StepIdMismatch` | violation | Do completions always match? With a second gate in between they do not |
| `ApprovedElsewhere` | violation | Does a node that waited run only if its step was approved? Not if another workflow has a step of its explicit id |
| `Calls` | 359 568 | All chains of redirects, circles included: do credentials stay home, is the identity the chosen one on every hop, is a return to the first request the only departure from `fetch`? Both wrappers, every kind of value, every answer of both checks, shared objects that change: guarded execution (refinement of `GuardedRelease`), nothing used unshown. `protect` in both modes over every answer and error: what is executed, and how often? Every cut of every stream of three lines, ends, breaks and aborts: order, no gaps, completeness. Every walk over four providers with two changes: nothing lost but what the changes explain. Do redirected calls, streams and walks end? Yes |
| `RedirectRepost` | violation | Is every hop the one `fetch` would make? A POST that became a GET is a POST again at the next 307 |
| `RedactionDropped` | violation | Does a redaction reach the caller? One that comes as `redacted_message` does not |
| `ProtectDenied` | violation | Is a denied call not executed? In production it is |

**Bounds.** The heartbeat's interval is 3 guard lengths with two doublings (the
real one is 168 with eight): enough for a backoff that grows, is clamped by the
interval (2² > 3), and expires before, at and after a cadence. Several processes
are covered by the proofs of section 4, which hold for any number. Three clients
are a parent, one derived from it and a stranger. Three places are two at home, so
that a same-origin hop is not a self-loop, and one abroad; the redirect limits are the
code's ten and the platform's twenty. Two items and three obligations are enough
for a later round-trip to undo an earlier one. In the adapter two generated ids,
two workflows and two polls (`Timeout` 2, `PollInterval` 1) let a gate, a
replacement of `workflowId` and a decision fall before, between and after each
other; one explicit id is shared by both nodes, and `ApprovalWait` has one generated id
beside it, since temporal checking takes no symmetry. Two sessions and two calls at once let a login and a logout, or the logins
of two clients, cross. In `RequestPath` a portal request is one of the calls under
way; a request without a session shares no state with logins and logouts, so
`MayCall` and `MaySwitch` put it only before the first login, and logins only where
nothing was warned of. Two ids show that a template is one route. Two items show a
redaction of one and not the other. Three lines are an event of several lines and a
blank line that a chunk cuts in two. The AuthZEN bound of 64 is 5, the smallest that
leaves the wire check a bag to look into; bags of ten values meet it from below and
above by both counts, or have no end. The ping's timeout is 4, its probe's cap 2, the minimum 1 (3000, 1000 and 100 ms):
each timer may expire before, at and after the answer, and a clock set by up to 3
leaves more than the budget, less than the minimum, or nothing. Two of four names are
one adapter, one is refused, and there is room for one. Three accepted declarations
are the empty one and two of two capabilities, which differ by type or by version
only, each written in both orders; refused ones have each fault once. Four providers
make two pages of three, four of one or one of five, of which the platform serves
three; two changes may hit any of them. Symmetry is used for sessions, call slots and ids in
`RequestPath` and for nodes (which have one name) and workflows in `WorkflowAdapter`,
runs without liveness.

**Fairness.** `SelfPingStep` (a started ping goes on): `PingEnds` of `TelemetryPing`
shows that the ping's own timers provide it, and the file operations complete or
fail. `HeartbeatLands` states its further assumptions itself: the application keeps
making requests and time passes. `TelemetryPing`: time passes, and a due timer fires
(`Deadline`); neither `/health` nor the checkpoint need answer. `IdentityRedirect`:
every hop is answered, fails or reaches the request's `AbortSignal.timeout`
(`Exchange`): every caller of `_fetch` sets one but `streamExecutionStatus`, whose one
request may wait for ever, so `RedirectsEnd` does not speak of it (`ReadsEnd` does). `waitForApproval` of the adapter: `setTimeout` fires and every status
request has a timeout. `WaitEnds` takes a positive `PollInterval`: the code accepts 0,
and `elapsed += 0` never reaches the timeout. `ClientStep` of `ExecutionStream`: the SDK's own loop goes on
while it has something to read; the server need not write, close or answer, and
`StreamEnds` asks for an end only where the stream is over, broken or aborted.
`ProviderPages`: every page request is answered or times out. `CallsSpec` of `MCCalls`
has these three. Nothing is assumed fair
of a human, the portal, the registry, or the order of answers.

## 4. Proofs

TLAPS proves, for all values of the constants that satisfy the modules' named
assumptions (`PagesAssumption` has it that providers are finitely many, as those of a
platform are):

* **Heartbeat** (`TelemetryProofs`): `TypeOK`; the refinement `CadenceKept`;
  `BackoffSpacing`; `OptOutBoundsTraffic`; and, if there is one process at a time,
  `RecordedCadence`. None of these is inductive. `CadenceInv` adds that a ping
  under way left with nothing recently delivered *by its own process*, which is
  why no stamp of another process can break it. `BackoffInv`: the last check is no
  older than the last start, since suppressed passes only move it later.
  `OptOutInv`: after the one POST no other is about to leave. `StampInv`: what is
  being stamped was delivered after what is recorded and is dated after its
  delivery. The last fails for two processes (an older rename may come second),
  hence the assumption.
* **heartbeatReady** (`TelemetryProofs`): `ReadyMeansFlushed`,
  `PendingUntilUsed`, by `ReadyInv`: a root is settled exactly when one of its
  clients has sent a request, and then has resolved or waits.
* **Ping** (`TelemetryProofs`): type correctness, `BudgetKept`,
  `ProbeNeverCostsThePing`, `DeliveredMeansTaken`, for any timeouts with
  `MinBudget < HealthCap` and `HealthCap + MinBudget <= Timeout`. `BudgetInv` follows
  the armed timer: it ends with the probe's cap while the probe is out, and with the
  budget, but for what the clock was set back, while the POST is. A clock set during
  the POST changes nothing: its timer is armed already. `PingIsTruthful`, for any
  adapter names, any room and any members of `/health`: `TruthInv` says that at any
  time the payload relays just the members the endpoint has said to *this* ping, and
  holds the declared adapters that have fewer than `MaxFeatures` before them; that those
  are as many as there is room for is counted by places in an order (`FirstPlaces`).
* **Redirects** (`IdentityRedirectProofs`): `CredentialsStayHome`,
  `IdentityAsChosen`, by an invariant on the bag the follower copies from (it is that
  of a home hop, always) and `TypeOK`; `DepartsOnlyByReturning`, since what `fetch` would be sending is
  at any time the first request, body and all, or a GET without one (`MirrorInv`).
* **Enforcement point** (`DecisionProofs`): `MaskedStaysMasked`,
  `ErrorMeansBlocked` by a loop invariant, and the refinement `FailsClosed` of
  `FailClosedPEP`, for any number of obligations. `HandshakeImplements` shows that the
  point with its handshake is one without, so that all of these hold of both;
  `OneEnforcementPoint` by an invariant on what was presented so far.
  `CanonicalDeclaration`, for any lists, types and versions: an accepted list sorts
  (`SortingExists`), a sorted sequence is determined by its set, since each element
  stands at the number of those before it (`SortedPlaces`, `SortingUnique`), and two
  capabilities that do not compare are one.
* **AuthZEN** (`DecisionProofs`): type correctness, `SendsWhatWasEstablished`,
  `SecondPassChangesNothing`, for any values and any relation between them, any
  envelope and any bound from five up (the code's is 64; five is the depth of the
  deepest properties bag in an envelope). `CallInv` says what each
  check has established for the next: at the wire check of the first pass `values` is
  `resolveValue(asked)`, and a document that passed it is walked whole
  (`ShallowIsWalked`), so what is within its bags is closed under what values refer to.
  Then `ResolvedSaysTheSame`: the values from which, through known attributes, only
  values of the document are reached hold the bags and refer only to one another, so
  all that was asked is among them. For the second pass, resolving and stripping are
  idempotent (`ResolvedOnce`, `StrippedOnce`), and stripping makes nothing deeper
  (`LessInside`).
* **Portal and requests** (`RequestPathProofs`): `SiblingsApart`, `LogoutHolds`,
  `ReloginTakesEffect`, by `SessionInv`: a login under way has minted for its own
  caller and reopened it. Every step of `RequestPath` is a step of `PortalSession` or
  leaves it alone, which gives `ActsForItsCaller`; `OutcomeTellsTheAnswer` by cases on
  the way a method sends, `WarnedOncePerRoute` by counting announcements beside the
  set of routes; and type correctness.
* **Adapter** (`WorkflowAdapterProofs`): `HeldObeysItsVerdict`, `GateIdsUnique`,
  `TimesOutOnlyOnLateDecisions`, `UndisturbedCompletionMatches`, by `AdapterInv`, for any
  nodes, workflows and explicit ids: generated ids are numbered up to the counter and each
  was asked for by one node under one workflow, so no other workflow knows it
  (`GatedByOneWorkflow`); an undisturbed node's id is the one the counter gives; and a
  decision that a poll has not read was made after it.
* **Tool governance** (`GovernedCallsProofs`): `UsesWhatWasShown` and the refinement
  `ChecksGuardTheTool` of `GuardedRelease`, by `WrapperInv`: at each `await`, how many
  allows and runs lie behind, and that what was shown is the serialisation of what
  was there when it was made, unless it was changed since.
* **protect** (`GovernedCallsProofs`): `SandboxRunsWhenAllowed`,
  `OutageNeverCostsTheCall`, `DuplicateOnlyAfterMisreadError`, by `ProtectInv`.
* **Execution stream** (`LongReadsProofs`): type correctness, `InOrderWithoutGaps`,
  `ReturnsComplete`, for any number of lines. Neither is inductive: the order of what was
  delivered rests on that of what will be. `StreamInv` takes what was delivered, the
  cut events, and buffer and wire (`Text`) one after the other. `OrderInv`: their lines
  ascend throughout. `GapInv`: a line is delivered, unreadable or still to be seen,
  unless the connection broke. `BlankInv`: what a blank line ends is complete, what is
  complete is followed by one, the buffer has none, and with CR LF there is none at
  all. `EndInv`: after a terminal status that was taken nothing is delivered.
* **Provider pages** (`LongReadsProofs`): type correctness, `WalkAccountsForChanges`,
  for any providers, page sizes and number of changes. `WalkInv` follows the
  boundary of the pages answered so far through a registry that shifts under it
  (`Passed`). `RegistryInv`: those of the start keep their order. `AccountInv`: a
  provider has been listed at most once for each registration, and once more if it
  stands before the boundary; if it stands there unlisted, a removal has pulled it.
  `QuietInv`: while nothing changes, what was answered is the registry up to the
  boundary.

Only model-checked: the liveness properties `HeartbeatLands`, `NoHang`, `PingEnds`,
`RedirectsEnd`, `WaitEnds` and `ReadsEnd` (liveness under fairness is outside the
prover's reach). Every invariant and every action property of the runs is proved. No
module has a RECURSIVE operator: loops are actions, and `Below` is a recursive function
of a number, whose existence is `RecursionExists`. Where a proof needs induction it
takes the least counterexample (`LeastNatural`) or shows a set of numbers to be all of
them (`Induction`).

## 5. Where the code and its text disagree

Shown by a run (see "findings" in `PROJECT.json`):

1. `protect` in production, its default mode, executes a call the agent denied: the
   denial is thrown inside the `try` with a message that names AxonFlow (C 925–952).
2. Parallel nodes report completions for each other's step ids (L 341).
3. With explicit step ids a node may run on another workflow's approval: when
   `startWorkflow` replaced `workflowId` and a rerun of the graph gates the same id there,
   `waitForApproval` reads that step (L 465–470).
4. A POST that a redirect turned into a GET becomes a POST again, with its body, at the
   next 307 (C 786). `DepartsOnlyByReturning` states that `_fetch` departs from `fetch` in
   no other way.
5. A tool result that is a text comes back unredacted: the engine answers with
   `redacted_message`, which neither wrapper reads (`governed-tool.ts` 151, L 563).

Met while modelling, not runs of their own:

* Two processes that read the same old stamp both deliver; H 6–7 says at most one
  heartbeat per environment in seven days. `CadenceKept` is per process.
* Without a stamp path a process delivers again after seven days; H 34–37 says once
  per process. After a failure the next attempt is two hours later, not one
  (H 23–24, 290).
* `CREDENTIAL_HEADERS` does not list the portal's `Cookie`, so an identified
  portal request carries it to another origin (R 278, C 5444).
* `fulfillViaCheckInput` accepts a 403 whose body says the redactor ran; its
  comment (C 3560) says a non-200 fails closed.
* A logout that returns after a later login erases its cookie (C 4653), and a login
  whose `Set-Cookie` cannot be read keeps an earlier session (C 4618): hence "the last
  header it could read" in `ReloginTakesEffect`.
* C 785 says that 301 and 302 make any method but GET a GET; the code tests for POST
  (C 789), so that a PUT survives a 301. So it does with `fetch`, which is what
  `DepartsOnlyByReturning` compares with: the comment is wrong, not the code.
* A gate decision that is none of the three, or a missing one, lets the node run
  (L 321), although `checkGate` returns true "if step is allowed" (L 273): `GateAnswers`
  does so, and no property of the adapter speaks of what a first answer permits.
* A completion of a node that was running when `startWorkflow` returned goes to the new
  workflow (L 341): `disturbed` is this exception of `UndisturbedCompletionMatches`.
* `GovernedTool` and the interceptor check a serialisation and use the value: what JSON
  does not show, and what is changed while a check is awaited, is used unchecked.
  `UsesWhatWasShown` states that nothing else is, and so covers neither.
* `waitForApproval` does not poll after its last sleep, so an approval within the
  timeout may be missed: `TimesOutOnlyOnLateDecisions` states that nothing earlier is.
  With a timeout that is no multiple of the interval it
  sleeps past it (L 464–486).
* The deadline of a ping is called monotonic (T 860) and is an instant of `Date.now()`:
  a clock set back during the probe lengthens the ping, one set forward can cancel its
  POST. `BudgetKept` and `ProbeNeverCostsThePing` state by how much.
* `decideAndFulfill` reads its options again for every obligation (C 3548): a caller
  that changes the object meanwhile is two enforcement points, which
  `OneEnforcementPoint` names as its exception.
* `listAllProviders` may skip a provider when an earlier one is removed between two
  pages, and lists one twice when one is registered (C 1582–1594);
  `WalkAccountsForChanges` says when.
* A policy check that times out is not recognised as an outage (C 1072), a
  provider's "fetch failed" is: `OutageNeverCostsTheCall` and
  `DuplicateOnlyAfterMisreadError` state exactly how far that goes.
* `streamExecutionStatus` returns at a terminal status without cancelling the body
  (C 8773–8777), although C 8630 says the stream closes automatically; a stream with
  CRLF line ends is never cut (C 8722); an exception of the callback on a terminal
  status does not end the stream.
* A bag between 64 levels deep and 64 less its own depth in the envelope passes
  `resolveValue` and fails `assertFullyResolved` with an `AuthZENProtocolError`
  instead of the typed refusal `authzen.ts` 461–468 promises; `known(undefined)` is
  dropped without a word; an attribute as a subject's id is a TypeError.
* `updatePlan` reads every 409 as a version conflict, `getPlanStatus` throws a plain
  `Error`, `generatePlan` ignores an inner `success: false`. A 204, or a body without
  its members, gives a TypeError after the platform did the work. `listDecisions`
  neither diagnoses a scoped 404 nor warns of a deprecated route. Routes with an
  interpolated id are remembered one by one, without a bound (C 3889).

## 6. Not modelled

The modules were written in this order: first the state that outlives a call and is
shared (heartbeat, portal, adapter), then calls of several steps (redirects,
enforcement point, tool governance, stream, AuthZEN, `protect`, the ping, the walk
over pages, the handshake), then what all methods share (`RequestPath`).

**Plans and idempotency** are modelled as requests only: the SDK keeps neither a
plan's version nor an idempotency key, and what they mean over several calls is
decided by the platform, which is not in this repository. **The portal's cookie on
redirects** is seen by `IdentityRedirect` among what places abroad receive; no
property is stated of it because `CREDENTIAL_HEADERS` does not list it (section 5).
**Scripts and generators** run once over files at build time.

Left out for good: which field of an answer becomes which, type declarations,
formatting and logging, the classification of endpoints and the community
registration (one request, no state). `config.retry` is normalised (C 611) but read
by no request path, so there is no retry to model.

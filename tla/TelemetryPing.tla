---------------------------- MODULE TelemetryPing ----------------------------
(***************************************************************************)
(* One ping at a time of src/telemetry.ts: the adapters registered so far, *)
(* the health probe of the configured endpoint, the POST to the checkpoint *)
(* and the deadline the two share.  Module Heartbeat says when a ping      *)
(* starts and what becomes of its outcome; here is how it gets one.        *)
(*                                                                         *)
(* Timers run on the time that passes (elapsed).  The deadline is read off *)
(* Date.now(), the wall clock, which may be set while the ping is out      *)
(* (stepped).  The event loop is free: a timer that is due fires before    *)
(* time passes.                                                            *)
(***************************************************************************)
EXTENDS Integers, FiniteSets

CONSTANTS
    Timeout,      \* TELEMETRY_TIMEOUT_MS
    HealthCap,    \* HEALTH_BUDGET_CAP_MS
    MinBudget,    \* MIN_BUDGET_MS
    MaxStep,      \* bound: how far the wall clock is set forward or back
    RawName,      \* what applications pass to registerAdapter
    Normal,       \* trimmed and lowercased, by its place in the alphabet; 0: refused
    MaxFeatures,  \* MAX_FEATURES
    Field         \* the members of /health a ping relays

ASSUME PingAssumption ==
    /\ Timeout \in Nat /\ HealthCap \in Nat /\ MinBudget \in Nat /\ MaxStep \in Nat
    /\ 0 < MinBudget /\ MinBudget < HealthCap /\ HealthCap + MinBudget <= Timeout
    /\ Normal \in [RawName -> Nat]
    /\ MaxFeatures \in Nat

VARIABLES
    registry,  \* adapterRegistry
    endpoint,  \* options.endpoint is not empty
    step,      \* where the ping is
    caller,    \* who reads the outcome: the heartbeat, or nobody (sendTelemetryPing)
    timer,     \* what is left of the armed AbortController timer
    payload,   \* the ping's features and relayed members
    elapsed,   \* time since the deadline was computed
    stepped    \* how far the wall clock was set forward since then

\* What the program does not record, observed to state the properties.
VARIABLES
    declared,  \* the names registered when the ping was built
    said,      \* what the endpoint itself said in a whole 2xx answer to this ping
    stored,    \* the checkpoint has taken the ping's body
    postedAt,  \* elapsed when the POST was due
    skew,      \* stepped when the POST was due
    excuse     \* the checkpoint or the network refused the POST

core == <<registry, endpoint, step, caller, timer, payload, elapsed, stepped>>
observed == <<declared, said, stored, postedAt, skew, excuse>>
pingVars == <<core, observed>>

Usable == {"short", "oversized", "unusable", "absent"}
Relayed == {"own", "other", "bloated", "none"}
InFlight == {"headers", "body", "probed", "posting"}
Ended == {"delivered", "failed"}

PingTypeOK ==
    /\ registry \subseteq {Normal[r] : r \in RawName} \ {0}
    /\ endpoint \in BOOLEAN
    /\ step \in {"idle"} \cup InFlight \cup Ended
    /\ caller \in {"heartbeat", "shim"}
    /\ timer \in 0 .. Timeout + MaxStep
    /\ payload \in [features : SUBSET Nat, relayed : [Field -> Relayed]]
    /\ elapsed \in 0 .. Timeout + MaxStep
    /\ stepped \in -MaxStep .. MaxStep
    /\ declared \subseteq Nat
    /\ said \in [Field -> Usable]
    /\ stored \in BOOLEAN /\ excuse \in BOOLEAN
    /\ postedAt \in 0 .. Timeout + MaxStep
    /\ skew \in -MaxStep .. MaxStep

Least(a, b) == IF a < b THEN a ELSE b
AtLeastZero(n) == IF n < 0 THEN 0 ELSE n
Silence == [f \in Field |-> "absent"]
Unlearned == [f \in Field |-> "none"]

-----------------------------------------------------------------------------
(* The adapter registry. *)

\* registerAdapter: an empty name or one over 64 bytes is refused without a word.
registerAdapter(raw) ==
    /\ Normal[raw] # 0
    /\ registry' = registry \cup {Normal[raw]}
    /\ UNCHANGED <<endpoint, step, caller, timer, payload, elapsed, stepped, observed>>

\* registeredFeatures: sorted, then cut by boundFeatures.
registeredFeatures ==
    {n \in registry : Cardinality({m \in registry : m < n}) < MaxFeatures}

-----------------------------------------------------------------------------
(* The health probe. *)

\* response.ok, under redirect: 'manual' and, as fetch does by default, under 'follow'.
FollowedOk(status) == status \in {"2xx", "3xx"}
HealthOk(status) == status = "2xx"
CheckpointOk(status) == status = "2xx"

\* learned: a non-empty string of at most 64 bytes, or nothing.
learnedOfAnySize(member) ==
    CASE member = "short" -> "own" [] member = "oversized" -> "bloated" [] OTHER -> "none"
learned(member) == IF member = "short" THEN "own" ELSE "none"

\* What is left until the deadline, by the wall clock.
LeftUntilDeadline == AtLeastZero(Timeout - (elapsed + stepped))

\* The payload is built and the deadline taken; a budget of at most MinBudget
\* skips the probe.
Begin(who) ==
    /\ step = "idle"
    /\ caller' = who
    /\ payload' = [features |-> registeredFeatures, relayed |-> Unlearned]
    /\ elapsed' = 0 /\ stepped' = 0
    /\ LET budget == Least(HealthCap, Timeout)
           probes == endpoint /\ budget > MinBudget
       IN  /\ step' = IF probes THEN "headers" ELSE "probed"
           /\ timer' = IF probes THEN budget ELSE 0
    /\ declared' = registry
    /\ said' = Silence /\ stored' = FALSE /\ postedAt' = 0 /\ skew' = 0 /\ excuse' = FALSE
    /\ UNCHANGED <<registry, endpoint>>

sendTelemetryPingNow == Begin("heartbeat")
sendTelemetryPing == Begin("shim")

\* The probe is over, with what it learned; its timer is cleared in finally.
EndProbe(relayed, words) ==
    /\ step' = "probed" /\ timer' = 0
    /\ payload' = [payload EXCEPT !.relayed = relayed]
    /\ said' = words
    /\ UNCHANGED <<registry, endpoint, caller, elapsed, stepped, declared, stored,
                   postedAt, skew, excuse>>

\* The headers arrive.  Only a 2xx is read; what a followed redirect would bring
\* are the words of another place.
HealthRefused(status) ==
    /\ step = "headers" /\ status # "2xx"
    /\ EndProbe([f \in Field |-> IF HealthOk(status) THEN "other" ELSE "none"], Silence)
HealthHeaders ==
    /\ step = "headers" /\ HealthOk("2xx")
    /\ step' = "body"
    /\ UNCHANGED <<registry, endpoint, caller, timer, payload, elapsed, stepped, observed>>

\* The body arrives and is an object; each member is promoted on its own.
HealthBody(members) ==
    /\ step = "body"
    /\ EndProbe([f \in Field |-> learned(members[f])], members)

\* No connection, or no JSON object.
HealthFails ==
    /\ step \in {"headers", "body"}
    /\ EndProbe(Unlearned, Silence)

\* The abort covers the body as well as the headers.
AbortBeforeHeaders ==
    /\ step = "headers" /\ timer = 0
    /\ EndProbe(Unlearned, Silence)
HealthAborted ==
    /\ step \in {"headers", "body"} /\ timer = 0
    /\ EndProbe(Unlearned, Silence)

-----------------------------------------------------------------------------
(* The POST. *)

\* The POST gets all that is left, or is not made.
PostAfterProbe ==
    /\ step = "probed"
    /\ step' = "posting" /\ timer' = Timeout
    /\ postedAt' = elapsed /\ skew' = stepped
    /\ UNCHANGED <<registry, endpoint, caller, payload, elapsed, stepped, declared, said,
                   stored, excuse>>
Post ==
    /\ step = "probed"
    /\ step' = IF LeftUntilDeadline < MinBudget THEN "failed" ELSE "posting"
    /\ timer' = IF LeftUntilDeadline < MinBudget THEN 0 ELSE LeftUntilDeadline
    /\ postedAt' = elapsed /\ skew' = stepped
    /\ UNCHANGED <<registry, endpoint, caller, payload, elapsed, stepped, declared, said,
                   stored, excuse>>

EndPost(outcome, taken, blame) ==
    /\ step' = outcome /\ timer' = 0
    /\ stored' = taken /\ excuse' = blame
    /\ UNCHANGED <<registry, endpoint, caller, payload, elapsed, stepped, declared, said,
                   postedAt, skew>>

\* The checkpoint refuses a body of more than 64 KiB, whoever made it so large.
TooLarge == \E f \in Field : payload.relayed[f] = "bloated"

\* Its answer arrives.  It takes the body with a 2xx only; a redirected POST has none.
CheckpointTakes ==
    /\ step = "posting" /\ ~TooLarge /\ CheckpointOk("2xx")
    /\ EndPost("delivered", TRUE, FALSE)
CheckpointRedirects ==
    /\ step = "posting"
    /\ EndPost(IF CheckpointOk("3xx") THEN "delivered" ELSE "failed", FALSE, TRUE)
CheckpointRefuses ==
    /\ step = "posting"
    /\ EndPost("failed", FALSE, ~TooLarge)

\* The connection fails, before or after the checkpoint has taken the body.
PostLost(taken) ==
    /\ step = "posting" /\ (taken => ~TooLarge)
    /\ EndPost("failed", taken, TRUE)

\* The abort at the deadline, likewise.
PostAborted(taken) ==
    /\ step = "posting" /\ timer = 0 /\ (taken => ~TooLarge)
    /\ EndPost("failed", taken, FALSE)

Settle ==
    /\ step \in Ended /\ step' = "idle"
    /\ UNCHANGED <<registry, endpoint, caller, timer, payload, elapsed, stepped, observed>>

-----------------------------------------------------------------------------
(* Time. *)

TimePasses ==
    /\ step \in {"headers", "body", "posting"} /\ timer > 0
    /\ elapsed' = elapsed + 1 /\ timer' = timer - 1
    /\ UNCHANGED <<registry, endpoint, step, caller, payload, stepped, observed>>

\* The wall clock is set, by hand or by NTP.
ClockStep(by) ==
    /\ step \in InFlight
    /\ stepped + by \in -MaxStep .. MaxStep
    /\ stepped' = stepped + by
    /\ UNCHANGED <<registry, endpoint, step, caller, timer, payload, elapsed, observed>>

PingInit ==
    /\ registry = {} /\ endpoint \in BOOLEAN
    /\ step = "idle" /\ caller = "heartbeat" /\ timer = 0
    /\ payload = [features |-> {}, relayed |-> Unlearned]
    /\ elapsed = 0 /\ stepped = 0
    /\ declared = {} /\ said = Silence /\ stored = FALSE
    /\ postedAt = 0 /\ skew = 0 /\ excuse = FALSE

Probe ==
    \/ \E status \in {"3xx", "other"} : HealthRefused(status)
    \/ HealthHeaders \/ HealthFails
    \/ \E members \in [Field -> Usable] : HealthBody(members)
Delivery ==
    \/ CheckpointTakes \/ CheckpointRedirects \/ CheckpointRefuses
    \/ \E taken \in BOOLEAN : PostLost(taken)
Deadline == HealthAborted \/ Post \/ \E taken \in BOOLEAN : PostAborted(taken)

PingNext ==
    \/ \E raw \in RawName : registerAdapter(raw)
    \/ sendTelemetryPingNow \/ sendTelemetryPing
    \/ Probe \/ Delivery \/ Deadline \/ Settle
    \/ TimePasses \/ \E by \in {-1, 1} : ClockStep(by)

PingSpec == PingInit /\ [][PingNext]_pingVars

\* Time passes and due timers fire; neither the endpoint nor the checkpoint need answer.
PingFairSpec == PingSpec /\ WF_pingVars(TimePasses) /\ WF_pingVars(Deadline)

-----------------------------------------------------------------------------

(***************************************************************************)
(* The probe and the POST together take no longer than the one timeout     *)
(* they share (telemetry.ts:858-866), and what the wall clock was set back *)
(* while the probe was out: the deadline, which the comment there calls    *)
(* monotonic, is an instant of Date.now().                                 *)
(***************************************************************************)
BudgetKept == elapsed <= Timeout + AtLeastZero(-skew)

(***************************************************************************)
(* Whatever /health answers, and however slowly, it does not cost the      *)
(* ping: a POST that fails without the checkpoint's or the network's fault *)
(* had at least what the probe may not use (telemetry.ts:22-27, 36-42),    *)
(* unless the wall clock was set forward.                                  *)
(***************************************************************************)
ProbeNeverCostsThePing ==
    step = "failed" /\ ~excuse /\ skew <= 0 => elapsed - postedAt >= Timeout - HealthCap

(***************************************************************************)
(* A ping counts as delivered, and the stamp advances by it, only if the   *)
(* checkpoint has taken its body (telemetry.ts:294-302).                   *)
(***************************************************************************)
DeliveredMeansTaken == step = "delivered" => stored

(***************************************************************************)
(* What the checkpoint takes tells of the platform what the configured     *)
(* endpoint itself said to this very ping, all of it that is short enough, *)
(* and of the adapters those registered before the ping, the first ones of *)
(* them when they are too many (sendTelemetryPingNow).                     *)
(***************************************************************************)
PingIsTruthful ==
    stored =>
        /\ \A f \in Field : payload.relayed[f] = IF said[f] = "short" THEN "own" ELSE "none"
        /\ payload.features \subseteq declared
        /\ Cardinality(payload.features) = Least(MaxFeatures, Cardinality(declared))
        /\ \A n \in payload.features, m \in declared \ payload.features : n < m

(***************************************************************************)
(* Every ping ends, also where the endpoint or the checkpoint stalls after *)
(* its headers (telemetry.ts:971-977): the fairness Heartbeat assumes of   *)
(* a ping in flight is what these timers provide.                          *)
(***************************************************************************)
PingEnds == step \in InFlight ~> step \in Ended

\* The inductive invariant of the budget: the armed timer ends before the budget does,
\* and nothing that /health said makes the ping too large.
BudgetInv ==
    /\ ~TooLarge
    /\ step \in {"headers", "body"} => elapsed + timer = HealthCap /\ skew = 0
    /\ step = "probed" => elapsed <= HealthCap /\ skew = 0
    /\ step = "posting" => elapsed + timer <= Timeout + AtLeastZero(-skew)
    /\ postedAt <= HealthCap
    /\ step = "posting" /\ skew <= 0 => elapsed + timer - postedAt >= Timeout - HealthCap
    /\ BudgetKept
    /\ ProbeNeverCostsThePing
=============================================================================

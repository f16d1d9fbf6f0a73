------------------------------- MODULE AuthZen -------------------------------
(***************************************************************************)
(* The AuthZEN client: evaluate and evaluateAll (src/client.ts) and what   *)
(* they are made of in src/authzen.ts: the tri-state attributes of a       *)
(* request are resolved, the envelope is checked, sent to the policy       *)
(* decision point, and the answer is read.  toWire stops before sending.   *)
(*                                                                         *)
(* evaluate and evaluateAll go over their envelope twice: buildEnvelope,   *)
(* and evaluateEnvelope again over what that returned.                     *)
(***************************************************************************)
EXTENDS Naturals, Sequences, FiniteSets

CONSTANTS
    Node,                 \* the values that attribute bags are made of, and the bags
    KindOf,               \* what each of them is, see Kind
    Questions,            \* what applications ask: envelopes, and what is inside the values
    MAX_ATTRIBUTE_DEPTH   \* 64 in the code

VARIABLES
    stage,     \* where the call is
    call,      \* "evaluate", "evaluateAll" or "toWire"
    pass,      \* which of the two passes
    envelope,  \* the envelope
    values,    \* what is inside the values of its bags as it stands, in the end what is sent
    reply,     \* what the decision point answered
    outcome,   \* what the caller gets
    asked,     \* observed: what the application put inside them
    built      \* observed: what the first pass left there

evalVars == <<stage, call, pass, envelope, values, reply, outcome, asked, built>>

(***************************************************************************)
(* A value in a bag is a JSON value without parts, undefined, an object, a *)
(* list, or an attribute, which is known, absent or unknown (and so is one *)
(* whose state this build does not know).  Values refer to those inside    *)
(* them, objects to the values of their members, and may refer to          *)
(* themselves; keys and the order of lists are left out.                   *)
(***************************************************************************)
Container == {"object", "list"}
Attribute == {"known", "absent", "unknown"}
Kind == Container \cup Attribute \cup {"value", "undefined"}

Inside == {h \in [Node -> SUBSET Node] : \A n \in Node :
               /\ KindOf[n] = "known" => \E m \in Node : h[n] = {m}
               /\ KindOf[n] \notin Container \cup {"known"} => h[n] = {}}
Bag == {n \in Node : KindOf[n] = "object"}

(***************************************************************************)
(* A request names its subject, action and resource, or leaves them to the *)
(* shared base; a subject's id may be blank, and an attribute may have     *)
(* been put where only a name belongs.  It may have a context, and each of *)
(* the three may have properties.  An envelope maps its places to          *)
(* requests: the single Evaluation, the shared Base of several entries,    *)
(* and behind it the entries.                                              *)
(***************************************************************************)
Request == [subject : {"none", "blank", "named"}, action : {"none", "named", "attribute"},
            resource : {"none", "named"}, context : {{}} \cup {{b} : b \in Bag},
            properties : SUBSET Bag]
Bags(r) == r.context \cup r.properties
Evaluation == 0
Base == 1
Entries(e) == {p \in DOMAIN e : p > Base}

ASSUME NodeAssumption == KindOf \in [Node -> Kind]
ASSUME QuestionsAssumption ==
    \A q \in Questions :
        /\ q.inside \in Inside
        /\ DOMAIN q.envelope \subseteq Nat /\ \A p \in DOMAIN q.envelope : q.envelope[p] \in Request
        /\ Entries(q.envelope) # {} => Base \in DOMAIN q.envelope
ASSUME DepthAssumption == MAX_ATTRIBUTE_DEPTH \in Nat /\ MAX_ATTRIBUTE_DEPTH >= 5

\* How deep the bags of a place are in the document: properties is one level below
\* context, inside a resource.
ContextDepth(p) == IF p > Base THEN 4 ELSE 2

-----------------------------------------------------------------------------
(* Attributes. *)

\* The values that are k levels below those of S; the walkers stop at MAX_ATTRIBUTE_DEPTH.
Below(h, S) ==
    LET level[k \in Nat] == IF k = 0 THEN S ELSE UNION {h[n] : n \in level[k - 1]}
    IN  level
Within(h, S) == UNION {Below(h, S)[k] : k \in 0 .. MAX_ATTRIBUTE_DEPTH}

\* The bound has cut nothing off: S has an end, and all of it was seen.
Walked(h, S) == Below(h, S)[MAX_ATTRIBUTE_DEPTH + 1] = {}

Unresolvable(h, S) == ~Walked(h, S) \/ \E n \in Within(h, S) : KindOf[n] = "unknown"

\* Known attributes stand for what they hold.
Behind(h, S) == Within([n \in Node |-> IF KindOf[n] = "known" THEN h[n] ELSE {}], S)
Resolved(h, n) == {m \in Behind(h, h[n]) : KindOf[m] \notin {"known", "absent"}}

(***************************************************************************)
(* resolveValue, on every value: an object or a list gets what its known   *)
(* attributes hold in their place, and loses the absent ones (DROP).       *)
(***************************************************************************)
resolveCascading(h) ==
    [n \in Node |-> IF KindOf[n] \in Container
                    THEN {m \in Resolved(h, n) : ~(KindOf[m] = "object" /\ h[m] = {})}
                    ELSE h[n]]
resolveValue(h) ==
    [n \in Node |-> IF KindOf[n] \in Container THEN Resolved(h, n) ELSE h[n]]

\* Members that are undefined go; items of a list stay (JSON makes them null).
stripUndefined(h) ==
    [n \in Node |-> IF KindOf[n] = "object" THEN {m \in h[n] : KindOf[m] # "undefined"}
                    ELSE h[n]]

-----------------------------------------------------------------------------
(* The outcome names who ended the call: the client, the gateway (with a     *)
(* code), or nobody, if what came back says neither.                         *)

NoOutcome == [kind |-> "none", code |-> "none", allowed |-> FALSE]
Refusal(by, code) == [kind |-> by, code |-> code, allowed |-> FALSE]
Error(kind) == [kind |-> kind, code |-> "none", allowed |-> FALSE]

Codes == {"malformed_envelope", "incomplete_evaluation", "unevaluable_attribute",
          "evaluation_unavailable"}

End(o) == /\ stage' = "done" /\ outcome' = o
          /\ UNCHANGED <<call, pass, envelope, values, reply, asked, built>>
GoOn(to) == /\ stage' = to
            /\ UNCHANGED <<call, pass, envelope, values, reply, outcome, asked, built>>

-----------------------------------------------------------------------------
(* Before the request is sent. *)

NothingInside == [n \in Node |-> {}]
NoEnvelope == <<>>

EvalInit ==
    /\ stage = "idle" /\ call = "evaluate" /\ pass = 1
    /\ envelope = NoEnvelope /\ values = NothingInside
    /\ reply = NoOutcome /\ outcome = NoOutcome
    /\ asked = NothingInside /\ built = NothingInside

\* evaluate passes a single evaluation, evaluateAll a bulk, toWire whatever it got.
Ask(c, q) ==
    /\ stage = "idle"
    /\ c = "evaluate" => DOMAIN q.envelope = {Evaluation}
    /\ c = "evaluateAll" => Base \in DOMAIN q.envelope /\ Evaluation \notin DOMAIN q.envelope
    /\ stage' = "resolving" /\ call' = c /\ pass' = 1 /\ envelope' = q.envelope
    /\ values' = q.inside /\ asked' = q.inside /\ built' = NothingInside
    /\ reply' = NoOutcome /\ outcome' = NoOutcome

Unestablished(e, h) == \E p \in DOMAIN e : Unresolvable(h, Bags(e[p]))

RefuseAttribute ==
    /\ stage = "resolving" /\ Unestablished(envelope, values)
    /\ End(Refusal("clientRefusal", "unevaluable_attribute"))
RefuseEmptyEnvelope ==
    /\ stage = "resolving" /\ DOMAIN envelope = {}
    /\ End(Refusal("clientRefusal", "malformed_envelope"))
resolveEnvelope ==
    /\ stage = "resolving" /\ ~Unestablished(envelope, values) /\ DOMAIN envelope # {}
    /\ values' = resolveValue(values)
    /\ stage' = "checking" /\ UNCHANGED <<call, pass, envelope, reply, outcome, asked, built>>

\* What an entry does not name it takes from the base.
MissingIn(r, base) == \E m \in {"subject", "action", "resource"} :
                          r[m] = "none" /\ base[m] = "none"
BlankIn(r, base) == r.subject = "blank" \/ (r.subject = "none" /\ base.subject = "blank")
Nothing == [subject |-> "none", action |-> "none", resource |-> "none",
            context |-> {}, properties |-> {}]

checkComplete(e) ==
    IF Evaluation \in DOMAIN e
    THEN MissingIn(e[Evaluation], Nothing) \/ BlankIn(e[Evaluation], Nothing)
    ELSE \E p \in Entries(e) : MissingIn(e[p], e[Base]) \/ BlankIn(e[p], e[Base])

\* An envelope with both members is not asked whether it is complete.
Both(e) == {Evaluation, Base} \subseteq DOMAIN e

RefuseIncomplete ==
    /\ stage = "checking" /\ ~Both(envelope) /\ checkComplete(envelope)
    /\ End(Refusal("clientRefusal", "incomplete_evaluation"))
checkEnvelopeComplete ==
    /\ stage = "checking" /\ (~Both(envelope) => ~checkComplete(envelope))
    /\ GoOn("asserting")

TooDeep(e, h) == \E p \in DOMAIN e :
    LET deepest == MAX_ATTRIBUTE_DEPTH - ContextDepth(p)
    IN  \/ Below(h, e[p].context)[deepest + 1] # {}
        \/ Below(h, e[p].properties)[deepest] # {}
HoldsAttribute(h, S) == \E n \in Within(h, S) : KindOf[n] \in Attribute
AttributeLeft(e, h) == \E p \in DOMAIN e :
    e[p].action = "attribute" \/ HoldsAttribute(h, Bags(e[p]))

AssertionFails ==
    /\ stage = "asserting" /\ (TooDeep(envelope, values) \/ AttributeLeft(envelope, values))
    /\ End(Error("protocolError"))
assertFullyResolved ==
    /\ stage = "asserting"
    /\ ~TooDeep(envelope, values) /\ ~AttributeLeft(envelope, values)
    /\ GoOn("validating")

\* The schema: exactly one member, an evaluation that names all three, a bulk with
\* entries.  (That an evaluation names all three was checked before.)
FitsSchema(e) == ~Both(e) /\ (Base \in DOMAIN e => Entries(e) # {})

RefuseMalformed ==
    /\ stage = "validating" /\ ~FitsSchema(envelope)
    /\ End(Refusal("clientRefusal", "malformed_envelope"))
validateEnvelopeOrRefuse ==
    /\ stage = "validating" /\ FitsSchema(envelope)
    /\ values' = stripUndefined(values)
    /\ \/ pass = 1 /\ call # "toWire" /\ pass' = 2 /\ stage' = "resolving"
          /\ outcome' = outcome
       \/ pass = 2 /\ pass' = 2 /\ stage' = "sent" /\ outcome' = outcome
       \/ call = "toWire" /\ pass' = 1 /\ stage' = "done" /\ outcome' = Error("document")
    /\ built' = IF pass = 1 THEN values' ELSE built
    /\ UNCHANGED <<call, envelope, reply, asked>>

-----------------------------------------------------------------------------
(* The answer. *)

(***************************************************************************)
(* The body of an answer is a typed refusal, a decision, or neither: not   *)
(* JSON, or with a member the schema does not know.  A decision has a      *)
(* boolean and may have a context.                                         *)
(***************************************************************************)
States == {"ALLOW", "DENY", "CHALLENGE", "ERROR"}
Context == [profile : {"v1", "other"}, state : States \cup {"unheardOf"}, obliges : BOOLEAN]
Body == [is : {"unreadable"}] \cup [is : {"refusal"}, code : Codes]
        \cup [is : {"decision"}, decision : BOOLEAN, context : {<<>>} \cup {<<c>> : c \in Context}]
Reply == [status : {"200", "401", "other"}, body : Body]

Answer(r) ==
    /\ stage = "sent" /\ r \in Reply
    /\ stage' = "answered" /\ reply' = r
    /\ UNCHANGED <<call, pass, envelope, values, outcome, asked, built>>
NoAnswer == stage = "sent" /\ End(Error("error"))

RefuseCredentials == stage = "answered" /\ reply.status = "401" /\ End(Error("authenticationError"))

decodeRefusal ==
    /\ stage = "answered" /\ reply.status = "other"
    /\ \/ /\ reply.body.is = "refusal"
          /\ End(Refusal("gatewayRefusal", reply.body.code))
       \/ /\ reply.body.is # "refusal"
          /\ End(Error("error"))

validateDecision(b) ==
    LET c == b.context[1]
    IN  /\ c.profile = "v1" /\ c.state \in States
        /\ b.decision = (c.state = "ALLOW")
        /\ c.state # "ALLOW" => ~c.obliges

Interpretable(b) == b.is = "decision" /\ b.context # <<>> /\ validateDecision(b)
allowed(b) == b.decision /\ b.context # <<>> /\ b.context[1].state = "ALLOW"

Uninterpretable ==
    /\ stage = "answered" /\ reply.status = "200" /\ ~Interpretable(reply.body)
    /\ End(Error("protocolError"))
Decision ==
    /\ stage = "answered" /\ reply.status = "200" /\ Interpretable(reply.body)
    /\ End([kind |-> "decision", code |-> "none", allowed |-> allowed(reply.body)])

Forget ==
    /\ stage = "done" /\ stage' = "idle" /\ call' = "evaluate" /\ pass' = 1
    /\ envelope' = NoEnvelope /\ values' = NothingInside
    /\ asked' = NothingInside /\ built' = NothingInside
    /\ reply' = NoOutcome /\ outcome' = NoOutcome

EvalNext ==
    \/ \E c \in {"evaluate", "evaluateAll", "toWire"}, q \in Questions : Ask(c, q)
    \/ RefuseAttribute \/ RefuseEmptyEnvelope \/ resolveEnvelope
    \/ RefuseIncomplete \/ checkEnvelopeComplete
    \/ AssertionFails \/ assertFullyResolved
    \/ RefuseMalformed \/ validateEnvelopeOrRefuse
    \/ \E r \in Reply : Answer(r)
    \/ NoAnswer \/ RefuseCredentials \/ decodeRefusal \/ Uninterpretable \/ Decision
    \/ Forget

EvalSpec == EvalInit /\ [][EvalNext]_evalVars

-----------------------------------------------------------------------------
(* What the surface promises. *)

EvalTypeOK ==
    /\ stage \in {"idle", "resolving", "checking", "asserting", "validating", "sent",
                  "answered", "done"}
    /\ call \in {"evaluate", "evaluateAll", "toWire"} /\ pass \in 1 .. 2
    /\ \A p \in DOMAIN envelope : envelope[p] \in Request
    /\ \A h \in {values, asked, built} : h \in [Node -> SUBSET Node]
    /\ reply \in Reply \cup {NoOutcome}
    /\ outcome.kind \in {"none", "clientRefusal", "gatewayRefusal", "protocolError",
                         "authenticationError", "error", "document", "decision"}
    /\ outcome.code \in Codes <=> outcome.kind \in {"clientRefusal", "gatewayRefusal"}
    /\ outcome.allowed => outcome.kind = "decision"

Sent == stage \in {"sent", "answered"} \/ outcome.kind = "document"

\* What a bag says: the values in it, and the objects and lists they are in.
Said(h, S) == {n \in Within(h, S) : KindOf[n] \in Container \cup {"value"}}

(***************************************************************************)
(* A document on the wire says what was established and nothing else: no   *)
(* unknown attribute was behind it at any depth, no attribute is left in   *)
(* it, no value is lost or invented, what the bound kept a walker from     *)
(* seeing is not sent, and absence does not cascade: every object and list *)
(* of the application is there (authzen.ts, resolveValue).                 *)
(***************************************************************************)
SendsWhatWasEstablished ==
    Sent => \A p \in DOMAIN envelope :
                LET bags == Bags(envelope[p])
                IN  /\ Walked(asked, bags) /\ Walked(values, bags)
                    /\ \A n \in Within(asked, bags) : KindOf[n] # "unknown"
                    /\ ~HoldsAttribute(values, bags)
                    /\ Said(values, bags) = Said(asked, bags)

(***************************************************************************)
(* toWire shows the document that is sent: the second pass, over a         *)
(* document that is already resolved, refuses nothing and changes nothing  *)
(* (authzen.ts, buildEnvelope and evaluateEnvelope).                       *)
(***************************************************************************)
SecondPassChangesNothing ==
    pass = 2 => /\ outcome.kind # "clientRefusal"
                /\ outcome.kind = "protocolError" => reply # NoOutcome
                /\ values = built
=============================================================================

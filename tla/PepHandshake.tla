---------------------------- MODULE PepHandshake -----------------------------
(***************************************************************************)
(* The capability handshake (src/pep-handshake.ts) on the calls of the     *)
(* enforcement point: what a declaration is made into, and which one       *)
(* decide and every engine round-trip of the same call present, while the  *)
(* caller, who holds the options object, may put another one in it.        *)
(*                                                                         *)
(* Identifiers and the base64 of the document are left out: a header is    *)
(* its capabilities in the order they are encoded in.  An option that is   *)
(* no PEPHandshake is a TypeError of the call and is left out too.         *)
(***************************************************************************)
EXTENDS DecideFulfill, SequencesExt

CONSTANTS
    Written,          \* the capability lists applications write, see Entry
    ObligationTypes,  \* OBLIGATION_TYPES, by their place in the alphabet
    MaxCapabilities   \* MAX_PEP_HANDSHAKE_CAPABILITIES

\* An entry has a type (0: none this build knows) and a version; it may also be no
\* object, or have a member besides the two.
Entry == [exact : BOOLEAN, type : Nat, version : Int]

ASSUME HandshakeAssumption ==
    /\ \A w \in Written : w \in Seq(Entry)
    /\ ObligationTypes \subseteq Nat \ {0}
    /\ MaxCapabilities \in Nat

\* No header; no declaration names type 0.
Undeclared == <<<<0, 0>>>>

VARIABLES
    ours,       \* config.pepHandshake, shared by the clients derived with asUser
    theirs,     \* options.pepHandshake of the call in progress
    presented,  \* observed: what the requests of this call presented
    changed     \* observed: the caller changed the options during the call

handshakeVars == <<ours, theirs, presented, changed>>

-----------------------------------------------------------------------------
(* new PEPHandshake. *)

Capability(e) == <<e.type, e.version>>
Readable(e) == e.exact /\ e.type \in ObligationTypes /\ e.version > 0

\* Any fault refuses the declaration as a whole.
Accepted(w) ==
    /\ Len(w) <= MaxCapabilities
    /\ \A i \in DOMAIN w : Readable(w[i])
    /\ \A i, j \in DOMAIN w : Capability(w[i]) = Capability(w[j]) => i = j

BeforeByType(a, b) == a[1] < b[1]
Before(a, b) == a[1] < b[1] \/ (a[1] = b[1] /\ a[2] < b[2])

\* out.sort, which keeps entries apart that do not compare in the order they came in.
canonicalCapabilities(w) ==
    LET Sooner(i, j) == \/ Before(Capability(w[i]), Capability(w[j]))
                        \/ ~Before(Capability(w[j]), Capability(w[i])) /\ i < j
        order == CHOOSE f \in [DOMAIN w -> DOMAIN w] :
                     \A i, j \in DOMAIN w : i < j => Sooner(f[i], f[j])
    IN  [i \in DOMAIN w |-> Capability(w[order[i]])]

PEPHandshakes == [w \in {v \in Written : Accepted(v)} |-> canonicalCapabilities(w)]
Options == Range(PEPHandshakes) \cup {Undeclared}

-----------------------------------------------------------------------------
(* pepHandshakeHeaders, on the requests that read the header. *)

ClientsOwn == ours
pepHandshakeHeaders == IF theirs = Undeclared THEN ours ELSE theirs

Present == presented' = presented \cup {pepHandshakeHeaders} /\ UNCHANGED <<ours, theirs, changed>>

\* decideAndFulfill, or decide with options of its own.
CallWith(c, option) ==
    /\ StartCall(c)
    /\ theirs' = option /\ changed' = FALSE
    /\ presented' = {IF option = Undeclared THEN ours ELSE option}
    /\ UNCHANGED ours

\* A branching caller passes fulfillRequest options of its own.
FulfilWith(option) ==
    /\ Fulfil
    /\ theirs' = IF caller = "branching" THEN option ELSE theirs
    /\ presented' = IF caller = "branching" THEN {} ELSE presented
    /\ UNCHANGED <<ours, changed>>

\* options?.pepHandshake is read again for every obligation.
RoundTripOfTheClient ==
    /\ CallEngine
    /\ presented' = presented \cup {ClientsOwn} /\ UNCHANGED <<ours, theirs, changed>>
RoundTrip == CallEngine /\ Present

OptionsChanged(option) ==
    /\ pc \in {"deciding", "checking"} /\ option # theirs
    /\ theirs' = option /\ changed' = TRUE
    /\ UNCHANGED <<vars, ours, presented>>

HandshakeInit ==
    /\ Init
    /\ ours \in Options /\ theirs = Undeclared /\ presented = {} /\ changed = FALSE

Elsewhere ==
    \/ \E e \in {"AuthenticationError", "APIError", "Transport"} : DecideRefused(e)
    \/ \E v \in Verdict, obs \in ObligationSeqs : Decided(v, obs)
    \/ ForwardQuery \/ SkipOther \/ RefuseObligation \/ EngineFails \/ EngineUnusable
    \/ \E hidden \in SUBSET Item : EngineRedacts(hidden)
    \/ ForwardContent \/ Finish

HandshakeNext ==
    \/ \E c \in Callers, option \in Options : CallWith(c, option)
    \/ \E option \in Options : FulfilWith(option) \/ OptionsChanged(option)
    \/ RoundTrip
    \/ Elsewhere /\ UNCHANGED handshakeVars

HandshakeSpec == HandshakeInit /\ [][HandshakeNext]_<<vars, handshakeVars>>

-----------------------------------------------------------------------------

(***************************************************************************)
(* decideAndFulfill presents one declaration on decide and on every engine *)
(* round-trip alike (client.ts:3610-3611), the call's own where it has one *)
(* and the client's otherwise, unless its caller changes the options while *)
(* it is under way; and so does one fulfillRequest.                        *)
(***************************************************************************)
OneEnforcementPoint ==
    ~changed =>
        /\ Cardinality(presented) <= 1
        /\ theirs # Undeclared => presented \subseteq {theirs}

(***************************************************************************)
(* The header a client presents stands for a set: every accepted list of   *)
(* the same capabilities, in whatever order they were written, is sent as  *)
(* that header, and no other list is (pep-handshake.ts:136-137).  It       *)
(* repeats nothing and is no longer than the platform takes.               *)
(***************************************************************************)
CanonicalDeclaration ==
    ours # Undeclared =>
        LET Declared(w) == {Capability(w[i]) : i \in DOMAIN w}
        IN  /\ Cardinality(ToSet(ours)) = Len(ours) /\ Len(ours) <= MaxCapabilities
            /\ \A w \in DOMAIN PEPHandshakes :
                  Declared(w) = ToSet(ours) <=> PEPHandshakes[w] = ours
=============================================================================

--------------------------- MODULE DecisionProofs ----------------------------
(***************************************************************************)
(* The two surfaces that ask for a decision.  The enforcement point of     *)
(* Decision Mode is fail closed for any items, any number of obligations   *)
(* per verdict, and callers of either kind, and it is one enforcement      *)
(* point for any declarations.  The AuthZEN client sends what was          *)
(* established, for any values in any envelope.                            *)
(***************************************************************************)
EXTENDS PepHandshake, AuthZen, OrderLemmas

(***************************************************************************)
(* What the loop of fulfillRequest knows: how many obligations there are,  *)
(* that the engine is called for a redaction and nothing else, and that    *)
(* the statement it is called with hides what was masked before.           *)
(***************************************************************************)
LoopInv ==
    /\ TypeOK
    /\ Len(obligations) <= MaxObligations
    /\ pc \in {"deciding", "permitted"} => next = 1
    /\ pc = "checking" => next <= Len(obligations) /\ obligations[next] = "redact"
    /\ redacted \cap masked = {}
    /\ raised # "none" => pc \in {"blocked", "idle"}
    /\ pc \in {"permitted", "fulfilling", "checking", "forwarded"} => verdict = "allow"

LEMMA VerdictObligations ==
    ASSUME NEW obs \in ObligationSeqs
    PROVE  obs \in Seq(Obligation) /\ Len(obs) <= MaxObligations
<1>1. PICK n \in 0 .. MaxObligations : obs \in [1 .. n -> Obligation]
  BY DEF ObligationSeqs
<1>2. n \in Nat /\ n <= MaxObligations
  BY PEPAssumption DEF PEPAssumption
<1>3. obs \in Seq(Obligation) /\ Len(obs) = n
  BY <1>1, <1>2
<1>. QED
  BY <1>2, <1>3

LEMMA LoopInvariant == Spec => []LoopInv
<1>1. Init => LoopInv
  BY PEPAssumption DEF Init, LoopInv, TypeOK, PEPAssumption, Errors
<1>2. LoopInv /\ [Next]_vars => LoopInv'
  <2>. SUFFICES ASSUME LoopInv, [Next]_vars PROVE LoopInv'
    OBVIOUS
  <2>. USE DEF LoopInv, TypeOK, Errors
  <2>1. CASE UNCHANGED vars
    BY <2>1 DEF vars
  <2>2. ASSUME NEW c \in Callers, StartCall(c) PROVE LoopInv'
    BY <2>2, PEPAssumption DEF StartCall, PEPAssumption
  <2>3. ASSUME NEW e \in {"AuthenticationError", "APIError", "Transport"}, DecideRefused(e)
        PROVE LoopInv'
    BY <2>3 DEF DecideRefused
  <2>4. ASSUME NEW v \in Verdict, NEW obs \in ObligationSeqs, Decided(v, obs) PROVE LoopInv'
    <3>1. obs \in Seq(Obligation) /\ Len(obs) <= MaxObligations
      BY VerdictObligations
    <3>. QED
      BY <2>4, <3>1 DEF Decided, Permits
  <2>5. CASE Fulfil
    BY <2>5 DEF Fulfil
  <2>6. CASE ForwardQuery
    BY <2>6 DEF ForwardQuery
  <2>7. CASE SkipOther
    BY <2>7 DEF SkipOther, AtObligation
  <2>8. CASE RefuseObligation
    BY <2>8 DEF RefuseObligation
  <2>9. CASE CallEngine
    BY <2>9 DEF CallEngine, AtObligation, Obligation, Unfulfillable
  <2>10. CASE EngineFails
    BY <2>10 DEF EngineFails
  <2>11. CASE EngineUnusable
    BY <2>11 DEF EngineUnusable
  <2>12. ASSUME NEW hidden \in SUBSET Item, EngineRedacts(hidden)
         PROVE LoopInv'
    BY <2>12 DEF EngineRedacts
  <2>13. CASE ForwardContent
    BY <2>13 DEF ForwardContent
  <2>14. CASE Finish
    BY <2>14 DEF Finish
  <2>. QED
    BY <2>1, <2>2, <2>3, <2>4, <2>5, <2>6, <2>7, <2>8, <2>9, <2>10, <2>11, <2>12,
       <2>13, <2>14 DEF Next
<1>. QED
  BY <1>1, <1>2, PTL DEF Spec

(***************************************************************************)
(* The type invariant of the enforcement point, for any items.             *)
(***************************************************************************)
THEOREM EnforcementTypes == Spec => []TypeOK
<1>1. LoopInv => TypeOK
  BY DEF LoopInv
<1>. QED
  BY <1>1, LoopInvariant, PTL

(***************************************************************************)
(* What one engine round-trip masked stays masked in what is forwarded,    *)
(* however many obligations the verdict chains (fulfillRequest).           *)
(***************************************************************************)
THEOREM ChainedRedaction == Spec => []MaskedStaysMasked
<1>1. LoopInv => MaskedStaysMasked
  BY DEF LoopInv, MaskedStaysMasked
<1>. QED
  BY <1>1, LoopInvariant, PTL

(***************************************************************************)
(* A call that raised never forwards, and only an allow is forwarded       *)
(* (decide, decideAndFulfill).                                             *)
(***************************************************************************)
THEOREM ErrorsBlock == Spec => []ErrorMeansBlocked
<1>1. LoopInv => ErrorMeansBlocked
  BY DEF LoopInv, ErrorMeansBlocked
<1>. QED
  BY <1>1, LoopInvariant, PTL

(***************************************************************************)
(* The client implements FailClosedPEP: content leaves only when every     *)
(* owed redaction was discharged by an engine that ran.                    *)
(***************************************************************************)
THEOREM FailClosed == Spec => FailsClosed
<1>. USE DEF PEP!vars
<1>1. Init => PEP!Init
  BY DEF Init, PEP!Init, Outcome, Owed
<1>2. LoopInv /\ [Next]_vars => [PEP!Next]_(PEP!vars)
  <2>. SUFFICES ASSUME LoopInv, [Next]_vars PROVE PEP!Next \/ UNCHANGED <<Outcome, Owed, confirmed>>
    OBVIOUS
  <2>. USE DEF LoopInv, TypeOK, Outcome
  <2>1. CASE UNCHANGED vars
    BY <2>1 DEF vars, Owed, Owes
  <2>2. ASSUME NEW c \in Callers, StartCall(c) PROVE UNCHANGED <<Outcome, Owed, confirmed>>
    BY <2>2 DEF StartCall, Owed
  <2>3. ASSUME NEW e \in {"AuthenticationError", "APIError", "Transport"}, DecideRefused(e)
        PROVE PEP!Block
    BY <2>3 DEF DecideRefused, PEP!Block, Owed
  <2>4. ASSUME NEW v \in Verdict, NEW obs \in ObligationSeqs, Decided(v, obs) PROVE PEP!Next
    <3>1. CASE pc' = "blocked"
      <4>1. PEP!Block
        BY <2>4, <3>1 DEF Decided, PEP!Block, Owed
      <4>. QED
        BY <4>1 DEF PEP!Next
    <3>2. CASE pc' = "permitted"
      <4>1. Len(obs) <= MaxObligations /\ Len(obs) \in Nat
        BY VerdictObligations
      <4>2. Owed' \in SUBSET (1 .. MaxObligations)
        BY <2>4, <4>1, PEPAssumption DEF Decided, Owed, PEPAssumption
      <4>3. PEP!Permit(Owed')
        BY <2>4, <3>2 DEF Decided, PEP!Permit
      <4>. QED
        BY <4>2, <4>3 DEF PEP!Next
    <3>. QED
      BY <2>4, <3>1, <3>2 DEF Decided
  <2>5. CASE Fulfil
    BY <2>5 DEF Fulfil, Owed, Owes
  <2>6. CASE ForwardQuery
    <3>1. Owed = {}
      BY <2>6 DEF ForwardQuery, Owed, Owes, hasRequestRedaction
    <3>2. PEP!Forward
      BY <2>6, <3>1 DEF ForwardQuery, PEP!Forward, Owed
    <3>. QED
      BY <3>2 DEF PEP!Next
  <2>7. CASE SkipOther
    <3>1. \A i \in 1 .. Len(obligations) :
            i >= next /\ Owes(obligations[i]) <=> i >= next + 1 /\ Owes(obligations[i])
      BY <2>7 DEF SkipOther, AtObligation, Owes, RequestRedaction
    <3>2. Owed' = Owed
      BY <2>7, <3>1 DEF SkipOther, AtObligation, Owed, Owes
    <3>. QED
      BY <2>7, <3>2 DEF SkipOther, AtObligation
  <2>8. CASE RefuseObligation
    <3>1. PEP!Block
      BY <2>8 DEF RefuseObligation, AtObligation, PEP!Block, Owed
    <3>. QED
      BY <3>1 DEF PEP!Next
  <2>9. CASE CallEngine
    BY <2>9 DEF CallEngine, AtObligation, Owed, Owes
  <2>10. CASE EngineFails
    <3>1. PEP!Block
      BY <2>10 DEF EngineFails, PEP!Block, Owed
    <3>. QED
      BY <3>1 DEF PEP!Next
  <2>11. ASSUME EngineUnusable PROVE PEP!Block
    BY <2>11 DEF EngineUnusable, PEP!Block, Owed
  <2>12. ASSUME NEW hidden \in SUBSET Item, EngineRedacts(hidden)
         PROVE PEP!Next
    <3>1. Owes("redact")
      BY DEF Owes, RequestRedaction
    <3>2. next \in Owed
      BY <2>12, <3>1 DEF EngineRedacts, Owed
    <3>3. Owed' = Owed \ {next}
      BY <2>12 DEF EngineRedacts, Owed, Owes
    <3>4. PEP!Discharge(next)
      BY <2>12, <3>2, <3>3 DEF EngineRedacts, PEP!Discharge
    <3>. QED
      BY <3>2, <3>4 DEF PEP!Next
  <2>13. CASE ForwardContent
    <3>1. Owed = {}
      BY <2>13 DEF ForwardContent, Owed
    <3>2. PEP!Forward
      BY <2>13, <3>1 DEF ForwardContent, PEP!Forward, Owed
    <3>. QED
      BY <3>2 DEF PEP!Next
  <2>14. CASE Finish
    <3>1. PEP!NextRequest
      BY <2>14 DEF Finish, PEP!NextRequest, Owed
    <3>. QED
      BY <3>1 DEF PEP!Next
  <2>. QED
    BY <2>1, <2>2, <2>3, <2>4, <2>5, <2>6, <2>7, <2>8, <2>9, <2>10, <2>11, <2>12,
       <2>13, <2>14 DEF Next, PEP!Next
<1>. QED
  BY <1>1, <1>2, LoopInvariant, PTL DEF Spec, FailsClosed, PEP!Spec

-----------------------------------------------------------------------------
(* With the handshake. *)

\* The handshake adds headers to the calls and changes nothing of them.
LEMMA HandshakeSteps ==
    HandshakeNext => Next \/ UNCHANGED vars
<1>. SUFFICES ASSUME HandshakeNext PROVE Next \/ UNCHANGED vars
  OBVIOUS
<1>1. ASSUME NEW c \in Callers, NEW option \in Options, CallWith(c, option) PROVE Next
  BY <1>1 DEF CallWith, Next
<1>2. ASSUME NEW option \in Options, FulfilWith(option) \/ OptionsChanged(option)
      PROVE  Next \/ UNCHANGED vars
  BY <1>2 DEF FulfilWith, OptionsChanged, Next
<1>3. CASE RoundTrip
  BY <1>3 DEF RoundTrip, Next
<1>4. CASE Elsewhere
  BY <1>4 DEF Elsewhere, Next
<1>. QED
  BY <1>1, <1>2, <1>3, <1>4 DEF HandshakeNext

(***************************************************************************)
(* The enforcement point that presents a handshake is the one without:     *)
(* all that is proved above of decide and fulfillRequest holds of it.      *)
(***************************************************************************)
THEOREM HandshakeImplements == HandshakeSpec => Spec
<1>1. HandshakeInit => Init
  BY DEF HandshakeInit
<1>2. [HandshakeNext]_<<vars, handshakeVars>> => [Next]_vars
  BY HandshakeSteps
<1>. QED
  BY <1>1, <1>2, PTL DEF HandshakeSpec, Spec

\* While its options are left alone a call has presented nothing but what it would now.
HeaderInv == ~changed => presented \subseteq {pepHandshakeHeaders}

(***************************************************************************)
(* decideAndFulfill presents one declaration on decide and on each engine  *)
(* round-trip, for any declarations and any number of obligations.         *)
(***************************************************************************)
THEOREM OneDeclaration == HandshakeSpec => []OneEnforcementPoint
<1>1. HandshakeInit => HeaderInv
  BY DEF HandshakeInit, HeaderInv
<1>2. HeaderInv /\ [HandshakeNext]_<<vars, handshakeVars>> => HeaderInv'
  <2>. SUFFICES ASSUME HeaderInv, [HandshakeNext]_<<vars, handshakeVars>> PROVE HeaderInv'
    OBVIOUS
  <2>. USE DEF HeaderInv, pepHandshakeHeaders, handshakeVars
  <2>1. CASE UNCHANGED <<vars, handshakeVars>>
    BY <2>1
  <2>2. ASSUME NEW c \in Callers, NEW option \in Options, CallWith(c, option)
        PROVE  HeaderInv'
    BY <2>2 DEF CallWith
  <2>3. ASSUME NEW option \in Options, FulfilWith(option) PROVE HeaderInv'
    BY <2>3 DEF FulfilWith
  <2>4. ASSUME NEW option \in Options, OptionsChanged(option) PROVE HeaderInv'
    BY <2>4 DEF OptionsChanged
  <2>5. CASE RoundTrip
    BY <2>5 DEF RoundTrip, Present
  <2>6. CASE Elsewhere /\ UNCHANGED handshakeVars
    BY <2>6
  <2>. QED
    BY <2>1, <2>2, <2>3, <2>4, <2>5, <2>6 DEF HandshakeNext
<1>3. HeaderInv => OneEnforcementPoint
  <2>. SUFFICES ASSUME HeaderInv, ~changed
                PROVE  /\ Cardinality(presented) <= 1
                       /\ theirs # Undeclared => presented \subseteq {theirs}
    BY DEF OneEnforcementPoint
  <2>1. presented \subseteq {pepHandshakeHeaders}
    BY DEF HeaderInv
  <2>2. Cardinality(presented) <= Cardinality({pepHandshakeHeaders})
    BY <2>1, FS_Singleton, FS_Subset
  <2>3. Cardinality({pepHandshakeHeaders}) = 1
    BY FS_Singleton
  <2>4. Cardinality(presented) \in Nat
    BY <2>1, FS_Singleton, FS_Subset, FS_CardinalityType
  <2>. QED
    BY <2>1, <2>2, <2>3, <2>4 DEF pepHandshakeHeaders
<1>. QED
  BY <1>1, <1>2, <1>3, PTL DEF HandshakeSpec

-----------------------------------------------------------------------------
(* What a declaration is made into.                                        *)

Pair == Nat \X Int
ByTypeThenVersion == {p \in Pair \X Pair : Before(p[1], p[2])}
CapabilitiesOf(w) == {Capability(w[i]) : i \in DOMAIN w}

LEMMA CapabilitiesAreOrdered ==
    ASSUME NEW S \in SUBSET Pair
    PROVE  StrictOrder(ByTypeThenVersion, S)
<1>. DEFINE R == ByTypeThenVersion
<1>1. \A x \in Pair : x = <<x[1], x[2]>> /\ x[1] \in Nat /\ x[2] \in Int
  BY DEF Pair
<1>2. \A x, y \in Pair : <<x, y>> \in R <=> Before(x, y)
  BY DEF ByTypeThenVersion
<1>. HIDE DEF R
<1>3. \A x \in S : <<x, x>> \notin R
  BY <1>1, <1>2 DEF Before
<1>4. \A x, y \in S : x = y \/ <<x, y>> \in R \/ <<y, x>> \in R
  <2>. SUFFICES ASSUME NEW x \in S, NEW y \in S, ~Before(x, y), ~Before(y, x) PROVE x = y
    BY <1>2
  <2>1. x[1] = y[1] /\ x[2] = y[2]
    BY <1>1 DEF Before
  <2>. QED
    BY <1>1, <2>1
<1>5. \A x, y, z \in S : <<x, y>> \in R /\ <<y, z>> \in R => <<x, z>> \in R
  BY <1>1, <1>2 DEF Before
<1>. QED
  BY <1>3, <1>4, <1>5 DEF StrictOrder, IsTransitivelyClosedOn, R

(***************************************************************************)
(* An accepted list is made into its capabilities, each once, in the order *)
(* by type and version.                                                    *)
(***************************************************************************)
LEMMA CanonicalIsSorted ==
    ASSUME NEW w \in Written, Accepted(w)
    PROVE  /\ CapabilitiesOf(w) \in SUBSET Pair /\ Len(w) <= MaxCapabilities
           /\ Sorted(canonicalCapabilities(w), Len(w), ByTypeThenVersion, CapabilitiesOf(w))
<1>. DEFINE n == Len(w)
            C(i) == Capability(w[i])
            R == ByTypeThenVersion
            Sooner(i, j) == Before(C(i), C(j)) \/ (~Before(C(j), C(i)) /\ i < j)
            Order(f) == \A i, j \in DOMAIN w : i < j => Sooner(f[i], f[j])
            order == CHOOSE f \in [DOMAIN w -> DOMAIN w] : Order(f)
            s == canonicalCapabilities(w)
<1>1. w \in Seq(Entry) /\ n \in Nat /\ DOMAIN w = 1 .. n
  BY HandshakeAssumption DEF HandshakeAssumption
<1>2. \A i \in 1 .. n : C(i) \in Pair
  <2>1. \A i \in 1 .. n : w[i] \in Entry
    BY <1>1
  <2>2. \A e \in Entry : e.type \in Nat /\ e.version \in Int
    BY DEF Entry
  <2>. QED
    BY <2>1, <2>2 DEF Capability, Pair
<1>3. \A i, j \in 1 .. n : C(i) = C(j) => i = j
  BY <1>1 DEF Accepted
<1>4. s = [i \in 1 .. n |-> C(order[i])]
  BY <1>1 DEF canonicalCapabilities
<1>5. CapabilitiesOf(w) = {C(i) : i \in 1 .. n}
  BY <1>1 DEF CapabilitiesOf
<1>. HIDE DEF C
<1>6. StrictOrder(R, CapabilitiesOf(w)) /\ CapabilitiesOf(w) \in SUBSET Pair
  BY <1>2, <1>5, CapabilitiesAreOrdered
<1>7. \A i, j \in 1 .. n : <<C(i), C(j)>> \in R <=> Before(C(i), C(j))
  BY <1>2 DEF ByTypeThenVersion
<1>. HIDE DEF R
<1>8. \A i, j \in 1 .. n : Sooner(i, j) <=> <<C(i), C(j)>> \in R
  <2>. SUFFICES ASSUME NEW i \in 1 .. n, NEW j \in 1 .. n,
                       <<C(i), C(j)>> \notin R, <<C(j), C(i)>> \notin R, i < j
                PROVE  FALSE
    BY <1>7
  <2>1. C(i) # C(j)
    BY <1>3
  <2>2. C(i) \in CapabilitiesOf(w) /\ C(j) \in CapabilitiesOf(w)
    BY <1>5
  <2>. QED
    BY <1>6, <2>1, <2>2 DEF StrictOrder
<1>. HIDE DEF Sooner
<1>9. \E f \in [DOMAIN w -> DOMAIN w] : Order(f)
  <2>. DEFINE Q == {p \in (1 .. n) \X (1 .. n) : <<C(p[1]), C(p[2])>> \in R}
  <2>1. \A i, j \in 1 .. n : <<i, j>> \in Q <=> <<C(i), C(j)>> \in R
    OBVIOUS
  <2>. HIDE DEF Q
  <2>2. \A i \in 1 .. n : C(i) \in CapabilitiesOf(w)
    BY <1>5
  <2>3. StrictOrder(Q, 1 .. n)
    <3>1. \A i \in 1 .. n : <<i, i>> \notin Q
      BY <1>6, <2>1, <2>2 DEF StrictOrder
    <3>2. \A i, j \in 1 .. n : i = j \/ <<i, j>> \in Q \/ <<j, i>> \in Q
      BY <1>3, <1>6, <2>1, <2>2 DEF StrictOrder
    <3>3. \A i, j, k \in 1 .. n : <<i, j>> \in Q /\ <<j, k>> \in Q => <<i, k>> \in Q
      BY <1>6, <2>1, <2>2 DEF StrictOrder, IsTransitivelyClosedOn
    <3>. QED
      BY <3>1, <3>2, <3>3 DEF StrictOrder, IsTransitivelyClosedOn
  <2>4. PICK f \in [1 .. n -> 1 .. n] : \A i, j \in 1 .. n : i < j => <<f[i], f[j]>> \in Q
    BY <1>1, <2>3, SortingExists
  <2>5. \A i, j \in 1 .. n : i < j => Sooner(f[i], f[j])
    BY <1>8, <2>1, <2>4
  <2>. QED
    BY <1>1, <2>5
<1>10. order \in [1 .. n -> 1 .. n] /\ \A i, j \in 1 .. n : i < j => Sooner(order[i], order[j])
  <2>1. order \in [DOMAIN w -> DOMAIN w] /\ Order(order)
    BY <1>9
  <2>. QED
    BY <1>1, <2>1
<1>. HIDE DEF order, s
<1>11. \A i, j \in 1 .. n : i < j => <<s[i], s[j]>> \in R
  BY <1>4, <1>8, <1>10
<1>12. \A j \in 1 .. n : \E i \in 1 .. n : order[i] = j
  <2>1. \A i, j \in 1 .. n : i < j => order[i] # order[j]
    <3>. SUFFICES ASSUME NEW i \in 1 .. n, NEW j \in 1 .. n, i < j, order[i] = order[j]
                  PROVE  FALSE
      OBVIOUS
    <3>1. <<s[i], s[i]>> \in R /\ s[i] \in CapabilitiesOf(w)
      BY <1>4, <1>5, <1>10, <1>11
    <3>. QED
      BY <1>6, <3>1 DEF StrictOrder
  <2>2. \A i, j \in 1 .. n : order[i] = order[j] => i = j
    BY <1>1, <2>1
  <2>3. order \in Injection(1 .. n, 1 .. n)
    BY <1>10, <2>2, Fun_IsInj
  <2>4. IsFiniteSet(1 .. n)
    BY <1>1, FS_Interval
  <2>5. order \in Surjection(1 .. n, 1 .. n)
    BY <2>3, <2>4, FS_Injection
  <2>. QED
    BY <2>5 DEF Surjection
<1>13. s \in [1 .. n -> CapabilitiesOf(w)]
  BY <1>4, <1>5, <1>10
<1>14. \A x \in CapabilitiesOf(w) : \E i \in 1 .. n : s[i] = x
  BY <1>4, <1>5, <1>12
<1>15. Sorted(s, n, R, CapabilitiesOf(w))
  BY <1>1, <1>11, <1>13, <1>14 DEF Sorted
<1>. QED
  BY <1>6, <1>15 DEF Accepted, R, s

\* What a client declares was made of a list its application wrote.
MadeOfAList ==
    \/ ours = Undeclared
    \/ \E v \in Written : Accepted(v) /\ ours = canonicalCapabilities(v)

(***************************************************************************)
(* The header is the set it declares: lists of the same capabilities, in   *)
(* any order, of any types and versions, are sent as one header, and lists *)
(* of others as another (canonicalCapabilities, encode).                   *)
(***************************************************************************)
THEOREM OneHeaderPerSet == HandshakeSpec => []CanonicalDeclaration
<1>1. HandshakeInit => MadeOfAList
  <2>. SUFFICES ASSUME HandshakeInit, ours # Undeclared
                PROVE  \E v \in Written : Accepted(v) /\ ours = canonicalCapabilities(v)
    BY DEF MadeOfAList
  <2>1. ours \in Range(PEPHandshakes)
    BY DEF HandshakeInit, Options
  <2>. QED
    BY <2>1 DEF Range, PEPHandshakes
<1>2. MadeOfAList /\ [HandshakeNext]_<<vars, handshakeVars>> => MadeOfAList'
  <2>. SUFFICES ASSUME [HandshakeNext]_<<vars, handshakeVars>> PROVE ours' = ours
    BY DEF MadeOfAList
  <2>. QED
    BY DEF HandshakeNext, CallWith, FulfilWith, OptionsChanged, RoundTrip, Present, handshakeVars
<1>3. MadeOfAList => CanonicalDeclaration
  <2>. SUFFICES ASSUME MadeOfAList, ours # Undeclared
                PROVE  /\ Cardinality(ToSet(ours)) = Len(ours) /\ Len(ours) <= MaxCapabilities
                       /\ \A w \in DOMAIN PEPHandshakes :
                             CapabilitiesOf(w) = ToSet(ours) <=> PEPHandshakes[w] = ours
    BY DEF CanonicalDeclaration, CapabilitiesOf
  <2>1. PICK v \in Written : Accepted(v) /\ ours = canonicalCapabilities(v)
    BY DEF MadeOfAList
  <2>. DEFINE R == ByTypeThenVersion
              S == CapabilitiesOf(v)
              n == Len(v)
  <2>2. S \in SUBSET Pair /\ n <= MaxCapabilities /\ Sorted(ours, n, R, S)
    BY <2>1, CanonicalIsSorted
  <2>. HIDE DEF R, S, n
  <2>3. StrictOrder(R, S)
    BY <2>2, CapabilitiesAreOrdered DEF R
  <2>4. Len(ours) = n /\ ToSet(ours) = S /\ DOMAIN ours = 1 .. n
    BY <2>2 DEF Sorted, ToSet
  <2>5. Cardinality(S) = n
    BY <2>2, <2>3, SortedPlaces
  <2>6. ASSUME NEW w \in DOMAIN PEPHandshakes
        PROVE  CapabilitiesOf(w) = S <=> PEPHandshakes[w] = ours
    <3>1. w \in Written /\ Accepted(w) /\ PEPHandshakes[w] = canonicalCapabilities(w)
      BY <2>6 DEF PEPHandshakes
    <3>2. Sorted(PEPHandshakes[w], Len(w), R, CapabilitiesOf(w))
      BY <3>1, CanonicalIsSorted DEF R
    <3>3. CapabilitiesOf(w) = ToSet(PEPHandshakes[w])
      BY <3>2 DEF Sorted, ToSet
    <3>4. CapabilitiesOf(w) = S => PEPHandshakes[w] = ours
      BY <2>2, <2>3, <3>2, SortingUnique
    <3>. QED
      BY <2>4, <3>3, <3>4
  <2>. QED
    BY <2>2, <2>4, <2>5, <2>6
<1>. QED
  BY <1>1, <1>2, <1>3, PTL DEF HandshakeSpec

-----------------------------------------------------------------------------
(* The AuthZEN client.  Values refer to those inside them, and the walkers *)
(* go from level to level.                                                 *)

Heap == [Node -> SUBSET Node]

\* Below is what it is defined to be: each level is what the level before it holds.
LEMMA BelowSteps ==
    ASSUME NEW h \in Heap, NEW S \in SUBSET Node
    PROVE  /\ Below(h, S) \in [Nat -> SUBSET Node] /\ Below(h, S)[0] = S
           /\ \A k \in Nat : Below(h, S)[k + 1] = UNION {h[n] : n \in Below(h, S)[k]}
<1>. DEFINE A == SUBSET Node
            step == [T \in A |-> UNION {h[n] : n \in T}]
            F(f) == [k \in Nat |-> IF k = 0 THEN S ELSE UNION {h[n] : n \in f[k - 1]}]
            B == Below(h, S)
<1>1. step \in [A -> A]
  BY DEF Heap
<1>2. PICK f \in [Nat -> A] : f[0] = S /\ \A k \in Nat : f[k + 1] = step[f[k]]
  <2>1. S \in A
    OBVIOUS
  <2>. HIDE DEF A, step
  <2>. QED
    BY <1>1, <2>1, RecursionExists
<1>3. f = F(f)
  <2>1. \A k \in Nat : k = 0 \/ (k - 1 \in Nat /\ f[k - 1] \in A /\ f[k] = step[f[k - 1]])
    <3>. SUFFICES ASSUME NEW k \in Nat, k # 0
                  PROVE  k - 1 \in Nat /\ f[k - 1] \in A /\ f[k] = step[f[k - 1]]
      OBVIOUS
    <3>1. k - 1 \in Nat /\ (k - 1) + 1 = k
      OBVIOUS
    <3>. QED
      BY <1>2, <3>1
  <2>2. \A k \in Nat : f[k] = IF k = 0 THEN S ELSE UNION {h[n] : n \in f[k - 1]}
    BY <1>2, <2>1
  <2>. QED
    BY <2>2
<1>4. B = CHOOSE g : g = F(g)
  BY DEF Below
<1>5. B = F(B)
  BY <1>3, <1>4
<1>. HIDE DEF B
<1>6. B[0] = S /\ \A k \in Nat : B[k + 1] = UNION {h[n] : n \in B[k]}
  BY <1>5
<1>7. \A k \in Nat : B[k] \in A
  <2>. DEFINE T == {k \in Nat : B[k] \in A}
  <2>1. 0 \in T /\ \A k \in T : k + 1 \in T
    BY <1>6 DEF Heap
  <2>2. T \in SUBSET Nat
    OBVIOUS
  <2>. HIDE DEF T
  <2>3. T = Nat
    BY <2>1, <2>2, Induction
  <2>. QED
    BY <2>3 DEF T
<1>8. B = [k \in Nat |-> B[k]]
  BY <1>5
<1>9. B \in [Nat -> A]
  BY <1>7, <1>8
<1>. QED
  BY <1>6, <1>9 DEF B

\* Nothing below S leaves what S is in and nothing refers out of.
LEMMA BelowStaysInside ==
    ASSUME NEW h \in Heap, NEW S \in SUBSET Node, NEW C \in SUBSET Node,
           S \subseteq C, \A n \in C : h[n] \subseteq C
    PROVE  \A k \in Nat : Below(h, S)[k] \subseteq C
<1>. DEFINE B == Below(h, S)
            T == {k \in Nat : B[k] \subseteq C}
<1>1. B[0] = S /\ \A k \in Nat : B[k + 1] = UNION {h[n] : n \in B[k]}
  BY BelowSteps
<1>. HIDE DEF B
<1>2. 0 \in T /\ T \in SUBSET Nat
  BY <1>1
<1>3. \A k \in T : k + 1 \in T
  BY <1>1
<1>. HIDE DEF T
<1>4. T = Nat
  BY <1>2, <1>3, Induction
<1>. QED
  BY <1>4 DEF T, B

LEMMA WithinStaysInside ==
    ASSUME NEW h \in Heap, NEW S \in SUBSET Node, NEW C \in SUBSET Node,
           S \subseteq C, \A n \in C : h[n] \subseteq C
    PROVE  Within(h, S) \subseteq C
<1>1. \A k \in Nat : Below(h, S)[k] \subseteq C
  BY BelowStaysInside
<1>. QED
  BY <1>1, DepthAssumption DEF Within, DepthAssumption

\* Where there is less inside there is less below.
LEMMA BelowGrows ==
    ASSUME NEW g \in Heap, NEW h \in Heap, \A n \in Node : g[n] \subseteq h[n],
           NEW S \in SUBSET Node, NEW R \in SUBSET Node, S \subseteq R
    PROVE  \A k \in Nat : Below(g, S)[k] \subseteq Below(h, R)[k]
<1>. DEFINE B == Below(g, S)
            D == Below(h, R)
            T == {k \in Nat : B[k] \subseteq D[k]}
<1>1. /\ B[0] = S /\ \A k \in Nat : B[k] \in SUBSET Node
      /\ \A k \in Nat : B[k + 1] = UNION {g[n] : n \in B[k]}
  BY BelowSteps
<1>2. D[0] = R /\ \A k \in Nat : D[k + 1] = UNION {h[n] : n \in D[k]}
  BY BelowSteps
<1>. HIDE DEF B, D
<1>3. 0 \in T /\ T \in SUBSET Nat
  BY <1>1, <1>2
<1>4. ASSUME NEW k \in T PROVE k + 1 \in T
  <2>1. B[k] \subseteq D[k] /\ B[k] \in SUBSET Node
    BY <1>1
  <2>2. B[k + 1] = UNION {g[n] : n \in B[k]} /\ D[k + 1] = UNION {h[n] : n \in D[k]}
    BY <1>1, <1>2
  <2>3. B[k + 1] \subseteq D[k + 1]
    BY <2>1, <2>2
  <2>. QED
    BY <2>3
<1>. HIDE DEF T
<1>5. T = Nat
  BY <1>3, <1>4, Induction
<1>. QED
  BY <1>5 DEF T, B, D

LEMMA WithinGrows ==
    ASSUME NEW g \in Heap, NEW h \in Heap, \A n \in Node : g[n] \subseteq h[n],
           NEW S \in SUBSET Node, NEW R \in SUBSET Node, S \subseteq R
    PROVE  Within(g, S) \subseteq Within(h, R)
BY BelowGrows, DepthAssumption DEF Within, DepthAssumption

\* What is below two sets is below one of them.
LEMMA BelowBoth ==
    ASSUME NEW h \in Heap, NEW S \in SUBSET Node, NEW R \in SUBSET Node
    PROVE  \A k \in Nat : Below(h, S \cup R)[k] = Below(h, S)[k] \cup Below(h, R)[k]
<1>. DEFINE B == Below(h, S)
            D == Below(h, R)
            E == Below(h, S \cup R)
            T == {k \in Nat : E[k] = B[k] \cup D[k]}
<1>1. B[0] = S /\ \A k \in Nat : B[k + 1] = UNION {h[n] : n \in B[k]}
  BY BelowSteps
<1>2. D[0] = R /\ \A k \in Nat : D[k + 1] = UNION {h[n] : n \in D[k]}
  BY BelowSteps
<1>3. S \cup R \in SUBSET Node
  OBVIOUS
<1>4. E[0] = S \cup R /\ \A k \in Nat : E[k + 1] = UNION {h[n] : n \in E[k]}
  BY <1>3, BelowSteps
<1>. HIDE DEF B, D, E
<1>5. 0 \in T /\ T \in SUBSET Nat
  BY <1>1, <1>2, <1>4
<1>6. ASSUME NEW k \in T PROVE k + 1 \in T
  BY <1>1, <1>2, <1>4
<1>. HIDE DEF T
<1>7. T = Nat
  BY <1>5, <1>6, Induction
<1>. QED
  BY <1>7 DEF T, B, D, E

\* Below a level without values there are none.
LEMMA BelowEnds ==
    ASSUME NEW h \in Heap, NEW S \in SUBSET Node, NEW i \in Nat, Below(h, S)[i] = {}
    PROVE  \A k \in Nat : k >= i => Below(h, S)[k] = {}
<1>. DEFINE B == Below(h, S)
            T == {k \in Nat : B[i + k] = {}}
<1>1. \A k \in Nat : B[k + 1] = UNION {h[n] : n \in B[k]}
  BY BelowSteps
<1>. HIDE DEF B
<1>2. 0 \in T /\ T \in SUBSET Nat
  BY DEF B
<1>3. ASSUME NEW k \in T PROVE k + 1 \in T
  <2>1. i + k \in Nat /\ i + (k + 1) = (i + k) + 1 /\ B[i + k] = {}
    OBVIOUS
  <2>2. B[i + (k + 1)] = {}
    BY <1>1, <2>1
  <2>. QED
    BY <2>2
<1>. HIDE DEF T
<1>4. T = Nat
  BY <1>2, <1>3, Induction
<1>5. ASSUME NEW k \in Nat, k >= i PROVE B[k] = {}
  <2>1. k - i \in T /\ i + (k - i) = k
    BY <1>4, <1>5
  <2>. QED
    BY <2>1 DEF T
<1>. QED
  BY <1>5 DEF B

-----------------------------------------------------------------------------
(* Values without an end in sight are refused: the others are walked whole.  *)

\* What a bag is made of is among the values within it.
LEMMA WithinHolds ==
    ASSUME NEW h \in Heap, NEW S \in SUBSET Node
    PROVE  S \subseteq Within(h, S) /\ Within(h, S) \in SUBSET Node
<1>1. Below(h, S)[0] = S /\ \A k \in Nat : Below(h, S)[k] \in SUBSET Node
  BY BelowSteps
<1>. QED
  BY <1>1, DepthAssumption DEF Within, DepthAssumption

\* A walk that ends has seen everything its values refer to.
LEMMA WalkedIsClosed ==
    ASSUME NEW h \in Heap, NEW S \in SUBSET Node, Walked(h, S)
    PROVE  \A n \in Within(h, S) : h[n] \subseteq Within(h, S)
<1>. DEFINE B == Below(h, S)
            N == MAX_ATTRIBUTE_DEPTH
<1>1. \A k \in Nat : B[k + 1] = UNION {h[n] : n \in B[k]}
  BY BelowSteps
<1>2. N \in Nat /\ B[N + 1] = {} /\ Within(h, S) = UNION {B[k] : k \in 0 .. N}
  BY DepthAssumption DEF DepthAssumption, Within, Walked
<1>. HIDE DEF B, N
<1>3. ASSUME NEW k \in 0 .. N, NEW n \in B[k] PROVE h[n] \subseteq Within(h, S)
  <2>1. k \in Nat /\ h[n] \subseteq B[k + 1]
    BY <1>1, <1>2
  <2>2. CASE k = N
    BY <1>2, <2>1, <2>2
  <2>3. CASE k # N
    <3>1. k + 1 \in 0 .. N
      BY <1>2, <2>3
    <3>. QED
      BY <1>2, <2>1, <3>1
  <2>. QED
    BY <2>2, <2>3
<1>. QED
  BY <1>2, <1>3

\* What is walked whole from S is walked whole from everything within it.
LEMMA WalkedWithin ==
    ASSUME NEW h \in Heap, NEW S \in SUBSET Node, Walked(h, S), NEW n \in Within(h, S)
    PROVE  Walked(h, {n})
<1>. DEFINE B == Below(h, S)
            D == Below(h, {n})
            N == MAX_ATTRIBUTE_DEPTH
<1>1. \A k \in Nat : B[k + 1] = UNION {h[m] : m \in B[k]}
  BY BelowSteps
<1>2. n \in Node
  BY WithinHolds
<1>3. D[0] = {n} /\ \A k \in Nat : D[k + 1] = UNION {h[m] : m \in D[k]}
  <2>1. {n} \in SUBSET Node
    BY <1>2
  <2>. QED
    BY <2>1, BelowSteps
<1>4. N \in Nat /\ B[N + 1] = {}
  BY DepthAssumption DEF DepthAssumption, Walked
<1>5. \A k \in Nat : k >= N + 1 => B[k] = {}
  BY <1>4, BelowEnds
<1>6. PICK i \in 0 .. N : n \in B[i]
  BY DEF Within
<1>. DEFINE T == {k \in Nat : D[k] \subseteq B[i + k]}
<1>. HIDE DEF B, D, N
<1>7. 0 \in T /\ T \in SUBSET Nat
  BY <1>3, <1>4, <1>6
<1>8. ASSUME NEW k \in T PROVE k + 1 \in T
  <2>1. i + k \in Nat /\ i + (k + 1) = (i + k) + 1 /\ D[k] \subseteq B[i + k]
    BY <1>4
  <2>2. D[k + 1] \subseteq B[i + (k + 1)]
    BY <1>1, <1>3, <2>1
  <2>. QED
    BY <2>2
<1>. HIDE DEF T
<1>9. T = Nat
  BY <1>7, <1>8, Induction
<1>10. D[N + 1] \subseteq B[i + (N + 1)] /\ i + (N + 1) \in Nat /\ i + (N + 1) >= N + 1
  BY <1>4, <1>9 DEF T
<1>11. D[N + 1] = {}
  BY <1>5, <1>10
<1>. QED
  BY <1>11 DEF Walked, D, N

-----------------------------------------------------------------------------
(* What known attributes hold.                                             *)

Held(h) == [n \in Node |-> IF KindOf[n] = "known" THEN h[n] ELSE {}]

LEMMA HeldIsHeld ==
    ASSUME NEW h \in Heap
    PROVE  /\ Held(h) \in Heap /\ \A n \in Node : Held(h)[n] \subseteq h[n]
           /\ \A S \in SUBSET Node : Behind(h, S) = Within(Held(h), S)
BY DEF Heap, Held, Behind

LEMMA BehindHolds ==
    ASSUME NEW h \in Heap, NEW S \in SUBSET Node
    PROVE  S \subseteq Behind(h, S) /\ Behind(h, S) \in SUBSET Node
BY HeldIsHeld, WithinHolds

LEMMA BehindStaysInside ==
    ASSUME NEW h \in Heap, NEW S \in SUBSET Node, NEW C \in SUBSET Node,
           S \subseteq C, \A n \in C : KindOf[n] = "known" => h[n] \subseteq C
    PROVE  Behind(h, S) \subseteq C
<1>1. \A n \in C : Held(h)[n] \subseteq C
  BY DEF Held
<1>. QED
  BY <1>1, HeldIsHeld, WithinStaysInside

LEMMA BehindGrows ==
    ASSUME NEW h \in Heap, NEW S \in SUBSET Node, NEW R \in SUBSET Node, S \subseteq R
    PROVE  Behind(h, S) \subseteq Behind(h, R)
BY HeldIsHeld, WithinGrows

\* What is behind an attribute's value is behind the attribute.
LEMMA BehindKnown ==
    ASSUME NEW h \in Heap, NEW n \in Node, KindOf[n] = "known", Walked(h, {n})
    PROVE  Behind(h, h[n]) \subseteq Behind(h, {n})
<1>. DEFINE g == Held(h)
            W == Within(g, {n})
<1>1. g \in Heap /\ \A m \in Node : g[m] \subseteq h[m]
  BY HeldIsHeld
<1>2. {n} \in SUBSET Node /\ h[n] \in SUBSET Node
  BY DEF Heap
<1>3. Below(g, {n})[MAX_ATTRIBUTE_DEPTH + 1] \subseteq Below(h, {n})[MAX_ATTRIBUTE_DEPTH + 1]
  BY <1>1, <1>2, BelowGrows, DepthAssumption DEF DepthAssumption
<1>4. Walked(g, {n})
  BY <1>3 DEF Walked
<1>5. \A m \in W : g[m] \subseteq W
  BY <1>1, <1>2, <1>4, WalkedIsClosed
<1>6. n \in W /\ W \in SUBSET Node
  BY <1>1, <1>2, WithinHolds
<1>7. h[n] \subseteq W
  BY <1>5, <1>6 DEF Held
<1>8. Within(g, h[n]) \subseteq W
  BY <1>1, <1>2, <1>5, <1>6, <1>7, WithinStaysInside
<1>. QED
  BY <1>2, <1>8, HeldIsHeld

-----------------------------------------------------------------------------
(* Resolving and stripping once is as good as twice.                       *)

Settled(h) == \A n \in Node : KindOf[n] \in Container =>
                  \A m \in h[n] : KindOf[m] \notin {"known", "absent"}
Stripped(h) == \A n \in Node : KindOf[n] = "object" => \A m \in h[n] : KindOf[m] # "undefined"

LEMMA InsideIsHeap ==
    ASSUME NEW h \in Inside
    PROVE  h \in Heap /\ \A n \in Node : KindOf[n] \notin Container \cup {"known"} => h[n] = {}
BY DEF Inside, Heap

LEMMA ResolvedOnce ==
    ASSUME NEW h \in Inside
    PROVE  /\ resolveValue(h) \in Inside /\ Settled(resolveValue(h))
           /\ Settled(h) => resolveValue(h) = h
<1>1. h \in Heap
  BY InsideIsHeap
<1>2. \A n \in Node : h[n] \in SUBSET Node /\ Behind(h, h[n]) \in SUBSET Node
  BY <1>1, BehindHolds DEF Heap
<1>3. \A n \in Node : Resolved(h, n) \in SUBSET Node
  BY <1>2 DEF Resolved
<1>4. resolveValue(h) \in Inside
  BY <1>3 DEF resolveValue, Inside, Container
<1>5. Settled(resolveValue(h))
  BY DEF Settled, resolveValue, Resolved
<1>6. ASSUME Settled(h) PROVE resolveValue(h) = h
  <2>1. ASSUME NEW n \in Node, KindOf[n] \in Container PROVE Resolved(h, n) = h[n]
    <3>1. Behind(h, h[n]) \subseteq h[n]
      <4>1. \A m \in h[n] : KindOf[m] = "known" => h[m] \subseteq h[n]
        BY <1>6, <2>1 DEF Settled
      <4>. QED
        BY <1>1, <1>2, <4>1, BehindStaysInside
    <3>2. h[n] \subseteq Behind(h, h[n])
      BY <1>1, <1>2, BehindHolds
    <3>. QED
      BY <1>6, <2>1, <3>1, <3>2 DEF Settled, Resolved
  <2>2. h = [n \in Node |-> h[n]]
    BY <1>1 DEF Heap
  <2>. QED
    BY <2>1, <2>2 DEF resolveValue
<1>. QED
  BY <1>4, <1>5, <1>6

LEMMA StrippedOnce ==
    ASSUME NEW h \in Inside
    PROVE  /\ stripUndefined(h) \in Inside /\ Stripped(stripUndefined(h))
           /\ Stripped(h) => stripUndefined(h) = h
           /\ Settled(h) => Settled(stripUndefined(h))
           /\ \A n \in Node : stripUndefined(h)[n] \subseteq h[n]
<1>1. h = [n \in Node |-> h[n]] /\ \A n \in Node : h[n] \in SUBSET Node
  BY InsideIsHeap DEF Heap
<1>2. stripUndefined(h) \in Inside
  BY <1>1 DEF stripUndefined, Inside, Container
<1>3. \A n \in Node : stripUndefined(h)[n] \subseteq h[n]
  BY DEF stripUndefined
<1>4. Stripped(h) => stripUndefined(h) = h
  <2>1. Stripped(h) => \A n \in Node : KindOf[n] = "object" =>
            {m \in h[n] : KindOf[m] # "undefined"} = h[n]
    BY DEF Stripped
  <2>. QED
    BY <1>1, <2>1 DEF stripUndefined
<1>5. Stripped(stripUndefined(h))
  BY DEF stripUndefined, Stripped
<1>6. Settled(h) => Settled(stripUndefined(h))
  BY <1>3 DEF Settled
<1>. QED
  BY <1>2, <1>3, <1>4, <1>5, <1>6

-----------------------------------------------------------------------------
(* ... and both leave what a bag says.                                     *)

LEMMA BagsAreValues == Bag \subseteq Node /\ \A n \in Bag : KindOf[n] = "object"
BY DEF Bag

\* Resolving drops absent values and takes known ones out: all else stays within the bags.
LEMMA ResolvedSaysTheSame ==
    ASSUME NEW h \in Inside, NEW S \in SUBSET Bag, ~Unresolvable(h, S),
           Walked(resolveValue(h), S)
    PROVE  Said(resolveValue(h), S) = Said(h, S)
<1>. DEFINE v == resolveValue(h)
            C == Within(h, S)
            D == Within(v, S)
            Leaf(n) == KindOf[n] \in {"known", "absent"}
            E == {n \in C : \A m \in Behind(h, {n}) : Leaf(m) \/ m \in D}
<1>1. h \in Heap /\ v \in Heap /\ S \in SUBSET Node /\ Walked(h, S)
  BY ResolvedOnce, InsideIsHeap, BagsAreValues DEF Unresolvable, Walked
<1>2. C \in SUBSET Node /\ S \subseteq C /\ \A n \in C : h[n] \subseteq C
  BY <1>1, WithinHolds, WalkedIsClosed
<1>3. D \in SUBSET Node /\ S \subseteq D /\ \A n \in D : v[n] \subseteq D
  BY <1>1, WithinHolds, WalkedIsClosed
<1>4. \A n \in Node : h[n] \in SUBSET Node /\ {n} \in SUBSET Node
  BY <1>1 DEF Heap
<1>5. \A n \in Node : KindOf[n] \in Container => v[n] = {m \in Behind(h, h[n]) : ~Leaf(m)}
  BY DEF resolveValue, Resolved
<1>6. D \subseteq C
  <2>1. ASSUME NEW n \in C PROVE v[n] \subseteq C
    <3>1. CASE KindOf[n] \in Container
      <4>1. Behind(h, h[n]) \subseteq C
        BY <1>1, <1>2, <1>4, BehindStaysInside
      <4>. QED
        BY <1>2, <1>5, <3>1, <4>1
    <3>2. CASE KindOf[n] \notin Container
      BY <1>2, <3>2 DEF resolveValue
    <3>. QED
      BY <3>1, <3>2
  <2>. QED
    BY <1>1, <1>2, <2>1, WithinStaysInside
<1>7. C \subseteq E
  <2>1. ASSUME NEW n \in C, KindOf[n] # "known" PROVE Behind(h, {n}) = {n}
    <3>1. Behind(h, {n}) \subseteq {n}
      BY <1>1, <1>2, <1>4, <2>1, BehindStaysInside
    <3>. QED
      BY <1>1, <1>2, <1>4, <3>1, BehindHolds
  <2>2. S \subseteq E
    <3>1. ASSUME NEW n \in S PROVE n \in C /\ n \in D /\ Behind(h, {n}) = {n}
      <4>1. n \in C /\ n \in D /\ KindOf[n] # "known"
        BY <1>2, <1>3, BagsAreValues
      <4>. QED
        BY <2>1, <4>1
    <3>. QED
      BY <3>1
  <2>3. ASSUME NEW n \in E, NEW c \in h[n] PROVE c \in E
    <3>1. n \in C /\ n \in Node /\ c \in C /\ c \in Node /\ {c} \in SUBSET Node
      BY <1>2
    <3>2. Behind(h, {c}) \subseteq Behind(h, h[n])
      BY <1>1, <1>4, <3>1, BehindGrows
    <3>3. CASE KindOf[n] \in Container
      <4>1. n \in D
        <5>1. KindOf[n] # "known" /\ ~Leaf(n)
          BY <3>3 DEF Container
        <5>. QED
          BY <2>1, <3>1, <5>1
      <4>2. \A m \in Behind(h, {c}) : Leaf(m) \/ m \in v[n]
        BY <1>5, <3>1, <3>2, <3>3
      <4>. QED
        BY <1>3, <3>1, <4>1, <4>2
    <3>4. CASE KindOf[n] = "known"
      <4>1. Behind(h, h[n]) \subseteq Behind(h, {n})
        BY <1>1, <3>1, <3>4, WalkedWithin, BehindKnown
      <4>. QED
        BY <3>1, <3>2, <4>1
    <3>5. KindOf[n] \in Container \cup {"known"}
      BY <2>3, <3>1, InsideIsHeap
    <3>. QED
      BY <3>3, <3>4, <3>5
  <2>. QED
    BY <1>1, <1>2, <2>2, <2>3, WithinStaysInside
<1>8. ASSUME NEW n \in C, KindOf[n] \in Container \cup {"value"} PROVE n \in D
  <2>1. n \in Behind(h, {n})
    BY <1>1, <1>2, <1>4, BehindHolds
  <2>2. ~Leaf(n)
    BY <1>8 DEF Container
  <2>. QED
    BY <1>7, <2>1, <2>2
<1>. QED
  BY <1>6, <1>8 DEF Said

\* Stripping drops undefined members, which say nothing.
LEMMA StrippedSaysTheSame ==
    ASSUME NEW h \in Inside, NEW S \in SUBSET Bag, Walked(h, S)
    PROVE  Walked(stripUndefined(h), S) /\ Said(stripUndefined(h), S) = Said(h, S)
<1>. DEFINE v == stripUndefined(h)
            D == Within(v, S)
            E == {n \in Node : n \in D \/ KindOf[n] = "undefined"}
<1>1. h \in Heap /\ v \in Heap /\ S \in SUBSET Node /\ \A n \in Node : v[n] \subseteq h[n]
  BY StrippedOnce, InsideIsHeap, BagsAreValues
<1>2. Below(v, S)[MAX_ATTRIBUTE_DEPTH + 1] \subseteq Below(h, S)[MAX_ATTRIBUTE_DEPTH + 1]
  BY <1>1, BelowGrows, DepthAssumption DEF DepthAssumption
<1>3. Walked(v, S)
  BY <1>2 DEF Walked
<1>4. D \subseteq Within(h, S) /\ Within(h, S) \in SUBSET Node
  BY <1>1, WithinGrows, WithinHolds
<1>5. D \in SUBSET Node /\ S \subseteq D /\ \A n \in D : v[n] \subseteq D
  BY <1>1, <1>3, WithinHolds, WalkedIsClosed
<1>6. ASSUME NEW n \in E PROVE h[n] \subseteq E
  <2>1. CASE KindOf[n] = "undefined"
    BY <1>6, <2>1, InsideIsHeap DEF Container
  <2>2. CASE n \in D
    <3>1. \A m \in h[n] : m \in Node /\ (m \in v[n] \/ KindOf[m] = "undefined")
      BY <1>1, <1>5, <2>2 DEF stripUndefined, Heap
    <3>. QED
      BY <1>5, <2>2, <3>1
  <2>. QED
    BY <1>6, <2>1, <2>2
<1>7. Within(h, S) \subseteq E
  <2>1. S \subseteq E /\ E \in SUBSET Node
    BY <1>1, <1>5
  <2>. QED
    BY <1>1, <1>6, <2>1, WithinStaysInside
<1>. QED
  BY <1>3, <1>4, <1>7 DEF Said, Container

-----------------------------------------------------------------------------
(* Envelopes.                                                              *)

Envelope(e) == \A p \in DOMAIN e : e[p] \in Request

LEMMA BagsOfRequests ==
    ASSUME NEW r \in Request
    PROVE  /\ Bags(r) \in SUBSET Bag /\ Bags(r) = r.context \cup r.properties
           /\ r.context \in SUBSET Node /\ r.properties \in SUBSET Node
<1>1. r.context \in {{}} \cup {{b} : b \in Bag} /\ r.properties \in SUBSET Bag
  BY DEF Request
<1>2. r.context \in SUBSET Bag
  BY <1>1
<1>. QED
  BY <1>1, <1>2, BagsAreValues DEF Bags

\* The check before sending stops at bags the resolver would walk whole.
LEMMA ShallowIsWalked ==
    ASSUME NEW h \in Heap, NEW e, Envelope(e), ~TooDeep(e, h), NEW p \in DOMAIN e
    PROVE  Walked(h, Bags(e[p]))
<1>. DEFINE N == MAX_ATTRIBUTE_DEPTH
            d == N - ContextDepth(p)
            C == e[p].context
            P == e[p].properties
<1>1. C \in SUBSET Node /\ P \in SUBSET Node /\ Bags(e[p]) = C \cup P
  BY BagsOfRequests DEF Envelope
<1>2. d \in Nat /\ d + 1 \in Nat /\ N + 1 \in Nat /\ d + 1 <= N + 1 /\ d <= N + 1
  BY DepthAssumption DEF DepthAssumption, ContextDepth
<1>3. Below(h, C)[d + 1] = {} /\ Below(h, P)[d] = {}
  BY DEF TooDeep
<1>. HIDE DEF d, C, P, N
<1>4. Below(h, C)[N + 1] = {} /\ Below(h, P)[N + 1] = {}
  BY <1>1, <1>2, <1>3, BelowEnds
<1>5. Below(h, C \cup P)[N + 1] = {}
  BY <1>1, <1>2, <1>4, BelowBoth
<1>. QED
  BY <1>1, <1>5 DEF Walked, N

\* ... and then the resolver has nothing to refuse.
LEMMA NothingToRefuse ==
    ASSUME NEW h \in Heap, NEW e, Envelope(e), ~TooDeep(e, h), ~AttributeLeft(e, h)
    PROVE  ~Unestablished(e, h)
<1>. SUFFICES ASSUME NEW p \in DOMAIN e PROVE ~Unresolvable(h, Bags(e[p]))
  BY DEF Unestablished
<1>1. Walked(h, Bags(e[p]))
  BY ShallowIsWalked
<1>2. \A n \in Within(h, Bags(e[p])) : KindOf[n] # "unknown"
  BY DEF AttributeLeft, HoldsAttribute, Attribute
<1>. QED
  BY <1>1, <1>2 DEF Unresolvable, Walked

\* With less inside its values an envelope is no deeper and holds no more attributes.
LEMMA LessInside ==
    ASSUME NEW g \in Heap, NEW h \in Heap, \A n \in Node : g[n] \subseteq h[n],
           NEW e, Envelope(e), ~TooDeep(e, h), ~AttributeLeft(e, h)
    PROVE  ~TooDeep(e, g) /\ ~AttributeLeft(e, g)
<1>1. ASSUME NEW p \in DOMAIN e
      PROVE  LET d == MAX_ATTRIBUTE_DEPTH - ContextDepth(p)
             IN  Below(g, e[p].context)[d + 1] = {} /\ Below(g, e[p].properties)[d] = {}
  <2>. DEFINE d == MAX_ATTRIBUTE_DEPTH - ContextDepth(p)
              C == e[p].context
              P == e[p].properties
  <2>1. C \in SUBSET Node /\ P \in SUBSET Node
    BY BagsOfRequests DEF Envelope
  <2>2. d \in Nat /\ d + 1 \in Nat
    BY DepthAssumption DEF DepthAssumption, ContextDepth
  <2>3. Below(h, C)[d + 1] = {} /\ Below(h, P)[d] = {}
    BY DEF TooDeep
  <2>. HIDE DEF d, C, P
  <2>4. Below(g, C)[d + 1] \subseteq Below(h, C)[d + 1] /\ Below(g, P)[d] \subseteq Below(h, P)[d]
    BY <2>1, <2>2, BelowGrows
  <2>5. Below(g, C)[d + 1] = {} /\ Below(g, P)[d] = {}
    BY <2>3, <2>4
  <2>. QED
    BY <2>5 DEF d, C, P
<1>2. ASSUME NEW p \in DOMAIN e
      PROVE  e[p].action # "attribute" /\ ~HoldsAttribute(g, Bags(e[p]))
  <2>1. Bags(e[p]) \in SUBSET Node
    BY BagsOfRequests, BagsAreValues DEF Envelope
  <2>2. Within(g, Bags(e[p])) \subseteq Within(h, Bags(e[p]))
    BY <2>1, WithinGrows
  <2>. QED
    BY <2>2 DEF AttributeLeft, HoldsAttribute
<1>. QED
  BY <1>1, <1>2 DEF TooDeep, AttributeLeft

(***************************************************************************)
(* The document that the first pass leaves: where the application's values *)
(* were resolved, checked and stripped it says what they said.             *)
(***************************************************************************)
LEMMA DocumentSaysTheSame ==
    ASSUME NEW h \in Inside, NEW e, Envelope(e), ~Unestablished(e, h),
           ~TooDeep(e, resolveValue(h)), NEW p \in DOMAIN e
    PROVE  /\ Walked(h, Bags(e[p])) /\ Walked(stripUndefined(resolveValue(h)), Bags(e[p]))
           /\ \A n \in Within(h, Bags(e[p])) : KindOf[n] # "unknown"
           /\ Said(stripUndefined(resolveValue(h)), Bags(e[p])) = Said(h, Bags(e[p]))
<1>. DEFINE v == resolveValue(h)
            S == Bags(e[p])
<1>1. v \in Inside /\ v \in Heap /\ S \in SUBSET Bag
  BY ResolvedOnce, InsideIsHeap, BagsOfRequests DEF Envelope
<1>2. ~Unresolvable(h, S)
  BY DEF Unestablished
<1>3. Walked(v, S)
  BY <1>1, ShallowIsWalked
<1>4. Said(v, S) = Said(h, S)
  BY <1>1, <1>2, <1>3, ResolvedSaysTheSame
<1>5. Walked(stripUndefined(v), S) /\ Said(stripUndefined(v), S) = Said(v, S)
  BY <1>1, <1>3, StrippedSaysTheSame
<1>. QED
  BY <1>2, <1>4, <1>5 DEF Unresolvable

-----------------------------------------------------------------------------
(* A call.                                                                 *)

Complete(e) == ~Both(e) => ~checkComplete(e)

\* What the first pass knows of the document it prepares, and what is asked of it.
Preparing ==
    /\ stage = "resolving" => values = asked
    /\ stage \in {"checking", "asserting", "validating"} =>
           /\ values = resolveValue(asked) /\ ~Unestablished(envelope, asked)
           /\ DOMAIN envelope # {}
    /\ stage \in {"asserting", "validating"} => Complete(envelope)
    /\ stage = "validating" => ~TooDeep(envelope, values) /\ ~AttributeLeft(envelope, values)
    /\ stage \notin {"sent", "answered"}

\* What the second pass knows of it: whatever it looks at, it finds in order.
Prepared ==
    /\ values = built /\ Settled(values) /\ Stripped(values)
    /\ DOMAIN envelope # {} /\ Complete(envelope) /\ FitsSchema(envelope)
    /\ ~TooDeep(envelope, values) /\ ~AttributeLeft(envelope, values)
    /\ stage # "idle" /\ call # "toWire"
    /\ outcome.kind # "clientRefusal"
    /\ outcome.kind = "protocolError" => reply # NoOutcome

Faithful == \A p \in DOMAIN envelope :
    /\ Walked(asked, Bags(envelope[p])) /\ Walked(values, Bags(envelope[p]))
    /\ \A n \in Within(asked, Bags(envelope[p])) : KindOf[n] # "unknown"
    /\ ~HoldsAttribute(values, Bags(envelope[p]))
    /\ Said(values, Bags(envelope[p])) = Said(asked, Bags(envelope[p]))

CallInv ==
    /\ stage # "idle" => values \in Inside /\ asked \in Inside
    /\ stage # "done" => outcome = NoOutcome
    /\ pass = 1 => Preparing
    /\ pass = 2 => Prepared
    /\ pass = 2 \/ outcome.kind = "document" => Faithful

LEMMA QuestionsAreAsked ==
    ASSUME NEW q \in Questions
    PROVE  q.inside \in Inside /\ q.inside \in Heap /\ Envelope(q.envelope)
BY QuestionsAssumption, InsideIsHeap DEF QuestionsAssumption, Envelope

LEMMA HeapsStayHeaps ==
    ASSUME NEW h \in Heap
    PROVE  resolveValue(h) \in Heap /\ stripUndefined(h) \in Heap
<1>1. \A n \in Node : h[n] \in SUBSET Node /\ Behind(h, h[n]) \in SUBSET Node
  BY BehindHolds DEF Heap
<1>2. \A n \in Node : Resolved(h, n) \in SUBSET Node
  BY <1>1 DEF Resolved
<1>. QED
  BY <1>1, <1>2 DEF resolveValue, stripUndefined, Heap

\* Only an answer is a reply.
LEMMA NoOutcomeIsNoReply == NoOutcome \notin Reply
BY DEF NoOutcome, Reply

CallTypes == EvalTypeOK /\ (stage = "answered" => reply \in Reply)

LEMMA CallTyped == EvalSpec => []CallTypes
<1>1. EvalInit => CallTypes
  BY DEF EvalInit, CallTypes, EvalTypeOK, NothingInside, NoEnvelope, NoOutcome, Codes
<1>2. CallTypes /\ [EvalNext]_evalVars => CallTypes'
  <2>. SUFFICES ASSUME CallTypes, [EvalNext]_evalVars PROVE CallTypes'
    OBVIOUS
  <2>. USE DEF CallTypes, EvalTypeOK
  <2>1. CASE UNCHANGED evalVars
    BY <2>1 DEF evalVars
  <2>2. ASSUME NEW c \in {"evaluate", "evaluateAll", "toWire"}, NEW q \in Questions, Ask(c, q)
        PROVE  CallTypes'
    BY <2>2, QuestionsAreAsked DEF Ask, NothingInside, NoOutcome, Codes, Heap, Envelope
  <2>3. ASSUME NEW o, End(o),
               o.kind \in {"none", "clientRefusal", "gatewayRefusal", "protocolError",
                           "authenticationError", "error", "document", "decision"},
               o.code \in Codes <=> o.kind \in {"clientRefusal", "gatewayRefusal"},
               o.allowed => o.kind = "decision"
        PROVE  CallTypes'
    BY <2>3 DEF End
  <2>4. CASE RefuseAttribute \/ RefuseEmptyEnvelope \/ RefuseIncomplete \/ RefuseMalformed
    BY <2>3, <2>4
       DEF RefuseAttribute, RefuseEmptyEnvelope, RefuseIncomplete, RefuseMalformed, Refusal, Codes
  <2>5. CASE AssertionFails \/ NoAnswer \/ RefuseCredentials \/ Uninterpretable
    BY <2>3, <2>5
       DEF AssertionFails, NoAnswer, RefuseCredentials, Uninterpretable, Error, Codes
  <2>6. CASE resolveEnvelope
    BY <2>6, HeapsStayHeaps DEF resolveEnvelope, Heap
  <2>7. CASE checkEnvelopeComplete \/ assertFullyResolved
    BY <2>7 DEF checkEnvelopeComplete, assertFullyResolved, GoOn
  <2>8. CASE validateEnvelopeOrRefuse
    <3>1. values' \in Heap /\ built' \in Heap
      BY <2>8, HeapsStayHeaps DEF validateEnvelopeOrRefuse, Heap
    <3>2. outcome' = outcome \/ outcome' = Error("document")
      BY <2>8 DEF validateEnvelopeOrRefuse
    <3>. QED
      BY <2>8, <3>1, <3>2 DEF validateEnvelopeOrRefuse, Heap, Error, Codes
  <2>9. ASSUME NEW r \in Reply, Answer(r) PROVE CallTypes'
    BY <2>9 DEF Answer
  <2>10. CASE decodeRefusal
    <3>1. CASE End(Refusal("gatewayRefusal", reply.body.code)) /\ reply.body.is = "refusal"
      <4>1. reply \in Reply
        BY <2>10 DEF decodeRefusal
      <4>2. reply.body \in Body /\ reply.body.is = "refusal"
        BY <3>1, <4>1 DEF Reply
      <4>3. reply.body.code \in Codes
        BY <4>2 DEF Body
      <4>. QED
        BY <2>3, <3>1, <4>3 DEF Refusal
    <3>2. CASE End(Error("error"))
      BY <2>3, <3>2 DEF Error, Codes
    <3>. QED
      BY <2>10, <3>1, <3>2 DEF decodeRefusal
  <2>11. CASE Decision
    BY <2>3, <2>11 DEF Decision, Codes
  <2>12. CASE Forget
    BY <2>12 DEF Forget, NothingInside, NoEnvelope, NoOutcome, Codes
  <2>. QED
    BY <2>1, <2>2, <2>4, <2>5, <2>6, <2>7, <2>8, <2>9, <2>10, <2>11, <2>12 DEF EvalNext
<1>. QED
  BY <1>1, <1>2, PTL DEF EvalSpec

(***************************************************************************)
(* Types of a call: a refusal has a code, whoever refused, nothing else    *)
(* has one, and only a decision allows.                                    *)
(***************************************************************************)
THEOREM EvalTypeCorrect == EvalSpec => []EvalTypeOK
<1>1. CallTypes => EvalTypeOK
  BY DEF CallTypes
<1>. QED
  BY <1>1, CallTyped, PTL

LEMMA CallInvInit == EvalInit => CallInv
BY DEF EvalInit, CallInv, Preparing, NoOutcome

\* The first pass, up to a document that is shown or handed to the second.
LEMMA FirstPass ==
    ASSUME CallTypes, CallTypes', CallInv, pass = 1, EvalNext
    PROVE  CallInv'
<1>. USE DEF CallInv, Preparing
<1>1. ASSUME NEW c \in {"evaluate", "evaluateAll", "toWire"}, NEW q \in Questions, Ask(c, q)
      PROVE  CallInv'
  BY <1>1, QuestionsAreAsked DEF Ask, NoOutcome
<1>2. ASSUME NEW o, End(o), o.kind # "document", stage \notin {"idle", "done"} PROVE CallInv'
  BY <1>2 DEF End
<1>3. CASE RefuseAttribute \/ RefuseEmptyEnvelope \/ RefuseIncomplete \/ RefuseMalformed
  BY <1>2, <1>3
     DEF RefuseAttribute, RefuseEmptyEnvelope, RefuseIncomplete, RefuseMalformed, Refusal
<1>4. CASE AssertionFails
  BY <1>2, <1>4 DEF AssertionFails, Error
<1>5. CASE resolveEnvelope
  BY <1>5, ResolvedOnce DEF resolveEnvelope, NoOutcome
<1>6. CASE checkEnvelopeComplete
  BY <1>6 DEF checkEnvelopeComplete, GoOn, Complete, NoOutcome
<1>7. CASE assertFullyResolved
  BY <1>7 DEF assertFullyResolved, GoOn, NoOutcome
<1>8. CASE validateEnvelopeOrRefuse
  <2>. USE <1>8
  <2>1. stage = "validating" /\ FitsSchema(envelope) /\ values' = stripUndefined(values)
        /\ envelope' = envelope /\ asked' = asked /\ built' = values' /\ outcome = NoOutcome
    BY DEF validateEnvelopeOrRefuse
  <2>2. /\ asked \in Inside /\ values \in Inside /\ values = resolveValue(asked)
        /\ Settled(values) /\ values \in Heap /\ Envelope(envelope)
    BY <2>1, ResolvedOnce, InsideIsHeap DEF CallTypes, EvalTypeOK, Envelope
  <2>3. values' \in Inside /\ values' \in Heap /\ Settled(values') /\ Stripped(values')
        /\ \A n \in Node : values'[n] \subseteq values[n]
    BY <2>1, <2>2, StrippedOnce, InsideIsHeap
  <2>4. ~TooDeep(envelope, values') /\ ~AttributeLeft(envelope, values')
    BY <2>1, <2>2, <2>3, LessInside
  <2>5. Faithful'
    <3>1. ASSUME NEW p \in DOMAIN envelope
          PROVE  /\ Walked(asked, Bags(envelope[p])) /\ Walked(values', Bags(envelope[p]))
                 /\ \A n \in Within(asked, Bags(envelope[p])) : KindOf[n] # "unknown"
                 /\ Said(values', Bags(envelope[p])) = Said(asked, Bags(envelope[p]))
                 /\ ~HoldsAttribute(values', Bags(envelope[p]))
      <4>1. ~Unestablished(envelope, asked) /\ ~TooDeep(envelope, resolveValue(asked))
        BY <2>1, <2>2
      <4>. QED
        BY <2>1, <2>2, <2>4, <4>1, DocumentSaysTheSame DEF AttributeLeft
    <3>. QED
      BY <2>1, <3>1 DEF Faithful
  <2>6. DOMAIN envelope # {} /\ Complete(envelope)
    BY <2>1
  <2>7. CASE /\ pass' = 2 /\ stage' = "resolving" /\ outcome' = outcome
             /\ call # "toWire" /\ call' = call
    BY <2>1, <2>2, <2>3, <2>4, <2>5, <2>6, <2>7 DEF Prepared, NoOutcome
  <2>8. CASE pass' = 1 /\ stage' = "done" /\ outcome' = Error("document")
    BY <2>1, <2>2, <2>3, <2>5, <2>8
  <2>. QED
    BY <2>7, <2>8 DEF validateEnvelopeOrRefuse
<1>9. CASE Forget
  BY <1>9 DEF Forget, NoOutcome
<1>. QED
  BY <1>1, <1>3, <1>4, <1>5, <1>6, <1>7, <1>8, <1>9
     DEF EvalNext, Answer, NoAnswer, RefuseCredentials, decodeRefusal, Uninterpretable, Decision

\* The second pass: of all the refusals none applies.
LEMMA SecondPass ==
    ASSUME CallTypes, CallTypes', CallInv, pass = 2, EvalNext
    PROVE  CallInv'
<1>. USE DEF CallInv, Prepared
<1>1. values \in Inside /\ values \in Heap /\ Envelope(envelope)
  BY InsideIsHeap DEF CallTypes, EvalTypeOK, Envelope
<1>2. ~Unestablished(envelope, values) /\ ~checkComplete(envelope)
  BY <1>1, NothingToRefuse DEF Complete, FitsSchema
<1>3. resolveValue(values) = values /\ stripUndefined(values) = values
  BY <1>1, ResolvedOnce, StrippedOnce
<1>4. ASSUME NEW o, End(o), o.kind \notin {"clientRefusal", "document"},
             o.kind = "protocolError" => reply # NoOutcome
      PROVE  CallInv'
  BY <1>4 DEF End, Faithful
<1>5. ~RefuseAttribute /\ ~RefuseEmptyEnvelope /\ ~RefuseIncomplete /\ ~AssertionFails
      /\ ~RefuseMalformed
  BY <1>2 DEF RefuseAttribute, RefuseEmptyEnvelope, RefuseIncomplete, AssertionFails, RefuseMalformed
<1>6. CASE resolveEnvelope \/ checkEnvelopeComplete \/ assertFullyResolved
  BY <1>3, <1>6
     DEF resolveEnvelope, checkEnvelopeComplete, assertFullyResolved, GoOn, Faithful, NoOutcome
<1>7. CASE validateEnvelopeOrRefuse
  BY <1>3, <1>7 DEF validateEnvelopeOrRefuse, Faithful, NoOutcome
<1>8. ASSUME NEW r \in Reply, Answer(r) PROVE CallInv'
  BY <1>8 DEF Answer, Faithful, NoOutcome
<1>9. CASE NoAnswer \/ RefuseCredentials \/ decodeRefusal
  BY <1>4, <1>9 DEF NoAnswer, RefuseCredentials, decodeRefusal, Error, Refusal
<1>10. CASE Uninterpretable
  <2>1. reply # NoOutcome
    BY <1>10, NoOutcomeIsNoReply DEF Uninterpretable, CallTypes
  <2>. QED
    BY <1>4, <1>10, <2>1 DEF Uninterpretable, Error
<1>11. CASE Decision
  BY <1>4, <1>11 DEF Decision
<1>12. CASE Forget
  BY <1>12 DEF Forget, Preparing, NoOutcome
<1>. QED
  BY <1>5, <1>6, <1>7, <1>8, <1>9, <1>10, <1>11, <1>12 DEF EvalNext, Ask

LEMMA CallInvariant == EvalSpec => []CallInv
<1>1. CallTypes /\ CallTypes' /\ CallInv /\ [EvalNext]_evalVars => CallInv'
  <2>. SUFFICES ASSUME CallTypes, CallTypes', CallInv, [EvalNext]_evalVars PROVE CallInv'
    OBVIOUS
  <2>1. CASE UNCHANGED evalVars
    BY <2>1 DEF evalVars, CallInv, Preparing, Prepared, Faithful
  <2>2. CASE EvalNext
    <3>1. pass = 1 \/ pass = 2
      BY DEF CallTypes, EvalTypeOK
    <3>. QED
      BY <2>2, <3>1, FirstPass, SecondPass
  <2>. QED
    BY <2>1, <2>2
<1>. QED
  BY <1>1, CallInvInit, CallTyped, PTL DEF EvalSpec

(***************************************************************************)
(* A document on the wire says what the application established, for       *)
(* values of any shape, in bags of any depth, with or without an end, in   *)
(* envelopes of any number of entries (resolveValue, assertFullyResolved). *)
(***************************************************************************)
THEOREM SentAsEstablished == EvalSpec => []SendsWhatWasEstablished
<1>1. CallTypes /\ CallInv => SendsWhatWasEstablished
  BY DEF CallTypes, EvalTypeOK, CallInv, Preparing, Faithful, SendsWhatWasEstablished, Sent
<1>. QED
  BY <1>1, CallTyped, CallInvariant, PTL

(***************************************************************************)
(* The second pass refuses nothing that the first let through and leaves   *)
(* the document as it is, for any envelope and any values in it.           *)
(***************************************************************************)
THEOREM SecondPassIsIdle == EvalSpec => []SecondPassChangesNothing
<1>1. CallInv => SecondPassChangesNothing
  BY DEF CallInv, Prepared, SecondPassChangesNothing
<1>. QED
  BY <1>1, CallInvariant, PTL
=============================================================================

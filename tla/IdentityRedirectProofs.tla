----------------------- MODULE IdentityRedirectProofs -----------------------
(***************************************************************************)
(* Proofs about the identity site and its redirect follower, for any set   *)
(* of places and any redirect limits.                                      *)
(***************************************************************************)
EXTENDS IdentityRedirect, TLAPS

\* The follower runs exactly for identified calls, from a bag that holds everything;
\* native fetch never holds the identity, and abroad never the tenant secret.
RedirectInv ==
    /\ stage = "following" =>
          Identified(call) /\ headers = FamilyHeaders(call.family) \cup {UserToken}
    /\ stage = "fetching" =>
          /\ ~Identified(call)
          /\ UserToken \notin request.sent
          /\ request.place \notin Home => "authorization" \notin request.sent
    /\ CredentialsStayHome
    /\ IdentityKeptAtHome
    /\ ClearedMeansCleared

LEMMA RedirectTypeCorrect == FetchSpec => []FetchTypeOK
<1>. USE DEF FetchTypeOK, Calls, Requests, Shapes, Methods, Families, AnyHeader,
             CREDENTIAL_HEADERS, FamilyHeaders, UserToken, TokenChoices
<1>1. FetchInit => FetchTypeOK
    BY RedirectAssumption DEF FetchInit
<1>2. FetchTypeOK /\ [FetchNext]_fetchVars => FetchTypeOK'
    <2>. SUFFICES ASSUME FetchTypeOK, [FetchNext]_fetchVars PROVE FetchTypeOK'
        OBVIOUS
    <2>1. ASSUME NEW c \in Calls, NEW place \in Home, Send(c, place) PROVE FetchTypeOK'
        <3>. DEFINE bag == applyReadIdentity(FamilyHeaders(c.family), place, c)
        <3>1. bag \subseteq AnyHeader
            BY DEF applyReadIdentity
        <3>2. /\ request' = [place |-> place, method |-> c.method,
                             body |-> CarriesBody(c.method), sent |-> bag]
              /\ headers' = bag /\ hop' = 0 /\ abroad' = {} /\ call' = c
              /\ reference' = [method |-> c.method, body |-> CarriesBody(c.method)]
              /\ stage' \in {"following", "fetching"}
            BY <2>1 DEF Send
        <3>3. place \in Place /\ c.method \in Methods /\ CarriesBody(c.method) \in BOOLEAN
            BY RedirectAssumption DEF CarriesBody
        <3>. HIDE DEF bag
        <3>. QED BY <3>1, <3>2, <3>3, RedirectAssumption
    <2>2. CASE FinalAnswer \/ Fail \/ StopFollowing \/ Return
        BY <2>2 DEF FinalAnswer, Fail, StopFollowing, Return
    <2>3. ASSUME NEW code \in IDENTITY_REDIRECT_STATUSES, NEW to \in Place,
                 FollowByHand(code, to)
          PROVE  FetchTypeOK'
        <3>1. HopHeaders(headers, to, call) \subseteq AnyHeader
            BY DEF HopHeaders, applyReadIdentity, stripCredentialsOffOrigin
        <3>2. HandShape(code, call) \in Shapes
            BY DEF HandShape, CarriesBody
        <3>3. FetchShape(code, reference) \in Shapes
            BY DEF FetchShape
        <3>4. NextRequest(code, to) \in Requests
            BY <3>1, <3>2 DEF NextRequest
        <3>5. Received(NextRequest(code, to)) \subseteq AnyHeader
            BY <3>4 DEF Received
        <3>6. /\ request' \in Requests /\ reference' \in Shapes
              /\ abroad' \subseteq AnyHeader
              /\ call' \in Calls /\ headers' \subseteq AnyHeader
            BY <2>3, <3>3, <3>4, <3>5 DEF FollowByHand, Follow
        <3>7. stage' = "following" /\ hop' \in Nat /\ hop' <= MaxRedirects
            BY <2>3, RedirectAssumption DEF FollowByHand, Follow
        <3>. QED BY <3>6, <3>7
    <2>4. ASSUME NEW code \in IDENTITY_REDIRECT_STATUSES, NEW to \in Place,
                 FetchFollows(code, to)
          PROVE  FetchTypeOK'
        <3>1. FetchShape(code, reference) \in Shapes
            BY DEF FetchShape
        <3>2. request' \in Requests
            BY <2>4, <3>1 DEF FetchFollows
        <3>3. abroad' = abroad \cup Received(request')
            BY <2>4 DEF FetchFollows
        <3>4. Received(request') \subseteq AnyHeader
            BY <3>2 DEF Received
        <3>5. /\ stage' = "fetching" /\ hop' \in Nat /\ hop' <= FetchLimit
            BY <2>4, RedirectAssumption DEF FetchFollows
        <3>. QED BY <2>4, <3>1, <3>2, <3>3, <3>4, <3>5 DEF FetchFollows
    <2>5. CASE UNCHANGED fetchVars
        BY <2>5 DEF fetchVars
    <2>. QED BY <2>1, <2>2, <2>3, <2>4, <2>5 DEF FetchNext, Exchange, Redirect
<1>. QED BY <1>1, <1>2, PTL DEF FetchSpec

LEMMA RedirectInvariant == FetchSpec => []RedirectInv
<1>. USE DEF CredentialsStayHome, IdentityKeptAtHome, ClearedMeansCleared
<1>1. FetchInit => RedirectInv
    BY DEF FetchInit, RedirectInv
<1>2. FetchTypeOK /\ RedirectInv /\ [FetchNext]_fetchVars => RedirectInv'
    <2>. SUFFICES ASSUME FetchTypeOK, RedirectInv, [FetchNext]_fetchVars PROVE RedirectInv'
        OBVIOUS
    <2>1. ASSUME NEW c \in Calls, NEW place \in Home, Send(c, place) PROVE RedirectInv'
        <3>. DEFINE bag == applyReadIdentity(FamilyHeaders(c.family), place, c)
        <3>1. UserToken \notin FamilyHeaders(c.family)
            BY DEF Calls, Families, FamilyHeaders, UserToken
        <3>2. bag = FamilyHeaders(c.family) \cup (IF Identified(c) THEN {UserToken} ELSE {})
            BY <3>1 DEF applyReadIdentity
        <3>3. /\ call' = c /\ headers' = bag /\ abroad' = {}
              /\ request'.place = place /\ request'.sent = bag
              /\ stage' = IF UserToken \in bag THEN "following" ELSE "fetching"
            BY <2>1 DEF Send
        <3>4. c.perCall = "empty" => ~Identified(c)
            BY DEF Identified, TokenOf
        <3>5. UserToken \in bag <=> Identified(c)
            BY <3>1, <3>2
        <3>6. stage' = "following" <=> Identified(c)
            BY <3>3, <3>5
        <3>7. stage' = "fetching" <=> ~Identified(c)
            BY <3>3, <3>5
        <3>. HIDE DEF bag
        <3>. QED BY <3>2, <3>3, <3>4, <3>5, <3>6, <3>7 DEF RedirectInv, Identified
    <2>2. CASE FinalAnswer \/ Fail \/ StopFollowing \/ Return
        BY <2>2 DEF FinalAnswer, Fail, StopFollowing, Return, RedirectInv, Identified
    <2>3. ASSUME NEW code \in IDENTITY_REDIRECT_STATUSES, NEW to \in Place,
                 FollowByHand(code, to)
          PROVE  RedirectInv'
        <3>. DEFINE sent == HopHeaders(headers, to, call)
        <3>1. Identified(call) /\ headers = FamilyHeaders(call.family) \cup {UserToken}
            BY <2>3 DEF FollowByHand, RedirectInv
        <3>2. /\ request'.place = to /\ request'.sent = sent
              /\ abroad' = abroad \cup (IF to \in Home THEN {} ELSE sent)
              /\ stage' = stage /\ stage = "following" /\ call' = call /\ headers' = headers
            BY <2>3 DEF FollowByHand, Follow, NextRequest, Received
        <3>3. to \notin Home => sent \cap CREDENTIAL_HEADERS = {}
            BY DEF HopHeaders, applyReadIdentity, stripCredentialsOffOrigin
        <3>4. to \in Home => sent = headers
            BY <3>1 DEF HopHeaders, applyReadIdentity
        <3>5. call.perCall # "empty"
            BY <3>1 DEF Identified, TokenOf
        <3>. HIDE DEF sent
        <3>6. abroad' \cap CREDENTIAL_HEADERS = {}
            BY <3>1, <3>2, <3>3 DEF RedirectInv
        <3>7. {"authorization", UserToken} \subseteq CREDENTIAL_HEADERS
            BY DEF CREDENTIAL_HEADERS
        <3>. QED BY <3>1, <3>2, <3>4, <3>5, <3>6, <3>7 DEF RedirectInv, Identified
    <2>4. ASSUME NEW code \in IDENTITY_REDIRECT_STATUSES, NEW to \in Place,
                 FetchFollows(code, to)
          PROVE  RedirectInv'
        <3>1. /\ request'.place = to /\ request'.sent \subseteq request.sent
              /\ to \notin Home /\ request.place \in Home =>
                    "authorization" \notin request'.sent
              /\ abroad' = abroad \cup (IF to \in Home THEN {} ELSE request'.sent)
              /\ stage' = stage /\ stage = "fetching" /\ call' = call /\ headers' = headers
            BY <2>4 DEF FetchFollows, Received
        <3>2. /\ ~Identified(call) /\ UserToken \notin request'.sent
              /\ to \notin Home => "authorization" \notin request'.sent
            BY <3>1 DEF RedirectInv
        <3>. QED BY <3>1, <3>2 DEF RedirectInv, Identified
    <2>5. CASE UNCHANGED fetchVars
        BY <2>5 DEF fetchVars, RedirectInv, Identified
    <2>. QED BY <2>1, <2>2, <2>3, <2>4, <2>5 DEF FetchNext, Exchange, Redirect
<1>. QED BY <1>1, <1>2, RedirectTypeCorrect, PTL DEF FetchSpec

\* No chain of redirects carries a credential header of an identified call abroad.
THEOREM CredentialsHome == FetchSpec => []CredentialsStayHome
<1>1. RedirectInv => CredentialsStayHome
    BY DEF RedirectInv
<1>. QED BY <1>1, RedirectInvariant, PTL

\* A hop back home presents the chosen identity and every credential again, and an
\* identity cleared for a call is presented nowhere.
THEOREM IdentityChosen == FetchSpec => []IdentityAsChosen
<1>1. RedirectInv => IdentityAsChosen
    BY DEF RedirectInv, IdentityAsChosen
<1>. QED BY <1>1, RedirectInvariant, PTL

\* What fetch would be sending is the first request or a GET without a body.
MirrorInv ==
    stage = "following" =>
        reference = FirstShape \/ reference = [method |-> "GET", body |-> FALSE]

(***************************************************************************)
(* Every hop made by hand is the one fetch would make, or, once a redirect *)
(* has changed the method, the first request's method and body again.      *)
(***************************************************************************)
THEOREM OnlyReturnsDepart == FetchSpec => DepartsOnlyByReturning
<1>1. FetchInit => MirrorInv
    BY DEF FetchInit, MirrorInv
<1>2. FetchTypeOK /\ MirrorInv /\ [FetchNext]_fetchVars => MirrorInv'
    <2>. SUFFICES ASSUME FetchTypeOK, MirrorInv, [FetchNext]_fetchVars PROVE MirrorInv'
        OBVIOUS
    <2>1. ASSUME NEW c \in Calls, NEW place \in Home, Send(c, place) PROVE MirrorInv'
        BY <2>1 DEF Send, MirrorInv, FirstShape, CarriesBody
    <2>2. CASE FinalAnswer \/ Fail \/ StopFollowing \/ Return
        BY <2>2 DEF FinalAnswer, Fail, StopFollowing, Return, MirrorInv, FirstShape, CarriesBody
    <2>3. ASSUME NEW code \in IDENTITY_REDIRECT_STATUSES, NEW to \in Place,
                 FollowByHand(code, to)
          PROVE  MirrorInv'
        <3>1. stage = "following" /\ call' = call /\ reference' = FetchShape(code, reference)
            BY <2>3 DEF FollowByHand, Follow
        <3>. QED BY <3>1 DEF FetchShape, MirrorInv, FirstShape
    <2>4. ASSUME NEW code \in IDENTITY_REDIRECT_STATUSES, NEW to \in Place,
                 FetchFollows(code, to)
          PROVE  MirrorInv'
        BY <2>4 DEF FetchFollows, MirrorInv, FirstShape, CarriesBody
    <2>5. CASE UNCHANGED fetchVars
        BY <2>5 DEF fetchVars, MirrorInv, FirstShape, CarriesBody
    <2>. QED BY <2>1, <2>2, <2>3, <2>4, <2>5 DEF FetchNext, Exchange, Redirect
<1>3. FetchTypeOK /\ MirrorInv /\ [FetchNext]_fetchVars
      => [stage = "following" /\ hop' = hop + 1 =>
             \/ ShapeOf(request') = reference'
             \/ reference.method # call.method /\ ShapeOf(request') = FirstShape]_fetchVars
    <2>. SUFFICES ASSUME FetchTypeOK, MirrorInv, FetchNext, stage = "following", hop' = hop + 1
                  PROVE  \/ ShapeOf(request') = reference'
                         \/ reference.method # call.method
                            /\ ShapeOf(request') = FirstShape
        OBVIOUS
    <2>1. PICK code \in IDENTITY_REDIRECT_STATUSES, to \in Place :
              FollowByHand(code, to)
        BY DEF FetchNext, Exchange, Redirect, Send, FinalAnswer, Fail, StopFollowing, Return,
               FetchFollows, FetchTypeOK
    <2>2. ShapeOf(request') = HandShape(code, call)
        BY <2>1 DEF FollowByHand, Follow, NextRequest, HandShape, ShapeOf
    <2>3. reference' = FetchShape(code, reference)
        BY <2>1 DEF FollowByHand, Follow
    <2>4. CASE code = 303
        BY <2>2, <2>3, <2>4 DEF HandShape, FetchShape
    <2>5. CASE code # 303 /\ reference.method # call.method
        <3>1. CASE code \in {301, 302} /\ call.method = "POST"
            <4>1. ShapeOf(request') = [method |-> "GET", body |-> FALSE]
                BY <2>2, <3>1 DEF HandShape
            <4>2. reference = [method |-> "GET", body |-> FALSE]
                BY <2>5 DEF MirrorInv, FirstShape
            <4>. QED BY <2>3, <2>5, <4>1, <4>2 DEF FetchShape
        <3>2. CASE ~(code \in {301, 302} /\ call.method = "POST")
            BY <2>2, <2>5, <3>2 DEF HandShape, FirstShape
        <3>. QED BY <3>1, <3>2
    <2>6. CASE code # 303 /\ reference.method = call.method
        <3>1. CarriesBody("GET") = FALSE
            BY DEF CarriesBody
        <3>2. ASSUME reference = [method |-> "GET", body |-> FALSE]
              PROVE  reference = FirstShape
            BY <2>6, <3>1, <3>2 DEF FirstShape
        <3>3. reference = FirstShape
            BY <3>2 DEF MirrorInv
        <3>. QED BY <2>2, <2>3, <2>6, <3>3 DEF HandShape, FetchShape, FirstShape
    <2>. QED BY <2>4, <2>5, <2>6
<1>. QED BY <1>1, <1>2, <1>3, RedirectTypeCorrect, PTL DEF FetchSpec, DepartsOnlyByReturning
=============================================================================

--------------------------- MODULE IdentityRedirect ---------------------------
(***************************************************************************)
(* AxonFlow._fetch (src/client.ts): the one site that attaches the         *)
(* per-user identity, and the redirect follower it runs by hand whenever   *)
(* an identity is attached.  The servers on the way answer as they like.   *)
(* Without an identity the platform's fetch follows by its own rules,      *)
(* which are modelled here as the external reference.                      *)
(***************************************************************************)
EXTENDS Integers, FiniteSets

CONSTANTS
    Place,         \* URLs a request can be sent to
    Home,          \* those of the configured endpoint's origin
    MaxRedirects,  \* MAX_IDENTITY_REDIRECTS
    FetchLimit     \* redirects the platform's fetch follows (20)

ASSUME RedirectAssumption ==
    /\ Home \subseteq Place /\ Home # {} /\ IsFiniteSet(Place)
    /\ MaxRedirects \in Nat /\ FetchLimit \in Nat

Methods == {"GET", "POST", "PUT"}
IDENTITY_REDIRECT_STATUSES == {301, 302, 303, 307, 308}
CarriesBody(m) == m \in {"POST", "PUT"}

UserToken == "x-user-token"
CREDENTIAL_HEADERS == {"authorization", UserToken, "x-client-id", "x-axonflow-client"}

\* The headers of the two request families: getAuthHeaders, and the portal's Cookie.
Families == {"agent", "portal"}
FamilyHeaders(f) == IF f = "portal" THEN {"cookie"}
                    ELSE {"authorization", "x-client-id", "x-axonflow-client"}
AnyHeader == CREDENTIAL_HEADERS \cup {"cookie"}

\* userToken on the config, and the per-call option: undefined, empty or a token.
TokenChoices == {"unset", "empty", "token"}

VARIABLES
    stage,     \* "idle"; "following" by hand; "fetching" natively; "returned"; "threw"
    call,      \* init, and the token choices of the call
    headers,   \* the credentials in the header bag the follower copies from
    request,   \* the request on the wire: place, method, body and credentials
    hop,       \* redirects followed so far
    abroad,    \* observed: credentials any place outside Home has received
    reference  \* observed: method and body fetch would be sending

fetchVars == <<stage, call, headers, request, hop, abroad, reference>>

Calls == [family : Families, method : Methods, client : TokenChoices, perCall : TokenChoices]
Shapes == [method : Methods, body : BOOLEAN]
Requests == [place : Place, method : Methods, body : BOOLEAN, sent : SUBSET AnyHeader]

FetchTypeOK ==
    /\ stage \in {"idle", "following", "fetching", "returned", "threw"}
    /\ call \in Calls
    /\ headers \subseteq AnyHeader
    /\ request \in Requests
    /\ hop \in Nat
    /\ stage = "following" => hop <= MaxRedirects
    /\ stage = "fetching" => hop <= FetchLimit
    /\ abroad \subseteq AnyHeader
    /\ reference \in Shapes

Received(r) == IF r.place \in Home THEN {} ELSE r.sent

-----------------------------------------------------------------------------
(* The identity of a call. *)

\* `identity === undefined ? config.userToken : identity`
TokenOf(c) == IF c.perCall = "unset" THEN c.client ELSE c.perCall
Identified(c) == TokenOf(c) = "token"

\* applyReadIdentity: any spelling is removed, a non-empty token is set at home only.
applyReadIdentity(bag, place, c) ==
    (bag \ {UserToken}) \cup
        (IF Identified(c) /\ place \in Home THEN {UserToken} ELSE {})

StripTokenOnly(bag) == bag \ {UserToken}
stripCredentialsOffOrigin(bag) == bag \ CREDENTIAL_HEADERS

StripEverywhere(bag, place, c) ==
    applyReadIdentity(stripCredentialsOffOrigin(bag), place, c)
HopHeaders(bag, place, c) ==
    applyReadIdentity(IF place \in Home THEN bag ELSE stripCredentialsOffOrigin(bag),
                      place, c)

-----------------------------------------------------------------------------
(* The follower. *)

\* A request method calls _fetch on a URL of the endpoint.
Send(c, place) ==
    LET bag == applyReadIdentity(FamilyHeaders(c.family), place, c)
    IN  /\ stage = "idle"
        /\ call' = c
        /\ headers' = bag
        /\ request' = [place |-> place, method |-> c.method,
                       body |-> CarriesBody(c.method), sent |-> bag]
        /\ hop' = 0
        /\ abroad' = {}
        /\ reference' = [method |-> c.method, body |-> CarriesBody(c.method)]
        /\ stage' = IF UserToken \in bag THEN "following" ELSE "fetching"

\* A final status, or a redirect without a Location header.
FinalAnswer ==
    /\ stage \in {"following", "fetching"}
    /\ stage' = "returned"
    /\ UNCHANGED <<call, headers, request, hop, abroad, reference>>

\* The network, or the request's timeout.
Fail ==
    /\ stage \in {"following", "fetching"}
    /\ stage' = "threw"
    /\ UNCHANGED <<call, headers, request, hop, abroad, reference>>

\* What fetch's own rules make of a redirected request of shape s.
FetchShape(code, s) ==
    IF code = 303 \/ (code \in {301, 302} /\ s.method = "POST")
    THEN [method |-> "GET", body |-> FALSE]
    ELSE s

\* What the follower sends: it asks what init.method was, at every hop.  Of the methods
\* only POST becomes GET on 301 and 302, as in fetch; client.ts:785 says any but GET.
PostShape(code, c) ==
    IF code \in {301, 302, 303} /\ c.method = "POST"
    THEN [method |-> "GET", body |-> FALSE]
    ELSE [method |-> c.method, body |-> CarriesBody(c.method)]
HandShape(code, c) ==
    IF code = 303 \/ (code \in {301, 302} /\ c.method = "POST")
    THEN [method |-> "GET", body |-> FALSE]
    ELSE [method |-> c.method, body |-> CarriesBody(c.method)]

NextRequest(code, to) ==
    LET shape == HandShape(code, call)
    IN  [place |-> to, method |-> shape.method, body |-> shape.body,
         sent |-> HopHeaders(headers, to, call)]

Follow(code, to) ==
    /\ request' = NextRequest(code, to)
    /\ abroad' = abroad \cup Received(NextRequest(code, to))
    /\ reference' = FetchShape(code, reference)
    /\ UNCHANGED <<stage, call, headers>>

FollowUncounted(code, to) ==
    stage = "following" /\ hop < MaxRedirects /\ hop' = hop /\ Follow(code, to)
FollowByHand(code, to) ==
    stage = "following" /\ hop < MaxRedirects /\ hop' = hop + 1 /\ Follow(code, to)

\* The loop ends: "stopped after 10 redirects".
StopFollowing ==
    /\ stage = "following" /\ hop = MaxRedirects
    /\ stage' = "threw"
    /\ UNCHANGED <<call, headers, request, hop, abroad, reference>>

\* External: fetch drops Authorization and Cookie when the origin changes, for good.
FetchFollows(code, to) ==
    LET shape == FetchShape(code, reference)
        kept == IF (to \in Home) = (request.place \in Home)
                THEN request.sent ELSE request.sent \ {"authorization", "cookie"}
        next == [place |-> to, method |-> shape.method, body |-> shape.body,
                 sent |-> kept]
    IN  /\ stage = "fetching" /\ hop < FetchLimit
        /\ hop' = hop + 1
        /\ request' = next
        /\ abroad' = abroad \cup Received(next)
        /\ reference' = shape
        /\ UNCHANGED <<stage, call, headers>>

\* The caller has its response or its error, and may call again.
Return ==
    /\ stage \in {"returned", "threw"}
    /\ stage' = "idle"
    /\ UNCHANGED <<call, headers, request, hop, abroad, reference>>

Redirect(code, to) == FollowByHand(code, to) \/ FetchFollows(code, to)

FetchInit ==
    /\ stage = "idle"
    /\ call = [family |-> "agent", method |-> "GET", client |-> "unset",
               perCall |-> "unset"]
    /\ headers = {}
    /\ \E place \in Home :
          request = [place |-> place, method |-> "GET", body |-> FALSE, sent |-> {}]
    /\ hop = 0
    /\ abroad = {}
    /\ reference = [method |-> "GET", body |-> FALSE]

Exchange ==
    \/ FinalAnswer \/ Fail \/ StopFollowing
    \/ \E code \in IDENTITY_REDIRECT_STATUSES, to \in Place : Redirect(code, to)

FetchNext ==
    \/ \E c \in Calls, place \in Home : Send(c, place)
    \/ Exchange
    \/ Return

FetchSpec == FetchInit /\ [][FetchNext]_fetchVars

\* Every hop is answered, fails or reaches the request's AbortSignal.timeout, which every
\* caller of _fetch sets but streamExecutionStatus: its one request may wait for ever.
FetchFairSpec == FetchSpec /\ WF_fetchVars(Exchange)

-----------------------------------------------------------------------------

(***************************************************************************)
(* While an identity is attached no place outside the configured origin    *)
(* ever receives one of CREDENTIAL_HEADERS, on any route of redirects, and *)
(* without one the tenant secret still never leaves.                       *)
(***************************************************************************)
CredentialsStayHome ==
    /\ Identified(call) => abroad \cap CREDENTIAL_HEADERS = {}
    /\ abroad \cap {"authorization", UserToken} = {}

(***************************************************************************)
(* The other direction (read-identity.test.ts:530): every hop that lands   *)
(* at home, also after a detour abroad, presents the identity and all the  *)
(* credentials of its family, so a redirect never unscopes a read.         *)
(***************************************************************************)
IdentityKeptAtHome ==
    stage = "following" /\ request.place \in Home =>
        request.sent = FamilyHeaders(call.family) \cup {UserToken}

(***************************************************************************)
(* A per-call identity is a deliberate choice: the empty one presents no   *)
(* identity anywhere and never falls back to the client's (client.ts:736). *)
(***************************************************************************)
ClearedMeansCleared ==
    call.perCall = "empty" => UserToken \notin request.sent \cup headers

(***************************************************************************)
(* The identity of a call is the one its caller chose, on every hop: the   *)
(* two statements above (_fetch, applyReadIdentity).                       *)
(***************************************************************************)
IdentityAsChosen == IdentityKeptAtHome /\ ClearedMeansCleared

(***************************************************************************)
(* However many redirects change the method or keep it, the one way a hop  *)
(* made by hand departs from the hop fetch would make is back to the call: *)
(* after an earlier redirect has made it a GET, the method and body of the *)
(* first request are sent again.  It never keeps a method that this very   *)
(* redirect changes, nor parts a method from its body (_fetch).            *)
(***************************************************************************)
ShapeOf(r) == [method |-> r.method, body |-> r.body]
FirstShape == [method |-> call.method, body |-> CarriesBody(call.method)]
DepartsOnlyByReturning ==
    [][stage = "following" /\ hop' = hop + 1 =>
          \/ ShapeOf(request') = reference'
          \/ reference.method # call.method /\ ShapeOf(request') = FirstShape]_fetchVars

(***************************************************************************)
(* Whatever the places redirect to, in circles included, a call comes to   *)
(* its response or its error: the hops of one call are counted across      *)
(* places, methods and statuses (_fetch).                                  *)
(***************************************************************************)
RedirectsEnd == stage \in {"following", "fetching"} ~> stage \in {"returned", "threw"}

-----------------------------------------------------------------------------
(* What the source's comment says and the code does not do. *)

(***************************************************************************)
(* "303, and 301/302 on a non-GET, become GET without a body per the spec" *)
(* (client.ts:785): by the spec a request that became a GET is one from    *)
(* then on, and every hop is the one fetch would make.  The method is      *)
(* asked of init, the first request's (client.ts:786), so that a later 307 *)
(* or 308 sends the POST and its body again.                               *)
(***************************************************************************)
MethodAsFetch == stage = "following" => ShapeOf(request) = reference
=============================================================================

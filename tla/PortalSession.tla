---------------------------- MODULE PortalSession ----------------------------
(***************************************************************************)
(* The Customer Portal session of src/client.ts: one cookie per client,    *)
(* written when a login or a logout RETURNS, not when it is called.        *)
(* Clients derived by asUser start from a copy.  Calls overlap, their      *)
(* answers arrive in any order, and some are lost or refused.              *)
(***************************************************************************)
EXTENDS Naturals

CONSTANTS
    Client,    \* clients; Original is constructed, the others derived by asUser
    Original,
    Session,   \* sessions the portal can mint, each at most once
    Call,      \* bound: session calls under way at once
    None       \* null

ASSUME PortalAssumption ==
    Original \in Client /\ None \notin Session \cup Client

VARIABLES
    exists,  \* clients made so far
    cookie,  \* sessionCookie of each client
    op,      \* what each call slot is doing
    caller,  \* for which client
    granted  \* the session_id the portal has answered a login with, or None

\* Observed, to state the properties.
VARIABLES
    owner,      \* the client whose login minted each session
    inherited,  \* what each derived client was given
    loggedOut,  \* a logout returned with no login under way or called since
    relogin     \* the session of the client's last login to return with its Set-Cookie
                \* header readable, since its last logout returned; or None

code == <<exists, cookie, op, caller, granted>>
observed == <<owner, inherited, loggedOut, relogin>>
vars == <<code, observed>>

TypeOK ==
    /\ exists \subseteq Client
    /\ cookie \in [Client -> Session \cup {None}]
    /\ op \in [Call -> {"none", "login", "accepted", "logout"}]
    /\ caller \in [Call -> exists]
    /\ granted \in [Call -> Session \cup {None}]
    /\ owner \in [Session -> Client \cup {None}]
    /\ inherited \in [Client -> Session \cup {None}]
    /\ loggedOut \in [Client -> BOOLEAN]
    /\ relogin \in [Client -> Session \cup {None}]

LoginUnderWay(c) == \E k \in Call : op[k] \in {"login", "accepted"} /\ caller[k] = c

\* isLoggedIn, and what portalRequest and portalRequestText ask before they send.
isLoggedIn(c) == cookie[c] # None

Begin(k, c, what) ==
    /\ c \in exists /\ op[k] = "none"
    /\ op' = [op EXCEPT ![k] = what]
    /\ caller' = [caller EXCEPT ![k] = c]
    /\ granted' = [granted EXCEPT ![k] = None]

-----------------------------------------------------------------------------

CallLogin(k, c) ==
    /\ Begin(k, c, "login")
    /\ loggedOut' = [loggedOut EXCEPT ![c] = FALSE]
    /\ UNCHANGED <<exists, cookie, owner, inherited, relogin>>

\* External: the portal accepts the credentials.
PortalAccepts(k, s) ==
    /\ op[k] = "login" /\ owner[s] = None
    /\ op' = [op EXCEPT ![k] = "accepted"]
    /\ granted' = [granted EXCEPT ![k] = s]
    /\ owner' = [owner EXCEPT ![s] = caller[k]]
    /\ UNCHANGED <<exists, cookie, caller, inherited, loggedOut, relogin>>

\* The Set-Cookie header wins; the body's session_id only fills an empty place.
OnlyIfNone(held, s, readable) == IF held = None THEN s ELSE held
Stored(held, s, readable) == IF readable \/ held = None THEN s ELSE held

SharedCookie(k, readable) ==
    /\ op[k] = "accepted"
    /\ op' = [op EXCEPT ![k] = "none"]
    /\ cookie' = [c \in Client |-> IF c \in exists THEN granted[k] ELSE None]
    /\ relogin' = [relogin EXCEPT ![caller[k]] = IF readable THEN granted[k] ELSE @]
    /\ UNCHANGED <<exists, caller, granted, owner, inherited, loggedOut>>
LoginReturns(k, readable) ==
    /\ op[k] = "accepted"
    /\ op' = [op EXCEPT ![k] = "none"]
    /\ cookie' = [cookie EXCEPT ![caller[k]] = Stored(@, granted[k], readable)]
    /\ relogin' = [relogin EXCEPT ![caller[k]] = IF readable THEN granted[k] ELSE @]
    /\ UNCHANGED <<exists, caller, granted, owner, inherited, loggedOut>>

\* Refused, timed out, or answered by a body that is no JSON: the cookie stays.
LoginFails(k) ==
    /\ op[k] \in {"login", "accepted"}
    /\ op' = [op EXCEPT ![k] = "none"]
    /\ UNCHANGED <<exists, cookie, caller, granted, observed>>

\* Without a cookie logoutFromPortal returns at once and sends nothing.
CallLogout(k, c) ==
    /\ isLoggedIn(c)
    /\ Begin(k, c, "logout")
    /\ UNCHANGED <<exists, cookie, owner, inherited, loggedOut, relogin>>

\* Whatever came of the request, errors included, the cookie is cleared after it.
KeptOnError(k, failed) ==
    /\ op[k] = "logout"
    /\ op' = [op EXCEPT ![k] = "none"]
    /\ cookie' = [cookie EXCEPT ![caller[k]] = IF failed THEN @ ELSE None]
    /\ loggedOut' = [loggedOut EXCEPT ![caller[k]] = ~LoginUnderWay(caller[k])]
    /\ relogin' = [relogin EXCEPT ![caller[k]] = None]
    /\ UNCHANGED <<exists, caller, granted, owner, inherited>>
LogoutReturns(k, failed) ==
    /\ op[k] = "logout"
    /\ op' = [op EXCEPT ![k] = "none"]
    /\ cookie' = [cookie EXCEPT ![caller[k]] = None]
    /\ loggedOut' = [loggedOut EXCEPT ![caller[k]] = ~LoginUnderWay(caller[k])]
    /\ relogin' = [relogin EXCEPT ![caller[k]] = None]
    /\ UNCHANGED <<exists, caller, granted, owner, inherited>>

\* asUser: Object.assign copies the cookie's value; calls under way stay with c.
asUser(c, d) ==
    /\ c \in exists /\ d \notin exists
    /\ exists' = exists \cup {d}
    /\ cookie' = [cookie EXCEPT ![d] = cookie[c]]
    /\ inherited' = [inherited EXCEPT ![d] = cookie[c]]
    /\ UNCHANGED <<op, caller, granted, owner, loggedOut, relogin>>

Init ==
    /\ exists = {Original}
    /\ cookie = [c \in Client |-> None]
    /\ op = [k \in Call |-> "none"]
    /\ caller = [k \in Call |-> Original]
    /\ granted = [k \in Call |-> None]
    /\ owner = [s \in Session |-> None]
    /\ inherited = [c \in Client |-> None]
    /\ loggedOut = [c \in Client |-> FALSE]
    /\ relogin = [c \in Client |-> None]

Next ==
    \/ \E k \in Call, c \in Client : CallLogin(k, c) \/ CallLogout(k, c)
    \/ \E k \in Call, s \in Session : PortalAccepts(k, s)
    \/ \E k \in Call, readable \in BOOLEAN : LoginReturns(k, readable)
    \/ \E k \in Call, failed \in BOOLEAN : LogoutReturns(k, failed)
    \/ \E k \in Call : LoginFails(k)
    \/ \E c, d \in Client : asUser(c, d)

Spec == Init /\ [][Next]_vars

-----------------------------------------------------------------------------

(***************************************************************************)
(* "A loginToPortal on either after the derivation is invisible to the     *)
(* other" (client.ts:3160-3163): a client acts only under a session that   *)
(* its own login minted or that it was given when it was derived, however  *)
(* the logins of several clients overlap.                                  *)
(***************************************************************************)
SiblingsApart ==
    \A c \in Client : isLoggedIn(c) =>
        owner[cookie[c]] = c \/ cookie[c] = inherited[c]

(***************************************************************************)
(* Once a logout has returned and until the client's next login is called, *)
(* the client refuses portal requests, also when the logout request itself *)
(* failed: no answer that arrives late brings a session back.              *)
(***************************************************************************)
LogoutHolds == \A c \in Client : loggedOut[c] => ~isLoggedIn(c)

(***************************************************************************)
(* A login that returned takes effect, also while another session is held: *)
(* the client acts under the last one whose Set-Cookie header it could     *)
(* read, and a later login whose header it could not read (in a browser)   *)
(* leaves it there (loginToPortal), until a logout returns.                *)
(***************************************************************************)
ReloginTakesEffect == \A c \in Client : relogin[c] # None => cookie[c] = relogin[c]

\* Inductive: a login under way has minted for its own caller, and has reopened it.
SessionInv ==
    /\ TypeOK
    /\ SiblingsApart
    /\ LogoutHolds
    /\ ReloginTakesEffect
    /\ \A k \in Call :
          /\ op[k] = "accepted" => granted[k] # None /\ owner[granted[k]] = caller[k]
          /\ op[k] \in {"login", "accepted"} => ~loggedOut[caller[k]]
    /\ \A c \in Client \ exists : ~loggedOut[c] /\ relogin[c] = None
    /\ Original \in exists

=============================================================================

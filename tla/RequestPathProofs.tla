-------------------------- MODULE RequestPathProofs --------------------------
(***************************************************************************)
(* Clients of one process keep their portal sessions apart, and a logout   *)
(* holds, for any number of clients, sessions and overlapping calls; and   *)
(* whatever runs beside them, a request acts for its caller and its        *)
(* outcome tells what was answered.                                        *)
(***************************************************************************)
EXTENDS RequestPath, TLAPS

-----------------------------------------------------------------------------
(* Sessions. *)

LEMMA SessionInit == Init => SessionInv
BY PortalAssumption
   DEF Init, SessionInv, TypeOK, SiblingsApart, LogoutHolds, ReloginTakesEffect, isLoggedIn,
       PortalAssumption

LEMMA SessionStepKeeps == SessionInv /\ [Next]_vars => SessionInv'
<1>. SUFFICES ASSUME SessionInv, [Next]_vars PROVE SessionInv'
  OBVIOUS
<1>. USE PortalAssumption
     DEF SessionInv, TypeOK, SiblingsApart, LogoutHolds, ReloginTakesEffect, isLoggedIn,
         PortalAssumption, observed
<1>1. CASE UNCHANGED vars
  BY <1>1 DEF vars, code
<1>2. ASSUME NEW k \in Call, NEW c \in Client, CallLogin(k, c) PROVE SessionInv'
  BY <1>2 DEF CallLogin, Begin
<1>3. ASSUME NEW k \in Call, NEW c \in Client, CallLogout(k, c) PROVE SessionInv'
  BY <1>3 DEF CallLogout, Begin
<1>4. ASSUME NEW k \in Call, NEW s \in Session, PortalAccepts(k, s) PROVE SessionInv'
  BY <1>4 DEF PortalAccepts
<1>5. ASSUME NEW k \in Call, NEW readable \in BOOLEAN, LoginReturns(k, readable)
      PROVE SessionInv'
  <2>1. caller[k] \in exists /\ granted[k] \in Session /\ owner[granted[k]] = caller[k]
    BY <1>5 DEF LoginReturns
  <2>2. cookie' = [cookie EXCEPT ![caller[k]] = Stored(@, granted[k], readable)]
    BY <1>5 DEF LoginReturns
  <2>3. Stored(cookie[caller[k]], granted[k], readable) \in {granted[k], cookie[caller[k]]}
    BY DEF Stored
  <2>4. TypeOK'
    BY <1>5, <2>1, <2>3 DEF LoginReturns
  <2>5. SiblingsApart'
    BY <1>5, <2>1, <2>3 DEF LoginReturns
  <2>6. LogoutHolds'
    BY <1>5, <2>1, <2>3 DEF LoginReturns
  <2>7. ReloginTakesEffect'
    BY <1>5, <2>1 DEF LoginReturns, Stored
  <2>. QED
    BY <1>5, <2>4, <2>5, <2>6, <2>7 DEF LoginReturns
<1>6. ASSUME NEW k \in Call, NEW failed \in BOOLEAN, LogoutReturns(k, failed)
      PROVE SessionInv'
  <2>1. caller[k] \in exists /\ exists \subseteq Client
    BY <1>6
  <2>2. LoginUnderWay(caller[k]) \in BOOLEAN
    BY DEF LoginUnderWay
  <2>3. TypeOK'
    BY <1>6, <2>1, <2>2 DEF LogoutReturns
  <2>4. SiblingsApart' /\ LogoutHolds' /\ ReloginTakesEffect'
    BY <1>6, <2>1 DEF LogoutReturns
  <2>5. \A j \in Call : op'[j] \in {"login", "accepted"} => ~loggedOut'[caller'[j]]
    <3>. SUFFICES ASSUME NEW j \in Call, op'[j] \in {"login", "accepted"}
                  PROVE  ~loggedOut'[caller'[j]]
      OBVIOUS
    <3>1. op[j] \in {"login", "accepted"} /\ caller'[j] = caller[j] /\ caller[j] \in exists
      BY <1>6 DEF LogoutReturns
    <3>2. caller[j] = caller[k] => LoginUnderWay(caller[k])
      BY <3>1 DEF LoginUnderWay
    <3>. QED
      BY <1>6, <2>1, <3>1, <3>2 DEF LogoutReturns
  <2>. QED
    BY <1>6, <2>1, <2>3, <2>4, <2>5 DEF LogoutReturns
<1>7. ASSUME NEW k \in Call, LoginFails(k) PROVE SessionInv'
  BY <1>7 DEF LoginFails
<1>8. ASSUME NEW c \in Client, NEW d \in Client, asUser(c, d) PROVE SessionInv'
  BY <1>8 DEF asUser
<1>. QED
  BY <1>1, <1>2, <1>3, <1>4, <1>5, <1>6, <1>7, <1>8 DEF Next

LEMMA SessionInvariant == Spec => []SessionInv
BY SessionInit, SessionStepKeeps, PTL DEF Spec

(***************************************************************************)
(* A client never acts under a session minted for a sibling (loginToPortal *)
(* and asUser), whatever calls overlap.                                    *)
(***************************************************************************)
THEOREM SessionsApart == Spec => []SiblingsApart
<1>1. SessionInv => SiblingsApart
  BY DEF SessionInv
<1>. QED
  BY <1>1, SessionInvariant, PTL

(***************************************************************************)
(* A returned logout holds until the next login of the client is called    *)
(* (logoutFromPortal), whether or not its request succeeded.               *)
(***************************************************************************)
THEOREM LogoutKept == Spec => []LogoutHolds
<1>1. SessionInv => LogoutHolds
  BY DEF SessionInv
<1>. QED
  BY <1>1, SessionInvariant, PTL

(***************************************************************************)
(* A login whose Set-Cookie header was read takes effect and stays in      *)
(* effect until the next such login or a logout (loginToPortal).           *)
(***************************************************************************)
THEOREM ReloginKept == Spec => []ReloginTakesEffect
<1>1. SessionInv => ReloginTakesEffect
  BY DEF SessionInv
<1>. QED
  BY <1>1, SessionInvariant, PTL

-----------------------------------------------------------------------------
(* Answers, whatever the method. *)

\* A value is made only of an answer that the method reads, and a refusal is no value.
LEMMA RefusalIsAnError ==
    ASSUME NEW m, NEW a
    PROVE  Refusal(m, a) \in Errors
<1>1. \A status : ByStatus(m.via, status) \in Errors
  BY DEF ByStatus, Errors
<1>. QED
  BY <1>1 DEF Refusal, Errors

LEMMA ValueKinds ==
    ASSUME NEW m, NEW a
    PROVE  Value(m, a) \in Values \cup Errors
<1>1. ReadNothing(m) \in Values \cup Errors
  BY DEF ReadNothing, Values, Errors
<1>2. ReadGarbage(m) \in Values \cup Errors
  BY DEF ReadGarbage, Values, Errors
<1>3. ReadNo(m) \in Errors
  BY DEF ReadNo, Errors
<1>. QED
  BY <1>1, <1>2, <1>3 DEF Value, Values, Errors

LEMMA ValueTells ==
    ASSUME NEW m, NEW a \in Answers(m), Ok(a) \/ Tolerated(m, a)
    PROVE  /\ Value(m, a) \in Values =>
                  \/ Ok(a)
                  \/ Value(m, a) = "unhealthy" /\ m.via = "health"
                  \/ a.status = 403 /\ m.via = "check"
                  \/ a.status = 402 /\ a.body = "budget" /\ m.via = "proxy"
                  \/ a.body = "nothingActive" /\ Value(m, a) = "nothing"
           /\ a.status = 200 /\ a.body = "rows" => Value(m, a) = "value"
           /\ m.scoped # "no" /\ a.scope \in {"none", "own-rows"} =>
                  /\ Value(m, a) = "noRows" => a.scope = "own-rows" \/ m.scoped # "page"
                  /\ a.status = 404 /\ m.via = "orchestrator" => Value(m, a) = "readScopeError"
                  /\ Value(m, a) = "readScopeError" =>
                        a.status = 404 \/ (a.scope = "none" /\ a.body # "rows")
<1>1. /\ a.status \in Statuses /\ a.body \in Bodies(a.status)
      /\ a.scope \in Scopes(m, a.status)
  BY DEF Answers
<1>2. a.body = "budget" => a.status = 402
  BY <1>1 DEF Bodies, Statuses
<1>3. a.body = "none" => a.status = 204
  BY <1>1 DEF Bodies, Statuses
<1>4. a.status = 204 => a.scope = "absent"
  BY <1>1 DEF Scopes
<1>5. a.body = "nothingActive" => a.status = 404
  BY <1>1 DEF Bodies, Statuses
<1>6. Value(m, a) \in Values =>
        \/ Ok(a)
        \/ Value(m, a) = "unhealthy" /\ m.via = "health"
        \/ a.status = 403 /\ m.via = "check"
        \/ a.status = 402 /\ a.body = "budget" /\ m.via = "proxy"
        \/ a.body = "nothingActive" /\ Value(m, a) = "nothing"
  <2>1. CASE Ok(a)
    BY <2>1
  <2>2. CASE m.via = "health" /\ ~Ok(a)
    BY <2>2 DEF Value
  <2>3. CASE m.via = "check" /\ a.status = 403
    BY <2>3
  <2>4. CASE m.via = "proxy" /\ a.body = "budget"
    BY <2>4, <1>2
  <2>5. CASE m.via = "typedActive" /\ a.body = "nothingActive"
    BY <2>5 DEF Value
  <2>. QED
    BY <2>1, <2>2, <2>3, <2>4, <2>5 DEF Tolerated
<1>7. a.status = 200 /\ a.body = "rows" => Value(m, a) = "value"
  BY DEF Value, Ok, SaysNo, Vacuous
<1>8. ReadGarbage(m) \notin {"noRows", "readScopeError"}
  BY DEF ReadGarbage
<1>9. ReadNo(m) \notin {"noRows", "readScopeError"}
  BY DEF ReadNo
<1>10. ASSUME m.scoped # "no", a.scope \in {"none", "own-rows"}, Value(m, a) = "noRows"
       PROVE  a.scope = "own-rows" \/ m.scoped # "page"
  <2>1. a.body # "none"
    BY <1>3, <1>4, <1>10
  <2>2. ~Vacuous(m, a)
    BY <2>1, <1>8, <1>9, <1>10 DEF Value, Vacuous
  <2>3. a.body \in {"empty", "bare"}
    BY <2>1, <1>8, <1>9, <1>10 DEF Value
  <2>. QED
    BY <2>2, <2>3, <1>10 DEF Vacuous
<1>11. a.status = 404 /\ m.via = "orchestrator" => FALSE
  BY <1>2 DEF Ok, Tolerated
<1>12. ASSUME a.scope \in {"none", "own-rows"}, Value(m, a) = "readScopeError"
       PROVE  a.scope = "none" /\ a.body # "rows"
  BY <1>3, <1>4, <1>8, <1>9, <1>12 DEF Value, Vacuous
<1>. QED
  BY <1>6, <1>7, <1>10, <1>11, <1>12

LEMMA RefusalTells ==
    ASSUME NEW m, NEW a \in Answers(m), ~Ok(a), ~Tolerated(m, a)
    PROVE  /\ Refusal(m, a) \notin Values
           /\ a.status # 200
           /\ m.scoped # "no" /\ a.scope \in {"none", "own-rows"} =>
                  /\ a.status = 404 /\ m.via = "orchestrator" => Refusal(m, a) = "readScopeError"
                  /\ Refusal(m, a) = "readScopeError" => a.status = 404
<1>1. Refusal(m, a) \notin Values
  BY RefusalIsAnError DEF Values, Errors
<1>2. a.status \in Statuses /\ a.body \in Bodies(a.status)
  BY DEF Answers
<1>3. a.body \in {"frozen", "keyMismatch"} => a.status = 409
  BY <1>2 DEF Bodies, Statuses
<1>4. a.status # 200
  BY DEF Ok
<1>5. a.scope \in {"none", "own-rows"} /\ m.scoped # "no"
        /\ a.status = 404 /\ m.via = "orchestrator" => Refusal(m, a) = "readScopeError"
  BY <1>3 DEF Refusal, HidesRows
<1>6. ByStatus(m.via, a.status) # "readScopeError"
  BY DEF ByStatus
<1>7. Refusal(m, a) = "readScopeError" => a.status = 404
  BY <1>6 DEF Refusal
<1>. QED
  BY <1>1, <1>4, <1>5, <1>7

-----------------------------------------------------------------------------
(* The request. *)

(***************************************************************************)
(* What is known of a request at each stage, and of the warnings; an       *)
(* answer that came is one the method can get, and the outcome is what     *)
(* Refusal or Value made of it.                                            *)
(***************************************************************************)
RequestInv ==
    /\ stage = "idle" => id = None /\ answer = NotYet /\ outcome = "none"
    /\ stage \in {"sent", "answered"} => (id = None <=> method.keyed = "route")
    /\ stage = "answered" => answer \in Answers(method)
    /\ stage = "done" =>
          \/ answer \in {NotYet, NoAnswer}
          \/ /\ answer \in Answers(method) /\ ~Ok(answer) /\ ~Tolerated(method, answer)
             /\ outcome = Refusal(method, answer)
          \/ /\ answer \in Answers(method) /\ (Ok(answer) \/ Tolerated(method, answer))
             /\ outcome = Value(method, answer)
    /\ announced = 0 \/ (announced = 1 /\ "id" \in warned)

PathInv == SessionInv /\ AllTypesOK /\ RequestInv /\ ActsForItsCaller

LEMMA AnyMethodIsOne == AnyMethod \in Methods
BY DEF AnyMethod, Methods, DescribedBy, Health

LEMMA PathInit == RequestInit => PathInv
<1>. SUFFICES ASSUME RequestInit PROVE PathInv
  OBVIOUS
<1>1. SessionInv
  BY SessionInit DEF RequestInit
<1>2. Original \in exists
  BY DEF RequestInit, Init
<1>3. TypeOK
  BY <1>1 DEF SessionInv
<1>4. AllTypesOK
  BY <1>2, <1>3, AnyMethodIsOne DEF RequestInit, AllTypesOK
<1>5. stage = "idle" /\ id = None /\ answer = NotYet /\ outcome = "none" /\ announced = 0
  BY DEF RequestInit
<1>6. stage \notin {"sent", "answered", "done"}
  BY <1>5
<1>7. RequestInv
  BY <1>5, <1>6 DEF RequestInv
<1>8. ActsForItsCaller
  BY <1>6 DEF ActsForItsCaller
<1>. QED
  BY <1>1, <1>4, <1>7, <1>8 DEF PathInv

LEMMA PathStep ==
    PathInv /\ [RequestNext]_<<vars, requestVars>> => PathInv'
<1>. SUFFICES ASSUME PathInv, [RequestNext]_<<vars, requestVars>> PROVE PathInv'
  OBVIOUS
<1>. USE DEF PathInv, requestVars
<1>1. SessionInv'
  <2>1. [Next]_vars
    BY DEF RequestNext, SessionStep, CallMethod, RefuseCall, Answer, Lost, Throw, Return, Leave
  <2>. QED
    BY <2>1, SessionStepKeeps
<1>2. TypeOK' /\ Original \in exists /\ Original \in exists'
  BY <1>1 DEF SessionInv
<1>. USE DEF AllTypesOK, RequestInv, ActsForItsCaller
<1>3. CASE UNCHANGED <<vars, requestVars>>
  BY <1>1, <1>2, <1>3 DEF vars, code, observed
<1>4. ASSUME NEW m \in Methods, NEW i \in Id \cup {None}, NEW c \in Client,
             CallMethod(m, i, c)
      PROVE  PathInv'
  <2>1. UsesPortal(m) => /\ cookie[c] \in Session
                         /\ owner[cookie[c]] = c \/ cookie[c] = inherited[c]
    BY <1>4 DEF CallMethod, SessionInv, SiblingsApart, TypeOK, isLoggedIn
  <2>. QED
    BY <1>1, <1>2, <1>4, <2>1, PortalAssumption
       DEF CallMethod, vars, code, observed, PortalAssumption
<1>5. ASSUME NEW m \in Methods, NEW c \in Client, RefuseCall(m, c) PROVE PathInv'
  BY <1>1, <1>2, <1>5 DEF RefuseCall, Finish, vars, code, observed, Errors
<1>6. ASSUME NEW a \in Answers(method), NEW deprecated \in BOOLEAN, Answer(a, deprecated)
      PROVE  PathInv'
  <2>1. RouteOf(method) \in Id \cup {"route", "id"}
    BY <1>6 DEF Answer, RouteOf
  <2>2. method.keyed = "template" => RouteOf(method) = "id"
    BY DEF RouteOf
  <2>. QED
    BY <1>1, <1>2, <1>6, <2>1, <2>2 DEF Answer, vars, code, observed
<1>7. CASE Lost
  BY <1>1, <1>2, <1>7 DEF Lost, Finish, vars, code, observed, Errors, Values
<1>8. CASE Throw
  <2>1. Refusal(method, answer) \in Errors /\ Refusal(method, answer) # "none"
    BY RefusalIsAnError DEF Errors
  <2>. QED
    BY <1>1, <1>2, <1>8, <2>1 DEF Throw, Finish, vars, code, observed
<1>9. CASE Return
  <2>1. Value(method, answer) \in Values \cup Errors /\ Value(method, answer) # "none"
    BY ValueKinds DEF Errors, Values
  <2>. QED
    BY <1>1, <1>2, <1>9, <2>1 DEF Return, Finish, vars, code, observed
<1>10. CASE Leave
  BY <1>1, <1>2, <1>10, AnyMethodIsOne DEF Leave, vars, code, observed
<1>11. CASE SessionStep
  <2>1. UNCHANGED requestVars /\ Next
    BY <1>11 DEF SessionStep
  <2>2. exists \subseteq exists' /\ \A c \in exists : inherited'[c] = inherited[c]
    BY <2>1 DEF Next, CallLogin, CallLogout, PortalAccepts, LoginReturns, LogoutReturns,
               LoginFails, asUser, Begin, SessionInv, TypeOK, observed
  <2>3. \A s \in Session : owner[s] # None => owner'[s] = owner[s]
    BY <2>1 DEF Next, CallLogin, CallLogout, PortalAccepts, LoginReturns, LogoutReturns,
               LoginFails, asUser, Begin, SessionInv, TypeOK, observed
  <2>. QED
    BY <1>1, <1>2, <2>1, <2>2, <2>3, PortalAssumption DEF SessionInv, TypeOK, PortalAssumption
<1>. QED
  BY <1>3, <1>4, <1>5, <1>6, <1>7, <1>8, <1>9, <1>10, <1>11 DEF RequestNext

LEMMA PathInvariant == RequestSpec => []PathInv
BY PathInit, PathStep, PTL DEF RequestSpec

(***************************************************************************)
(* The type invariant of the request path, for any clients and ids.        *)
(***************************************************************************)
THEOREM RequestTypes == RequestSpec => []AllTypesOK
<1>1. PathInv => AllTypesOK
  BY DEF PathInv
<1>. QED
  BY <1>1, PathInvariant, PTL

(***************************************************************************)
(* A portal request carries a session of its own client (portalRequest),   *)
(* for any number of clients, sessions and overlapping logins.             *)
(***************************************************************************)
THEOREM RequestsActForTheirCaller == RequestSpec => []ActsForItsCaller
<1>1. PathInv => ActsForItsCaller
  BY DEF PathInv
<1>. QED
  BY <1>1, PathInvariant, PTL

(***************************************************************************)
(* The outcome of a call tells what was answered, for every method and     *)
(* every answer.                                                           *)
(***************************************************************************)
THEOREM OutcomesTell == RequestSpec => []OutcomeTellsTheAnswer
<1>1. PathInv => OutcomeTellsTheAnswer
  <2>. SUFFICES ASSUME PathInv, stage = "done", answer \notin {NotYet, NoAnswer}
                PROVE  ErrorsAreErrors /\ EmptyIsNotAbsence
    BY DEF OutcomeTellsTheAnswer
  <2>1. CASE /\ answer \in Answers(method) /\ ~Ok(answer) /\ ~Tolerated(method, answer)
             /\ outcome = Refusal(method, answer)
    BY <2>1, RefusalTells DEF ErrorsAreErrors, EmptyIsNotAbsence, Values
  <2>2. CASE /\ answer \in Answers(method) /\ (Ok(answer) \/ Tolerated(method, answer))
             /\ outcome = Value(method, answer)
    BY <2>2, ValueTells DEF ErrorsAreErrors, EmptyIsNotAbsence
  <2>. QED
    BY <2>1, <2>2 DEF PathInv, RequestInv
<1>. QED
  BY <1>1, PathInvariant, PTL

(***************************************************************************)
(* A family of clients warns once of a route that is built from a          *)
(* template, however many ids it is called with (warnIfRouteDeprecated).   *)
(***************************************************************************)
THEOREM WarnedOnce == RequestSpec => []WarnedOncePerRoute
<1>1. PathInv => WarnedOncePerRoute
  BY DEF PathInv, RequestInv, WarnedOncePerRoute
<1>. QED
  BY <1>1, PathInvariant, PTL
=============================================================================

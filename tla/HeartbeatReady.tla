--------------------------- MODULE HeartbeatReady ---------------------------
(***************************************************************************)
(* client.heartbeatReady: clients of one process, some derived by asUser,  *)
(* over the process's heartbeat gate.  Every request runs _preRequestHook; *)
(* the first one of a root client consults the gate and then waits for the *)
(* ping in flight before it resolves the promise that the root and every   *)
(* client derived from it share.                                           *)
(***************************************************************************)
EXTENDS Heartbeat

CONSTANTS
    Client,  \* clients alive in process Self
    RootOf,  \* heartbeatRoot: the client a derived client was made from
    Self     \* their process; others reach it only by the stamp Init leaves open

ASSUME ReadyAssumption ==
    /\ Proc = {Self}
    /\ RootOf \in [Client -> Client]
    /\ \A c \in Client : RootOf[RootOf[c]] = RootOf[c]

Root == {RootOf[c] : c \in Client}

VARIABLES
    settled,    \* HeartbeatReadyState.settled, per root
    waiting,    \* the hook is at `await inFlight`
    ready,      \* the root's promise has resolved
    requested,  \* observed: the clients that have sent a request
    firstPing   \* observed: the ping in flight at the root's first request still is

readyVars == <<settled, waiting, ready, requested, firstPing>>
allVars == <<vars, readyVars>>

ReadyTypeOK ==
    /\ settled \in [Root -> BOOLEAN]
    /\ waiting \in [Root -> BOOLEAN]
    /\ ready \in [Root -> BOOLEAN]
    /\ requested \subseteq Client
    /\ firstPing \in [Root -> BOOLEAN]

AllTypesOK == TypeOK /\ ReadyTypeOK

\* Before asUser copied heartbeatRoot, the entry was looked up under the client itself.
KeyedOnClient(c) == {c} \cap Root
EntryOf(c) == {RootOf[c]}

\* The tail of _preRequestHook, once the gate has run.
SettleWithoutAwait(c) ==
    LET first == {r \in EntryOf(c) : ~settled[r]}
    IN  /\ settled' = [r \in Root |-> settled[r] \/ r \in first]
        /\ waiting' = waiting
        /\ ready' = [r \in Root |-> ready[r] \/ r \in first]
SettleFirst(c) ==
    LET first == {r \in EntryOf(c) : ~settled[r]}
        pending == inFlight'[Self] # "none"
    IN  /\ settled' = [r \in Root |-> settled[r] \/ r \in first]
        /\ waiting' = [r \in Root |-> waiting[r] \/ (r \in first /\ pending)]
        /\ ready' = [r \in Root |-> ready[r] \/ (r \in first /\ ~pending)]

\* A request of client c: _fetch starts the hook, which consults the gate.
Request(c) ==
    /\ \/ maybeSendHeartbeat(Self)
       \/ ~GateOpen(Self) /\ UNCHANGED vars
    /\ SettleFirst(c)
    /\ requested' = requested \cup {c}
    /\ firstPing' =
         [r \in Root |-> IF r = RootOf[c] /\ ~\E d \in requested : RootOf[d] = r
                         THEN inFlight'[Self] # "none"
                         ELSE firstPing[r]]

\* Every hook that awaited the promise continues when finally has cleared it.
ContinueHooks ==
    IF inFlight'[Self] = "none"
    THEN /\ ready' = [r \in Root |-> ready[r] \/ waiting[r]]
         /\ waiting' = [r \in Root |-> FALSE]
         /\ firstPing' = [r \in Root |-> FALSE]
         /\ UNCHANGED <<settled, requested>>
    ELSE UNCHANGED readyVars

SelfPingStep == PingStep(Self) /\ ContinueHooks

\* The process exits: its clients and their promises are gone with it.
SelfRestart ==
    /\ Restart(Self)
    /\ settled' = [r \in Root |-> FALSE]
    /\ waiting' = [r \in Root |-> FALSE]
    /\ ready' = [r \in Root |-> FALSE]
    /\ requested' = {}
    /\ firstPing' = [r \in Root |-> FALSE]

ReadyInit ==
    /\ Init
    /\ settled = [r \in Root |-> FALSE]
    /\ waiting = [r \in Root |-> FALSE]
    /\ ready = [r \in Root |-> FALSE]
    /\ requested = {}
    /\ firstPing = [r \in Root |-> FALSE]

ReadyNext ==
    \/ \E c \in Client : Request(c)
    \/ SelfPingStep
    \/ SelfRestart
    \/ (ToggleOptOut(Self) \/ ReachabilityChanges \/ Tick) /\ UNCHANGED readyVars

ReadySpec == ReadyInit /\ [][ReadyNext]_allVars
ReadyFairSpec == ReadySpec /\ WF_allVars(SelfPingStep)

-----------------------------------------------------------------------------

(***************************************************************************)
(* The promise is not a lie (client.ts:698-702): when it has resolved, the *)
(* ping that was in flight at the root's first request is over, so an exit *)
(* of the process cannot truncate it.                                      *)
(***************************************************************************)
ReadyMeansFlushed == \A r \in Root : ready[r] => ~firstPing[r]

(***************************************************************************)
(* No client hangs (client.ts:241-255): once any client of a root, derived *)
(* or not, has sent a request, the promise they share resolves, unless the *)
(* process ends first.                                                     *)
(***************************************************************************)
NoHang ==
    \A c \in Client :
        c \in requested ~> (ready[RootOf[c]] \/ c \notin requested)

(***************************************************************************)
(* A root none of whose clients has sent a request leaves it pending       *)
(* (client.ts:510-511), also while other clients of the process ping.      *)
(***************************************************************************)
PendingUntilUsed ==
    \A r \in Root : ready[r] => \E c \in requested : RootOf[c] = r

\* The inductive invariant: a hook that waits is the reason the ping is still awaited.
ReadyInv ==
    \A r \in Root :
        /\ firstPing[r] => inFlight[Self] # "none" /\ ~ready[r]
        /\ settled[r] <=> \E c \in requested : RootOf[c] = r
        /\ ready[r] => settled[r]
        /\ waiting[r] => settled[r]
        /\ settled[r] => ready[r] \/ waiting[r]
=============================================================================

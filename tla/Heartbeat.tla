------------------------------ MODULE Heartbeat ------------------------------
(***************************************************************************)
(* The delivered-heartbeat gate of src/heartbeat.ts: several processes of  *)
(* one environment, each with its own in-memory HeartbeatState, sharing    *)
(* one stamp file.  A request consults the gate; an open gate starts one   *)
(* ping; a delivered ping is recorded in memory and then, by a temporary   *)
(* file and a rename, in the stamp.  Processes exit and restart, the       *)
(* checkpoint becomes unreachable and comes back, answers are lost, the    *)
(* stamp cannot always be written, and the opt-out is toggled at any time. *)
(*                                                                         *)
(* Instants are kept as AGES: checkedAgo[p] is Date.now() - lastCheckedMs, *)
(* Never stands for null.  Every comparison the code makes is of an age    *)
(* with at most Interval, so an age that has reached Interval stops        *)
(* growing, and the model needs no bound on time.                          *)
(***************************************************************************)
EXTENDS Integers

CONSTANTS
    Proc,          \* operating-system processes of the environment
    Pathless,      \* those for which resolveStampPath() is null
    Interval,      \* HEARTBEAT_INTERVAL_MS, in clock units
    Guard,         \* HEARTBEAT_GUARD_INTERVAL_MS, in clock units
    MaxDoublings,  \* MAX_BACKOFF_DOUBLINGS
    Skew,          \* how far ahead of this clock an existing stamp may be
    Never          \* null: no such instant

ASSUME HeartbeatAssumption ==
    /\ Pathless \subseteq Proc
    /\ Interval \in Nat /\ Guard \in Nat /\ Skew \in Nat /\ MaxDoublings \in Nat
    /\ 0 < Guard /\ Guard <= Interval
    /\ Never \notin Int
    /\ \A n \in 0 .. MaxDoublings : Guard * 2^n \in Nat /\ Guard <= Guard * 2^n

VARIABLES
    optedOut,      \* AXONFLOW_TELEMETRY = "off" in the process's environment
    checkedAgo,    \* age of lastCheckedMs
    inFlight,      \* how far the promise in inFlight has got; "none" is null
    failures,      \* consecutiveFailures, counted up to MaxDoublings
    deliveredAgo,  \* age of lastDeliveredMs
    tmpAgo,        \* age of the temporary file being renamed over the stamp
    stampAgo,      \* age of the stamp file's mtime; negative: in the future
    reachable      \* the checkpoint answers a POST with 2xx within the budget

\* What no process records, observed to state the properties.
VARIABLES
    attemptAgo,    \* since this process last started a ping
    recordedAgo,   \* since the last delivery a rename has put in the stamp
    postsOptedOut  \* POSTs received since the process was opted out, up to 2

memory == <<checkedAgo, inFlight, failures, deliveredAgo, tmpAgo>>
observers == <<attemptAgo, recordedAgo, postsOptedOut>>
vars == <<optedOut, memory, stampAgo, reachable, observers>>

Age == 0 .. Interval
Phases == {"none", "probing", "posted", "acked", "written"}

TypeOK ==
    /\ optedOut \in [Proc -> BOOLEAN]
    /\ checkedAgo \in [Proc -> Age \cup {Never}]
    /\ inFlight \in [Proc -> Phases]
    /\ failures \in [Proc -> 0 .. MaxDoublings]
    /\ deliveredAgo \in [Proc -> Age \cup {Never}]
    /\ tmpAgo \in [Proc -> Age \cup {Never}]
    /\ stampAgo \in (-Skew .. Interval) \cup {Never}
    /\ reachable \in BOOLEAN
    /\ attemptAgo \in [Proc -> Age \cup {Never}]
    /\ recordedAgo \in Age \cup {Never}
    /\ postsOptedOut \in [Proc -> 0 .. 2]

Older(a) == IF a = Never \/ a >= Interval THEN a ELSE a + 1
Younger(a, limit) == a # Never /\ a < limit
Recent(a) == Younger(a, Interval)
UpTo(limit, n) == IF n < limit THEN n + 1 ELSE n
Latest(a, b) == IF a = Never THEN b ELSE IF b = Never \/ a < b THEN a ELSE b

-----------------------------------------------------------------------------
(* The gate. *)

\* How long the gate stays closed after a check, given the failures in a row.
guardIntervalFor(f) ==
    LET widened == Guard * 2^f
    IN  IF widened < Interval THEN widened ELSE Interval

\* readStampMtimeMs: a process without a path never sees a stamp.
readStampMtimeMs(p) == IF p \in Pathless THEN Never ELSE stampAgo

\* Early returns 1 to 3 of maybeSendHeartbeat.
GateWithoutOptOut(p) ==
    /\ inFlight[p] = "none"
    /\ ~Younger(checkedAgo[p], guardIntervalFor(failures[p]))
GateWithoutBackoff(p) ==
    /\ ~optedOut[p]
    /\ inFlight[p] = "none"
    /\ ~Younger(checkedAgo[p], Guard)
GateOpen(p) ==
    /\ ~optedOut[p]
    /\ inFlight[p] = "none"
    /\ ~Younger(checkedAgo[p], guardIntervalFor(failures[p]))

\* Early returns 4 and 5: delivered by this process, or by any according to the stamp.
StampOnlyCadence(p) == Recent(readStampMtimeMs(p))
WithinCadence(p) == Recent(deliveredAgo[p]) \/ Recent(readStampMtimeMs(p))

\* A request's gate run that stops at the cadence.  Not a failed attempt.
SlidingGuard(p) ==
    /\ ~optedOut[p] /\ inFlight[p] = "none" /\ (WithinCadence(p) \/ ~GateOpen(p))
    /\ checkedAgo' = [checkedAgo EXCEPT ![p] = 0]
    /\ UNCHANGED <<optedOut, inFlight, failures, deliveredAgo, tmpAgo,
                   stampAgo, reachable, observers>>
SuppressPing(p) ==
    /\ GateOpen(p) /\ WithinCadence(p)
    /\ checkedAgo' = [checkedAgo EXCEPT ![p] = 0]
    /\ UNCHANGED <<optedOut, inFlight, failures, deliveredAgo, tmpAgo,
                   stampAgo, reachable, observers>>

\* A request's gate run that starts a ping: the health probe and the POST are under way.
StartPing(p) ==
    /\ GateOpen(p) /\ ~WithinCadence(p)
    /\ checkedAgo' = [checkedAgo EXCEPT ![p] = 0]
    /\ inFlight' = [inFlight EXCEPT ![p] = "probing"]
    /\ attemptAgo' = [attemptAgo EXCEPT ![p] = 0]
    /\ UNCHANGED <<optedOut, failures, deliveredAgo, tmpAgo, stampAgo, reachable,
                   recordedAgo, postsOptedOut>>

maybeSendHeartbeat(p) == SuppressPing(p) \/ StartPing(p)

-----------------------------------------------------------------------------
(* The in-flight promise. *)

\* The checkpoint receives the POST; its answer is on the way.
ReceivePost(p) ==
    /\ inFlight[p] = "probing" /\ reachable
    /\ inFlight' = [inFlight EXCEPT ![p] = "posted"]
    /\ postsOptedOut' =
         [postsOptedOut EXCEPT ![p] = IF optedOut[p] THEN UpTo(2, @) ELSE @]
    /\ UNCHANGED <<optedOut, checkedAgo, failures, deliveredAgo, tmpAgo, stampAgo,
                   reachable, attemptAgo, recordedAgo>>

\* The answer arrives: delivered.  Without a stamp path the promise settles at once.
PingDelivered(p) ==
    /\ inFlight[p] = "posted" /\ reachable
    /\ failures' = [failures EXCEPT ![p] = 0]
    /\ deliveredAgo' = [deliveredAgo EXCEPT ![p] = 0]
    /\ inFlight' = [inFlight EXCEPT ![p] = IF p \in Pathless THEN "none" ELSE "acked"]
    /\ UNCHANGED <<optedOut, checkedAgo, tmpAgo, stampAgo, reachable,
                   attemptAgo, recordedAgo, postsOptedOut>>

\* The POST, or only its answer, is lost, refused or too late; finally clears inFlight.
PingFailed(p) ==
    /\ inFlight[p] \in {"probing", "posted"} /\ ~reachable
    /\ failures' = [failures EXCEPT ![p] = UpTo(MaxDoublings, @)]
    /\ inFlight' = [inFlight EXCEPT ![p] = "none"]
    /\ UNCHANGED <<optedOut, checkedAgo, deliveredAgo, tmpAgo, stampAgo,
                   reachable, observers>>

\* writeStampAtomic: mkdir and the temporary file, whose mtime is fixed here.
WriteTmp(p) ==
    /\ inFlight[p] = "acked"
    /\ tmpAgo' = [tmpAgo EXCEPT ![p] = 0]
    /\ inFlight' = [inFlight EXCEPT ![p] = "written"]
    /\ UNCHANGED <<optedOut, checkedAgo, failures, deliveredAgo, stampAgo,
                   reachable, observers>>

\* The rename gives the stamp the temporary file's mtime.
ForgottenRename(p) ==
    /\ inFlight[p] = "written"
    /\ tmpAgo' = [tmpAgo EXCEPT ![p] = Never]
    /\ inFlight' = [inFlight EXCEPT ![p] = "none"]
    /\ recordedAgo' = Latest(deliveredAgo[p], recordedAgo)
    /\ UNCHANGED <<optedOut, checkedAgo, failures, deliveredAgo, stampAgo, reachable,
                   attemptAgo, postsOptedOut>>
RenameTmp(p) ==
    /\ inFlight[p] = "written"
    /\ stampAgo' = tmpAgo[p]
    /\ tmpAgo' = [tmpAgo EXCEPT ![p] = Never]
    /\ inFlight' = [inFlight EXCEPT ![p] = "none"]
    /\ recordedAgo' = Latest(deliveredAgo[p], recordedAgo)
    /\ UNCHANGED <<optedOut, checkedAgo, failures, deliveredAgo, reachable,
                   attemptAgo, postsOptedOut>>

\* mkdir, writeFile or rename fails: swallowed, the stamp keeps its mtime.
StampFailed(p) ==
    /\ inFlight[p] \in {"acked", "written"}
    /\ tmpAgo' = [tmpAgo EXCEPT ![p] = Never]
    /\ inFlight' = [inFlight EXCEPT ![p] = "none"]
    /\ UNCHANGED <<optedOut, checkedAgo, failures, deliveredAgo, stampAgo,
                   reachable, observers>>

PingStep(p) ==
    \/ ReceivePost(p) \/ PingDelivered(p) \/ PingFailed(p)
    \/ WriteTmp(p) \/ RenameTmp(p) \/ StampFailed(p)

-----------------------------------------------------------------------------
(* The environment. *)

\* The process ends, whatever is in flight, and a fresh one takes its place.
Restart(p) ==
    /\ checkedAgo' = [checkedAgo EXCEPT ![p] = Never]
    /\ inFlight' = [inFlight EXCEPT ![p] = "none"]
    /\ failures' = [failures EXCEPT ![p] = 0]
    /\ deliveredAgo' = [deliveredAgo EXCEPT ![p] = Never]
    /\ tmpAgo' = [tmpAgo EXCEPT ![p] = Never]
    /\ attemptAgo' = [attemptAgo EXCEPT ![p] = Never]
    /\ UNCHANGED <<optedOut, stampAgo, reachable, recordedAgo, postsOptedOut>>

\* process.env is written by the application while the SDK runs.
ToggleOptOut(p) ==
    /\ optedOut' = [optedOut EXCEPT ![p] = ~@]
    /\ postsOptedOut' = [postsOptedOut EXCEPT ![p] = 0]
    /\ UNCHANGED <<memory, stampAgo, reachable, attemptAgo, recordedAgo>>

ReachabilityChanges ==
    /\ reachable' = ~reachable
    /\ UNCHANGED <<optedOut, memory, stampAgo, observers>>

Tick ==
    /\ checkedAgo' = [p \in Proc |-> Older(checkedAgo[p])]
    /\ deliveredAgo' = [p \in Proc |-> Older(deliveredAgo[p])]
    /\ tmpAgo' = [p \in Proc |-> Older(tmpAgo[p])]
    /\ stampAgo' = Older(stampAgo)
    /\ attemptAgo' = [p \in Proc |-> Older(attemptAgo[p])]
    /\ recordedAgo' = Older(recordedAgo)
    /\ UNCHANGED <<optedOut, inFlight, failures, reachable, postsOptedOut>>

Init ==
    /\ optedOut \in [Proc -> BOOLEAN]
    /\ checkedAgo = [p \in Proc |-> Never]
    /\ inFlight = [p \in Proc |-> "none"]
    /\ failures = [p \in Proc |-> 0]
    /\ deliveredAgo = [p \in Proc |-> Never]
    /\ tmpAgo = [p \in Proc |-> Never]
    /\ stampAgo \in (-Skew .. Interval) \cup {Never}
    /\ reachable \in BOOLEAN
    /\ attemptAgo = [p \in Proc |-> Never]
    /\ recordedAgo = Never
    /\ postsOptedOut = [p \in Proc |-> 0]

ProcessStep(p) ==
    \/ maybeSendHeartbeat(p) \/ PingStep(p) \/ Restart(p) \/ ToggleOptOut(p)

Next == (\E p \in Proc : ProcessStep(p)) \/ ReachabilityChanges \/ Tick

Spec == Init /\ [][Next]_vars
=============================================================================

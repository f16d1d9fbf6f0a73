------------------------- MODULE HeartbeatProperties -------------------------
(***************************************************************************)
(* What src/heartbeat.ts must guarantee, and what its comments say of it.  *)
(***************************************************************************)
EXTENDS Heartbeat

Cadence == INSTANCE DeliveryCadence WITH sinceDelivery <- deliveredAgo

(***************************************************************************)
(* Refinement.  The gate of every process implements the seven-day cadence *)
(* in memory, which is what lastDeliveredMs exists for: also when there is *)
(* no stamp path, the stamp cannot be written, or it is overwritten by     *)
(* another process while this one's ping is in flight.                     *)
(***************************************************************************)
CadenceKept == Cadence!Spec

(***************************************************************************)
(* After f failures in a row a process leaves guardIntervalFor(f) between  *)
(* the START of the failed ping and its next ping, although the gate reads *)
(* lastCheckedMs and passes in between that were suppressed move it.       *)
(***************************************************************************)
StartsPing(p) == inFlight[p] = "none" /\ inFlight'[p] = "probing"
BackoffSpacing ==
    [][\A p \in Proc : StartsPing(p) =>
          ~Younger(attemptAgo[p], guardIntervalFor(failures[p]))]_vars

(***************************************************************************)
(* An opt-out made while the process runs lets at most one more POST out:  *)
(* the ping that had already left the gate.                                *)
(***************************************************************************)
OptOutBoundsTraffic == \A p \in Proc : postsOptedOut[p] <= 1

(***************************************************************************)
(* With one process at a time, whatever crashes and restarts occur, no     *)
(* ping starts within Interval of a delivery whose stamp was written: the  *)
(* mtime the next process reads is at least as late as that delivery.      *)
(***************************************************************************)
RecordedCadence ==
    [][\A p \in Proc : p \notin Pathless /\ StartsPing(p) => ~Recent(recordedAgo)]_vars

(***************************************************************************)
(* "Backing off loses no ping" (heartbeat.ts:71): a process that keeps     *)
(* making requests while time passes, is not opted out and is not          *)
(* restarted, with the checkpoint reachable from some point on, is again   *)
(* and again in a state where a recent delivery is on record, however many *)
(* failures had backed its gate off.                                       *)
(***************************************************************************)
HeartbeatLands ==
    \A p \in Proc :
        /\ WF_vars(maybeSendHeartbeat(p)) /\ WF_vars(Tick)
        /\ <>[](reachable /\ ~optedOut[p]) /\ <>[][~Restart(p)]_vars
        => []<>WithinCadence(p)

-----------------------------------------------------------------------------
(* The inductive invariants behind the safety properties. *)

\* A ping under way left the gate with nothing recently delivered by its process.
CadenceInv ==
    \A p \in Proc : inFlight[p] \in {"probing", "posted"} => ~Recent(deliveredAgo[p])

\* Every start of a ping was a check, so the last check is no older.
BackoffInv ==
    \A p \in Proc : attemptAgo[p] # Never =>
        checkedAgo[p] # Never /\ checkedAgo[p] <= attemptAgo[p]

\* Once a POST left after the opt-out, no other one can be about to leave.
OptOutInv ==
    \A p \in Proc :
        /\ postsOptedOut[p] <= 1
        /\ postsOptedOut[p] = 1 => optedOut[p] /\ inFlight[p] # "probing"

\* What is being stamped was delivered after what is recorded, and is stamped with
\* an instant after its delivery.
StampInv ==
    /\ recordedAgo # Never => stampAgo # Never /\ stampAgo <= recordedAgo
    /\ \A p \in Proc : inFlight[p] \in {"acked", "written"} =>
          /\ deliveredAgo[p] # Never
          /\ recordedAgo # Never => deliveredAgo[p] <= recordedAgo
    /\ \A p \in Proc : inFlight[p] = "written" =>
          tmpAgo[p] # Never /\ tmpAgo[p] <= deliveredAgo[p]
=============================================================================

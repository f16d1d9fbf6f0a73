--------------------------- MODULE TelemetryProofs ---------------------------
(***************************************************************************)
(* Proofs about the heartbeat gate, for any number of processes and any    *)
(* interval, guard, backoff ceiling and stamp skew; about heartbeatReady,  *)
(* for any set of clients and derivations; and about one ping, for any     *)
(* timeouts, any adapters and any step of the wall clock.                  *)
(***************************************************************************)
EXTENDS HeartbeatProperties, HeartbeatReady, TelemetryPing, OrderLemmas

-----------------------------------------------------------------------------
(* Facts about ages and the guard. *)

\* An age that grows stays an age, and growing keeps the order of two ages.
LEMMA OlderAge ==
    ASSUME NEW a \in Age \cup {Never}
    PROVE  Older(a) \in Age \cup {Never} /\ (Older(a) = Never <=> a = Never)
BY HeartbeatAssumption DEF Older, Age

LEMMA OlderMonotone ==
    ASSUME NEW a \in Int, NEW b \in Int, a <= b, b <= Interval
    PROVE  Older(a) <= Older(b)
BY HeartbeatAssumption DEF Older

\* The widened guard is at least the plain one and at most the interval.
LEMMA GuardBounds ==
    ASSUME NEW f \in 0 .. MaxDoublings
    PROVE  /\ guardIntervalFor(f) \in Int
           /\ Guard <= guardIntervalFor(f) /\ guardIntervalFor(f) <= Interval
<1>1. Guard * 2^f \in Nat /\ Guard <= Guard * 2^f
    BY HeartbeatAssumption
<1>. DEFINE widened == Guard * 2^f
<1>2. widened \in Nat /\ Guard <= widened
    BY <1>1
<1>3. guardIntervalFor(f) = IF widened < Interval THEN widened ELSE Interval
    BY DEF guardIntervalFor
<1>. HIDE DEF widened
<1>. QED BY <1>2, <1>3, HeartbeatAssumption

-----------------------------------------------------------------------------
(* Type correctness. *)

\* Every variable, observers included, keeps its type in every behaviour.
THEOREM TypeCorrect == Spec => []TypeOK
<1>1. Init => TypeOK
    BY HeartbeatAssumption DEF Init, TypeOK, Phases, Age
<1>2. TypeOK /\ [Next]_vars => TypeOK'
    <2>. SUFFICES ASSUME TypeOK, [Next]_vars
                  PROVE  TypeOK'
        OBVIOUS
    <2>. USE HeartbeatAssumption DEF TypeOK, Phases, Age, observers
    <2>1. ASSUME NEW p \in Proc, SuppressPing(p) PROVE TypeOK'
        BY <2>1 DEF SuppressPing
    <2>2. ASSUME NEW p \in Proc, StartPing(p) PROVE TypeOK'
        BY <2>2 DEF StartPing
    <2>3. ASSUME NEW p \in Proc, ReceivePost(p) PROVE TypeOK'
        BY <2>3 DEF ReceivePost, UpTo
    <2>4. ASSUME NEW p \in Proc, PingDelivered(p) PROVE TypeOK'
        BY <2>4 DEF PingDelivered, UpTo
    <2>5. ASSUME NEW p \in Proc, PingFailed(p) PROVE TypeOK'
        BY <2>5 DEF PingFailed, UpTo
    <2>6. ASSUME NEW p \in Proc, WriteTmp(p) PROVE TypeOK'
        BY <2>6 DEF WriteTmp
    <2>7. ASSUME NEW p \in Proc, RenameTmp(p) PROVE TypeOK'
        BY <2>7 DEF RenameTmp, Latest
    <2>8. ASSUME NEW p \in Proc, StampFailed(p) PROVE TypeOK'
        BY <2>8 DEF StampFailed
    <2>9. ASSUME NEW p \in Proc, Restart(p) PROVE TypeOK'
        BY <2>9 DEF Restart
    <2>10. ASSUME NEW p \in Proc, ToggleOptOut(p) PROVE TypeOK'
        BY <2>10 DEF ToggleOptOut, memory
    <2>11. CASE ReachabilityChanges
        BY <2>11 DEF ReachabilityChanges, memory
    <2>12. CASE Tick
        BY <2>12 DEF Tick, Older
    <2>13. CASE UNCHANGED vars
        BY <2>13 DEF vars, memory
    <2>. QED
        BY <2>1, <2>2, <2>3, <2>4, <2>5, <2>6, <2>7, <2>8, <2>9, <2>10,
           <2>11, <2>12, <2>13
        DEF Next, ProcessStep, maybeSendHeartbeat, PingStep
<1>. QED BY <1>1, <1>2, PTL DEF Spec

-----------------------------------------------------------------------------
(* The cadence: the gate implements DeliveryCadence. *)

LEMMA CadenceInvariant == Spec => []CadenceInv
<1>1. Init => CadenceInv
    BY DEF Init, CadenceInv
<1>2. TypeOK /\ CadenceInv /\ [Next]_vars => CadenceInv'
    <2>. SUFFICES ASSUME TypeOK, CadenceInv, [Next]_vars
                  PROVE  CadenceInv'
        OBVIOUS
    <2>. USE HeartbeatAssumption DEF CadenceInv, TypeOK, Phases, Recent, Younger
    <2>1. ASSUME NEW p \in Proc, SuppressPing(p) PROVE CadenceInv'
        BY <2>1 DEF SuppressPing
    <2>2. ASSUME NEW p \in Proc, StartPing(p) PROVE CadenceInv'
        BY <2>2 DEF StartPing, WithinCadence
    <2>3. ASSUME NEW p \in Proc, ReceivePost(p) PROVE CadenceInv'
        BY <2>3 DEF ReceivePost
    <2>4. ASSUME NEW p \in Proc, PingDelivered(p) PROVE CadenceInv'
        BY <2>4 DEF PingDelivered
    <2>5. ASSUME NEW p \in Proc, PingFailed(p) PROVE CadenceInv'
        BY <2>5 DEF PingFailed
    <2>6. ASSUME NEW p \in Proc, WriteTmp(p) PROVE CadenceInv'
        BY <2>6 DEF WriteTmp
    <2>7. ASSUME NEW p \in Proc, RenameTmp(p) PROVE CadenceInv'
        BY <2>7 DEF RenameTmp
    <2>8. ASSUME NEW p \in Proc, StampFailed(p) PROVE CadenceInv'
        BY <2>8 DEF StampFailed
    <2>9. ASSUME NEW p \in Proc, Restart(p) PROVE CadenceInv'
        BY <2>9 DEF Restart
    <2>10. ASSUME NEW p \in Proc, ToggleOptOut(p) PROVE CadenceInv'
        BY <2>10 DEF ToggleOptOut, memory
    <2>11. CASE ReachabilityChanges
        BY <2>11 DEF ReachabilityChanges, memory
    <2>12. CASE Tick
        BY <2>12 DEF Tick, Older, Age
    <2>13. CASE UNCHANGED vars
        BY <2>13 DEF vars, memory
    <2>. QED
        BY <2>1, <2>2, <2>3, <2>4, <2>5, <2>6, <2>7, <2>8, <2>9, <2>10,
           <2>11, <2>12, <2>13
        DEF Next, ProcessStep, maybeSendHeartbeat, PingStep
<1>. QED BY <1>1, <1>2, TypeCorrect, PTL DEF Spec

\* Every behaviour of the gate is one of the per-process seven-day cadence.
THEOREM CadenceRefined == Spec => CadenceKept
<1>1. Init => Cadence!Init
    BY DEF Init, Cadence!Init
<1>2. TypeOK /\ CadenceInv /\ [Next]_vars => [Cadence!Next]_deliveredAgo
    <2>. SUFFICES ASSUME TypeOK, CadenceInv, [Next]_vars
                  PROVE  [Cadence!Next]_deliveredAgo
        OBVIOUS
    <2>1. ASSUME NEW p \in Proc, PingDelivered(p) PROVE Cadence!Deliver(p)
        BY <2>1 DEF PingDelivered, CadenceInv, Cadence!Deliver, Cadence!Due, Recent, Younger
    <2>2. ASSUME NEW p \in Proc, Restart(p) PROVE Cadence!Forget(p)
        BY <2>2 DEF Restart, Cadence!Forget
    <2>3. CASE Tick
        <3>1. \A p \in Proc : Older(deliveredAgo[p]) =
                 IF Cadence!Due(p) THEN deliveredAgo[p] ELSE deliveredAgo[p] + 1
            BY HeartbeatAssumption DEF TypeOK, Age, Older, Cadence!Due
        <3>. QED BY <2>3, <3>1 DEF Tick, Cadence!TimePasses, Cadence!Next
    <2>4. ASSUME NEW p \in Proc,
                 \/ SuppressPing(p) \/ StartPing(p) \/ ReceivePost(p) \/ PingFailed(p)
                 \/ WriteTmp(p) \/ RenameTmp(p) \/ StampFailed(p) \/ ToggleOptOut(p)
          PROVE  UNCHANGED deliveredAgo
        BY <2>4 DEF SuppressPing, StartPing, ReceivePost, PingFailed, WriteTmp,
                    RenameTmp, StampFailed, ToggleOptOut, memory
    <2>5. CASE ReachabilityChanges \/ UNCHANGED vars
        BY <2>5 DEF ReachabilityChanges, vars, memory
    <2>. QED BY <2>1, <2>2, <2>3, <2>4, <2>5
             DEF Next, ProcessStep, maybeSendHeartbeat, PingStep, Cadence!Next
<1>. QED
    BY <1>1, <1>2, TypeCorrect, CadenceInvariant, PTL DEF Spec, CadenceKept, Cadence!Spec

-----------------------------------------------------------------------------
(* The backoff. *)

LEMMA BackoffInvariant == Spec => []BackoffInv
<1>1. Init => BackoffInv
    BY DEF Init, BackoffInv
<1>2. TypeOK /\ BackoffInv /\ [Next]_vars => BackoffInv'
    <2>. SUFFICES ASSUME TypeOK, BackoffInv, [Next]_vars
                  PROVE  BackoffInv'
        OBVIOUS
    <2>1. ASSUME NEW p \in Proc, SuppressPing(p) PROVE BackoffInv'
        BY <2>1, HeartbeatAssumption DEF SuppressPing, observers, BackoffInv, TypeOK, Age
    <2>2. ASSUME NEW p \in Proc, StartPing(p) PROVE BackoffInv'
        BY <2>2, HeartbeatAssumption DEF StartPing, BackoffInv, TypeOK, Age
    <2>3. ASSUME NEW p \in Proc, Restart(p) PROVE BackoffInv'
        BY <2>3, HeartbeatAssumption DEF Restart, BackoffInv, TypeOK, Age
    <2>4. CASE Tick
        <3>. SUFFICES ASSUME NEW p \in Proc, attemptAgo'[p] # Never
                      PROVE  checkedAgo'[p] # Never /\ checkedAgo'[p] <= attemptAgo'[p]
            BY DEF BackoffInv
        <3>1. /\ checkedAgo'[p] = Older(checkedAgo[p])
              /\ attemptAgo'[p] = Older(attemptAgo[p])
            BY <2>4 DEF Tick
        <3>2. attemptAgo[p] # Never
            BY <3>1 DEF Older
        <3>3. /\ checkedAgo[p] \in Age /\ attemptAgo[p] \in Age
              /\ checkedAgo[p] <= attemptAgo[p]
            BY <3>2 DEF BackoffInv, TypeOK
        <3>4. Older(checkedAgo[p]) <= Older(attemptAgo[p])
            BY <3>3, OlderMonotone, HeartbeatAssumption DEF Age
        <3>5. Older(checkedAgo[p]) # Never
            BY <3>3, OlderAge, HeartbeatAssumption DEF Age
        <3>. QED BY <3>1, <3>4, <3>5
    <2>5. ASSUME NEW p \in Proc,
                 \/ ReceivePost(p) \/ PingDelivered(p) \/ PingFailed(p) \/ WriteTmp(p)
                 \/ RenameTmp(p) \/ StampFailed(p) \/ ToggleOptOut(p)
          PROVE  BackoffInv'
        BY <2>5 DEF ReceivePost, PingDelivered, PingFailed, WriteTmp, RenameTmp,
                    StampFailed, ToggleOptOut, memory, observers, BackoffInv
    <2>6. CASE ReachabilityChanges \/ UNCHANGED vars
        BY <2>6 DEF ReachabilityChanges, vars, memory, observers, BackoffInv
    <2>. QED BY <2>1, <2>2, <2>3, <2>4, <2>5, <2>6
             DEF Next, ProcessStep, maybeSendHeartbeat, PingStep
<1>. QED BY <1>1, <1>2, TypeCorrect, PTL DEF Spec

\* A process that failed f times in a row leaves the widened guard between two pings.
THEOREM BackoffHonoured == Spec => BackoffSpacing
<1>1. TypeOK /\ BackoffInv /\ [Next]_vars =>
        [\A p \in Proc : StartsPing(p) =>
            ~Younger(attemptAgo[p], guardIntervalFor(failures[p]))]_vars
    <2>. SUFFICES ASSUME TypeOK, BackoffInv, Next,
                         NEW p \in Proc, StartsPing(p)
                  PROVE  ~Younger(attemptAgo[p], guardIntervalFor(failures[p]))
        BY DEF Next
    <2>1. ASSUME NEW q \in Proc, ProcessStep(q) PROVE q = p /\ StartPing(p)
        BY <2>1 DEF StartsPing, TypeOK, ProcessStep, maybeSendHeartbeat, PingStep,
                    SuppressPing, StartPing, ReceivePost, PingDelivered, PingFailed,
                    WriteTmp, RenameTmp, StampFailed, Restart, ToggleOptOut, memory
    <2>2. StartPing(p)
        BY <2>1 DEF Next, StartsPing, ReachabilityChanges, Tick, memory
    <2>3. ~Younger(checkedAgo[p], guardIntervalFor(failures[p]))
        BY <2>2 DEF StartPing, GateOpen
    <2>4. guardIntervalFor(failures[p]) \in Int
        BY GuardBounds DEF TypeOK
    <2>. QED BY <2>3, <2>4, HeartbeatAssumption DEF Younger, BackoffInv, TypeOK, Age
<1>. QED BY <1>1, TypeCorrect, BackoffInvariant, PTL DEF Spec, BackoffSpacing

-----------------------------------------------------------------------------
(* The opt-out. *)

\* At most one POST of a process arrives after its opt-out.
THEOREM OptOutBounded == Spec => []OptOutBoundsTraffic
<1>1. Init => OptOutInv
    <2>. SUFFICES ASSUME Init, NEW p \in Proc
                  PROVE  postsOptedOut[p] <= 1 /\ postsOptedOut[p] # 1
        BY DEF OptOutInv
    <2>1. postsOptedOut[p] = 0
        BY DEF Init
    <2>. QED BY <2>1
<1>2. TypeOK /\ OptOutInv /\ [Next]_vars => OptOutInv'
    <2>. SUFFICES ASSUME TypeOK, OptOutInv, [Next]_vars
                  PROVE  OptOutInv'
        OBVIOUS
    <2>. USE DEF OptOutInv, TypeOK, observers
    <2>1. ASSUME NEW p \in Proc, StartPing(p) PROVE OptOutInv'
        BY <2>1 DEF StartPing, GateOpen
    <2>2. ASSUME NEW p \in Proc, ReceivePost(p) PROVE OptOutInv'
        BY <2>2 DEF ReceivePost, UpTo
    <2>3. ASSUME NEW p \in Proc, ToggleOptOut(p) PROVE OptOutInv'
        BY <2>3 DEF ToggleOptOut, memory
    <2>4. ASSUME NEW p \in Proc, PingDelivered(p) PROVE OptOutInv'
        BY <2>4 DEF PingDelivered
    <2>5. ASSUME NEW p \in Proc,
                 \/ SuppressPing(p) \/ PingFailed(p) \/ WriteTmp(p)
                 \/ RenameTmp(p) \/ StampFailed(p) \/ Restart(p)
          PROVE  OptOutInv'
        BY <2>5 DEF SuppressPing, PingFailed, WriteTmp, RenameTmp, StampFailed, Restart
    <2>6. CASE ReachabilityChanges \/ Tick \/ UNCHANGED vars
        BY <2>6 DEF ReachabilityChanges, Tick, vars, memory
    <2>. QED BY <2>1, <2>2, <2>3, <2>4, <2>5, <2>6
             DEF Next, ProcessStep, maybeSendHeartbeat, PingStep
<1>3. OptOutInv => OptOutBoundsTraffic
    BY DEF OptOutInv, OptOutBoundsTraffic
<1>. QED BY <1>1, <1>2, <1>3, TypeCorrect, PTL DEF Spec

-----------------------------------------------------------------------------
(* The stamp, with one process at a time. *)

LEMMA StampInvariant == (\A p, q \in Proc : p = q) => (Spec => []StampInv)
<1>. SUFFICES ASSUME \A p, q \in Proc : p = q
              PROVE  Spec => []StampInv
    OBVIOUS
<1>1. Init => StampInv
    BY DEF Init, StampInv
<1>2. TypeOK /\ StampInv /\ [Next]_vars => StampInv'
    <2>. SUFFICES ASSUME TypeOK, StampInv, [Next]_vars
                  PROVE  StampInv'
        OBVIOUS
    <2>. USE HeartbeatAssumption DEF StampInv, TypeOK, Age
    <2>1. ASSUME NEW p \in Proc, PingDelivered(p) PROVE StampInv'
        BY <2>1 DEF PingDelivered
    <2>2. ASSUME NEW p \in Proc, WriteTmp(p) PROVE StampInv'
        BY <2>2 DEF WriteTmp, observers
    <2>3. ASSUME NEW p \in Proc, RenameTmp(p) PROVE StampInv'
        BY <2>3 DEF RenameTmp, Latest
    <2>4. ASSUME NEW p \in Proc, Restart(p) PROVE StampInv'
        BY <2>4 DEF Restart
    <2>5. ASSUME NEW p \in Proc,
                 \/ SuppressPing(p) \/ StartPing(p) \/ ReceivePost(p) \/ PingFailed(p)
                 \/ StampFailed(p) \/ ToggleOptOut(p)
          PROVE  StampInv'
        BY <2>5 DEF SuppressPing, StartPing, ReceivePost, PingFailed, StampFailed,
                    ToggleOptOut, memory, observers
    <2>6. CASE Tick
        BY <2>6 DEF Tick, Older
    <2>7. CASE ReachabilityChanges \/ UNCHANGED vars
        BY <2>7 DEF ReachabilityChanges, vars, memory, observers
    <2>. QED BY <2>1, <2>2, <2>3, <2>4, <2>5, <2>6, <2>7
             DEF Next, ProcessStep, maybeSendHeartbeat, PingStep
<1>. QED BY <1>1, <1>2, TypeCorrect, PTL DEF Spec

\* One process at a time never pings within Interval of a delivery that was stamped,
\* across any number of crashes and restarts.
THEOREM RecordedCadenceKept ==
    (\A p, q \in Proc : p = q) => (Spec => RecordedCadence)
<1>. SUFFICES ASSUME \A p, q \in Proc : p = q
              PROVE  Spec => RecordedCadence
    OBVIOUS
<1>1. TypeOK /\ StampInv /\ [Next]_vars =>
        [\A p \in Proc : p \notin Pathless /\ StartsPing(p) => ~Recent(recordedAgo)]_vars
    <2>. SUFFICES ASSUME TypeOK, StampInv, Next,
                         NEW p \in Proc, p \notin Pathless, StartsPing(p)
                  PROVE  ~Recent(recordedAgo)
        BY DEF Next
    <2>1. ASSUME NEW q \in Proc, ProcessStep(q) PROVE q = p /\ StartPing(p)
        BY <2>1 DEF StartsPing, TypeOK, ProcessStep, maybeSendHeartbeat, PingStep,
                    SuppressPing, StartPing, ReceivePost, PingDelivered, PingFailed,
                    WriteTmp, RenameTmp, StampFailed, Restart, ToggleOptOut, memory
    <2>2. StartPing(p)
        BY <2>1 DEF Next, StartsPing, ReachabilityChanges, Tick, memory
    <2>3. ~Recent(stampAgo)
        BY <2>2 DEF StartPing, WithinCadence, readStampMtimeMs
    <2>. QED BY <2>3, HeartbeatAssumption DEF Recent, Younger, StampInv, TypeOK, Age
<1>. QED BY <1>1, TypeCorrect, StampInvariant, PTL DEF Spec, RecordedCadence

-----------------------------------------------------------------------------
(* heartbeatReady. *)


\* The gate's own step, seen through a request: it never ends a ping.
LEMMA RequestGate ==
    ASSUME NEW c \in Client, Request(c), Self \in Proc, inFlight \in [Proc -> Phases]
    PROVE  /\ inFlight'[Self] \in Phases
           /\ inFlight[Self] # "none" => inFlight'[Self] = inFlight[Self]
<1>1. CASE maybeSendHeartbeat(Self)
    BY <1>1 DEF maybeSendHeartbeat, SuppressPing, StartPing, GateOpen, Phases
<1>2. CASE UNCHANGED vars
    BY <1>2 DEF vars, memory
<1>. QED BY <1>1, <1>2 DEF Request

LEMMA ReadyTypeCorrect ==
    ReadySpec => [](ReadyTypeOK /\ inFlight \in [Proc -> Phases])
<1>. DEFINE T == ReadyTypeOK /\ inFlight \in [Proc -> Phases]
<1>1. ReadyInit => T
    BY ReadyAssumption DEF ReadyInit, Init, ReadyTypeOK, Phases
<1>2. T /\ [ReadyNext]_allVars => T'
    <2>. SUFFICES ASSUME T, [ReadyNext]_allVars
                  PROVE  T'
        OBVIOUS
    <2>. USE ReadyAssumption
    <2>1. ASSUME NEW c \in Client, Request(c) PROVE T'
        <3>1. inFlight' \in [Proc -> Phases]
            BY <2>1 DEF Request, maybeSendHeartbeat, SuppressPing, StartPing, vars,
                        memory, Phases
        <3>2. ReadyTypeOK'
            BY <2>1 DEF ReadyTypeOK, Request, SettleFirst
        <3>. QED BY <3>1, <3>2
    <2>2. CASE SelfPingStep
        <3>1. inFlight' \in [Proc -> Phases]
            BY <2>2 DEF SelfPingStep, PingStep, ReceivePost, PingDelivered, PingFailed,
                        WriteTmp, RenameTmp, StampFailed, Phases
        <3>2. ReadyTypeOK'
            BY <2>2 DEF ReadyTypeOK, SelfPingStep, ContinueHooks, readyVars
        <3>. QED BY <3>1, <3>2
    <2>3. CASE SelfRestart
        BY <2>3 DEF SelfRestart, Restart, ReadyTypeOK, Phases
    <2>4. CASE (ToggleOptOut(Self) \/ ReachabilityChanges \/ Tick) /\ UNCHANGED readyVars
        BY <2>4 DEF ToggleOptOut, ReachabilityChanges, Tick, memory, readyVars, ReadyTypeOK
    <2>5. CASE UNCHANGED allVars
        BY <2>5 DEF allVars, vars, memory, readyVars, ReadyTypeOK
    <2>. QED BY <2>1, <2>2, <2>3, <2>4, <2>5 DEF ReadyNext
<1>. QED BY <1>1, <1>2, PTL DEF ReadySpec

LEMMA ReadyInvariant == ReadySpec => []ReadyInv
<1>1. ReadyInit => ReadyInv
    BY DEF ReadyInit, ReadyInv
<1>2. /\ ReadyTypeOK /\ inFlight \in [Proc -> Phases] /\ ReadyInv
      /\ [ReadyNext]_allVars
      => ReadyInv'
    <2>. SUFFICES ASSUME ReadyTypeOK, inFlight \in [Proc -> Phases], ReadyInv,
                         [ReadyNext]_allVars
                  PROVE  ReadyInv'
        OBVIOUS
    <2>. USE ReadyAssumption
    <2>1. ASSUME NEW c \in Client, Request(c) PROVE ReadyInv'
        <3>. SUFFICES ASSUME NEW r \in Root
                      PROVE  /\ firstPing'[r] => inFlight'[Self] # "none" /\ ~ready'[r]
                             /\ settled'[r] <=> \E d \in requested' : RootOf[d] = r
                             /\ ready'[r] => settled'[r]
                             /\ waiting'[r] => settled'[r]
                             /\ settled'[r] => ready'[r] \/ waiting'[r]
            BY DEF ReadyInv
        <3>1. /\ inFlight[Self] # "none" => inFlight'[Self] = inFlight[Self]
              /\ requested' = requested \cup {c}
            BY <2>1, RequestGate DEF Request
        <3>2. CASE r # RootOf[c]
            BY <3>1, <3>2, <2>1 DEF Request, SettleFirst, EntryOf, ReadyInv
        <3>3. CASE r = RootOf[c] /\ settled[r]
            BY <3>1, <3>3, <2>1 DEF Request, SettleFirst, EntryOf, ReadyInv
        <3>4. CASE r = RootOf[c] /\ ~settled[r]
            BY <3>1, <3>4, <2>1 DEF Request, SettleFirst, EntryOf, ReadyInv
        <3>. QED BY <3>2, <3>3, <3>4
    <2>2. CASE SelfPingStep
        <3>1. CASE inFlight'[Self] = "none"
            BY <2>2, <3>1 DEF SelfPingStep, ContinueHooks, ReadyInv
        <3>2. CASE inFlight'[Self] # "none"
            BY <2>2, <3>2 DEF SelfPingStep, ContinueHooks, readyVars, ReadyInv
        <3>. QED BY <3>1, <3>2
    <2>3. CASE SelfRestart
        BY <2>3 DEF SelfRestart, ReadyInv
    <2>4. CASE (ToggleOptOut(Self) \/ ReachabilityChanges \/ Tick) /\ UNCHANGED readyVars
        BY <2>4 DEF ToggleOptOut, ReachabilityChanges, Tick, memory, readyVars, ReadyInv
    <2>5. CASE UNCHANGED allVars
        BY <2>5 DEF allVars, vars, memory, readyVars, ReadyInv
    <2>. QED BY <2>1, <2>2, <2>3, <2>4, <2>5 DEF ReadyNext
<1>. QED BY <1>1, <1>2, ReadyTypeCorrect, PTL DEF ReadySpec

\* The promise resolves only after the ping its first request found has settled.
THEOREM ReadyFlushed == ReadySpec => []ReadyMeansFlushed
<1>1. ReadyInv => ReadyMeansFlushed
    BY DEF ReadyInv, ReadyMeansFlushed
<1>. QED BY <1>1, ReadyInvariant, PTL

\* Only a request of one of its clients resolves a root's promise.
THEOREM ReadyPending == ReadySpec => []PendingUntilUsed
<1>1. ReadyInv => PendingUntilUsed
    BY DEF ReadyInv, PendingUntilUsed
<1>. QED BY <1>1, ReadyInvariant, PTL

-----------------------------------------------------------------------------
(* One ping: its budget. *)

PingInv == PingTypeOK /\ BudgetInv /\ DeliveredMeansTaken

\* What can be relayed is short, or another place's.
LEMMA ProbesRelayLittle ==
    /\ Unlearned \in [Field -> Relayed \ {"bloated"}]
    /\ \A members : [f \in Field |-> learned(members[f])] \in [Field -> Relayed \ {"bloated"}]
    /\ \A status : [f \in Field |-> IF HealthOk(status) THEN "other" ELSE "none"]
                       \in [Field -> Relayed \ {"bloated"}]
BY DEF Unlearned, learned, Relayed

\* A probe that ends keeps the invariant, whatever it relays of this.
LEMMA ProbeEnds ==
    ASSUME PingInv, step \in {"headers", "body"},
           NEW relayed \in [Field -> Relayed \ {"bloated"}], NEW words \in [Field -> Usable],
           EndProbe(relayed, words)
    PROVE  PingInv'
<1>. USE PingAssumption DEF PingInv, PingAssumption, EndProbe
<1>1. payload' = [features |-> payload.features, relayed |-> relayed]
  BY DEF PingTypeOK
<1>2. PingTypeOK'
  BY <1>1 DEF PingTypeOK, InFlight
<1>3. TooLarge' = FALSE
  BY <1>1 DEF TooLarge
<1>4. BudgetInv'
  BY <1>3 DEF BudgetInv, BudgetKept, ProbeNeverCostsThePing, PingTypeOK, AtLeastZero
<1>. QED
  BY <1>2, <1>4 DEF DeliveredMeansTaken

LEMMA PingInitially == PingInit => PingInv
<1>. SUFFICES ASSUME PingInit PROVE PingInv
  OBVIOUS
<1>. USE PingAssumption DEF PingInit, PingAssumption
<1>1. Unlearned \in [Field -> Relayed] /\ Silence \in [Field -> Usable]
  BY DEF Unlearned, Silence, Usable, Relayed
<1>2. payload \in [features : SUBSET Nat, relayed : [Field -> Relayed]]
  BY <1>1
<1>3. 0 \in 0 .. Timeout + MaxStep /\ 0 \in -MaxStep .. MaxStep
  OBVIOUS
<1>4. PingTypeOK
  BY <1>1, <1>2, <1>3 DEF PingTypeOK
<1>5. TooLarge = FALSE
  BY DEF TooLarge, Unlearned
<1>6. BudgetInv
  BY <1>5 DEF BudgetInv, BudgetKept, ProbeNeverCostsThePing, AtLeastZero
<1>. QED
  BY <1>4, <1>6 DEF PingInv, DeliveredMeansTaken

LEMMA BeginStep ==
    ASSUME PingInv, NEW who \in {"heartbeat", "shim"}, Begin(who) PROVE PingInv'
<1>. USE PingAssumption DEF PingInv, PingAssumption, Begin
<1>1. payload' = [features |-> registeredFeatures, relayed |-> Unlearned]
  OBVIOUS
<1>2. registry \subseteq Nat /\ registeredFeatures \subseteq Nat
  BY DEF registeredFeatures, PingTypeOK
<1>3. Least(HealthCap, Timeout) = HealthCap
  BY DEF Least
<1>4. step' \in {"headers", "probed"} /\ timer' \in {0, HealthCap}
      /\ (step' = "headers" => timer' = HealthCap)
  BY <1>3
<1>5. PingTypeOK'
  <2>1. Unlearned \in [Field -> Relayed] /\ Silence \in [Field -> Usable]
    BY DEF Unlearned, Silence, Usable, Relayed
  <2>2. payload' \in [features : SUBSET Nat, relayed : [Field -> Relayed]]
    BY <1>1, <1>2, <2>1
  <2>3. timer' \in 0 .. Timeout + MaxStep /\ 0 \in 0 .. Timeout + MaxStep
        /\ 0 \in -MaxStep .. MaxStep
    BY <1>4
  <2>4. step' \in InFlight /\ caller' \in {"heartbeat", "shim"}
    BY <1>4 DEF InFlight
  <2>5. said' \in [Field -> Usable] /\ declared' \subseteq Nat
    BY <1>2, <2>1
  <2>. QED
    BY <2>2, <2>3, <2>4, <2>5 DEF PingTypeOK
<1>6. TooLarge' = FALSE
  BY <1>1 DEF TooLarge, Unlearned
<1>7. BudgetInv'
  BY <1>4, <1>6 DEF BudgetInv, BudgetKept, ProbeNeverCostsThePing, AtLeastZero
<1>. QED
  BY <1>4, <1>5, <1>7 DEF DeliveredMeansTaken

LEMMA PostStep == ASSUME PingInv, Post PROVE PingInv'
<1>. USE PingAssumption DEF PingInv, PingAssumption, Post
<1>1. LeftUntilDeadline \in 0 .. Timeout + MaxStep
  BY DEF LeftUntilDeadline, AtLeastZero, PingTypeOK
<1>2. PingTypeOK'
  BY <1>1 DEF PingTypeOK, InFlight, Ended
<1>3. TooLarge' = TooLarge
  BY DEF TooLarge
<1>4. BudgetInv'
  <2>1. elapsed \in Nat /\ stepped \in Int /\ elapsed <= HealthCap
    BY DEF BudgetInv, PingTypeOK
  <2>2. CASE LeftUntilDeadline < MinBudget
    <3>1. stepped > 0
      BY <2>1, <2>2 DEF LeftUntilDeadline, AtLeastZero
    <3>. QED
      BY <2>1, <2>2, <3>1, <1>3
         DEF BudgetInv, BudgetKept, ProbeNeverCostsThePing, AtLeastZero
  <2>3. CASE ~(LeftUntilDeadline < MinBudget)
    BY <2>1, <2>3, <1>3
       DEF BudgetInv, BudgetKept, ProbeNeverCostsThePing, LeftUntilDeadline, AtLeastZero
  <2>. QED
    BY <2>2, <2>3
<1>. QED
  BY <1>2, <1>4 DEF DeliveredMeansTaken

\* The POST ends, with the blame where the code cannot help it.
LEMMA PostEnds ==
    ASSUME PingInv, step = "posting", NEW outcome \in Ended, NEW taken \in BOOLEAN,
           NEW blame \in BOOLEAN, EndPost(outcome, taken, blame),
           outcome = "delivered" => taken,
           outcome = "failed" => blame \/ timer = 0
    PROVE  PingInv'
<1>. USE PingAssumption DEF PingInv, PingAssumption, EndPost, Ended
<1>1. PingTypeOK'
  BY DEF PingTypeOK
<1>2. TooLarge' = TooLarge
  BY DEF TooLarge
<1>3. BudgetInv'
  BY <1>2 DEF BudgetInv, BudgetKept, ProbeNeverCostsThePing, PingTypeOK, AtLeastZero
<1>. QED
  BY <1>1, <1>3 DEF DeliveredMeansTaken

LEMMA PingKept == PingInv /\ [PingNext]_pingVars => PingInv'
<1>. SUFFICES ASSUME PingInv, [PingNext]_pingVars PROVE PingInv'
  OBVIOUS
<1>1. CASE UNCHANGED pingVars
  BY <1>1 DEF pingVars, core, observed, PingInv, PingTypeOK, BudgetInv, BudgetKept, TooLarge,
             ProbeNeverCostsThePing, DeliveredMeansTaken
<1>2. ASSUME NEW raw \in RawName, registerAdapter(raw) PROVE PingInv'
  BY <1>2 DEF registerAdapter, observed, PingInv, PingTypeOK, BudgetInv, BudgetKept, TooLarge,
             ProbeNeverCostsThePing, DeliveredMeansTaken
<1>3. CASE sendTelemetryPingNow \/ sendTelemetryPing
  BY <1>3, BeginStep DEF sendTelemetryPingNow, sendTelemetryPing
<1>4. CASE Probe
  <2>1. ASSUME NEW status \in {"3xx", "other"}, HealthRefused(status) PROVE PingInv'
    BY <2>1, ProbeEnds, ProbesRelayLittle DEF HealthRefused, Silence, Usable
  <2>2. CASE HealthHeaders
    BY <2>2 DEF HealthHeaders, observed, PingInv, PingTypeOK, BudgetInv, BudgetKept, TooLarge,
               ProbeNeverCostsThePing, DeliveredMeansTaken, InFlight
  <2>3. CASE HealthFails
    BY <2>3, ProbeEnds, ProbesRelayLittle DEF HealthFails, Silence, Usable
  <2>4. ASSUME NEW members \in [Field -> Usable], HealthBody(members) PROVE PingInv'
    BY <2>4, ProbeEnds, ProbesRelayLittle DEF HealthBody
  <2>. QED
    BY <1>4, <2>1, <2>2, <2>3, <2>4 DEF Probe
<1>5. CASE Delivery
  <2>1. ~TooLarge
    BY DEF PingInv, BudgetInv
  <2>2. CASE CheckpointTakes
    BY <2>2, PostEnds DEF CheckpointTakes, Ended
  <2>3. CASE CheckpointRedirects
    BY <2>3, PostEnds DEF CheckpointRedirects, CheckpointOk, Ended
  <2>4. CASE CheckpointRefuses
    BY <2>1, <2>4, PostEnds DEF CheckpointRefuses, Ended
  <2>5. ASSUME NEW taken \in BOOLEAN, PostLost(taken) PROVE PingInv'
    BY <2>5, PostEnds DEF PostLost, Ended
  <2>. QED
    BY <1>5, <2>2, <2>3, <2>4, <2>5 DEF Delivery
<1>6. CASE Deadline
  <2>1. CASE HealthAborted
    BY <2>1, ProbeEnds, ProbesRelayLittle DEF HealthAborted, Silence, Usable
  <2>2. CASE Post
    BY <2>2, PostStep
  <2>3. ASSUME NEW taken \in BOOLEAN, PostAborted(taken) PROVE PingInv'
    BY <2>3, PostEnds DEF PostAborted, Ended
  <2>. QED
    BY <1>6, <2>1, <2>2, <2>3 DEF Deadline
<1>7. CASE Settle
  BY <1>7 DEF Settle, observed, PingInv, PingTypeOK, BudgetInv, BudgetKept, TooLarge,
             ProbeNeverCostsThePing, DeliveredMeansTaken, Ended
<1>8. CASE TimePasses
  <2>. USE <1>8, PingAssumption DEF TimePasses, observed, PingInv, PingAssumption
  <2>1. BudgetInv'
    BY DEF PingTypeOK, BudgetInv, BudgetKept, TooLarge, ProbeNeverCostsThePing, AtLeastZero
  <2>2. PingTypeOK'
    BY <2>1 DEF PingTypeOK, BudgetInv, BudgetKept, AtLeastZero
  <2>. QED
    BY <2>1, <2>2 DEF DeliveredMeansTaken
<1>9. ASSUME NEW by \in {-1, 1}, ClockStep(by) PROVE PingInv'
  BY <1>9, PingAssumption
     DEF ClockStep, observed, PingInv, PingTypeOK, BudgetInv, BudgetKept, TooLarge,
         ProbeNeverCostsThePing, DeliveredMeansTaken, PingAssumption
<1>. QED
  BY <1>1, <1>2, <1>3, <1>4, <1>5, <1>6, <1>7, <1>8, <1>9 DEF PingNext

LEMMA PingInvariant == PingSpec => []PingInv
BY PingInitially, PingKept, PTL DEF PingSpec

(***************************************************************************)
(* The type invariant of a ping, for any timeouts and adapters.            *)
(***************************************************************************)
THEOREM PingTypes == PingSpec => []PingTypeOK
<1>1. PingInv => PingTypeOK
  BY DEF PingInv
<1>. QED
  BY <1>1, PingInvariant, PTL

(***************************************************************************)
(* Probe and POST together keep the one timeout, but for what the wall     *)
(* clock was set back meanwhile (sendTelemetryPingNow).                    *)
(***************************************************************************)
THEOREM BudgetBounded == PingSpec => []BudgetKept
<1>1. PingInv => BudgetKept
  BY DEF PingInv, BudgetInv
<1>. QED
  BY <1>1, PingInvariant, PTL

(***************************************************************************)
(* No answer of /health and no delay of it costs the ping                  *)
(* (probePlatformHealth, applyHealthProbe).                                *)
(***************************************************************************)
THEOREM ProbeHarmless == PingSpec => []ProbeNeverCostsThePing
<1>1. PingInv => ProbeNeverCostsThePing
  BY DEF PingInv, BudgetInv
<1>. QED
  BY <1>1, PingInvariant, PTL

(***************************************************************************)
(* A ping that counts as delivered was taken by the checkpoint.            *)
(***************************************************************************)
THEOREM DeliveredTaken == PingSpec => []DeliveredMeansTaken
<1>1. PingInv => DeliveredMeansTaken
  BY DEF PingInv
<1>. QED
  BY <1>1, PingInvariant, PTL

-----------------------------------------------------------------------------
(* What a ping says. *)

\* The first of the adapters declared, by their place in the alphabet.
First == {n \in declared : Cardinality({m \in declared : m < n}) < MaxFeatures}

\* Adapters are few, those in the payload are the first of the declared ones, and what
\* is relayed is what was said, at any time.
TruthInv ==
    /\ PingTypeOK
    /\ IsFiniteSet(registry) /\ IsFiniteSet(declared)
    /\ payload.features = First
    /\ \A f \in Field : payload.relayed[f] = IF said[f] = "short" THEN "own" ELSE "none"

\* The first ones are as many as there is room for, and before all others.
LEMMA FirstOnes ==
    ASSUME IsFiniteSet(declared), declared \subseteq Nat
    PROVE  /\ Cardinality(First) = Least(MaxFeatures, Cardinality(declared))
           /\ \A n \in First, m \in declared \ First : n < m
<1>. DEFINE R == {p \in Nat \X Nat : p[1] < p[2]}
            P == Place(R, declared)
            Before(n) == Cardinality({m \in declared : m < n})
<1>1. \A n \in declared : SetLessThan(n, R, declared) = {m \in declared : m < n}
  BY DEF SetLessThan
<1>2. StrictOrder(R, declared)
  BY DEF StrictOrder, IsTransitivelyClosedOn
<1>3. \A n \in declared : P[n] = Before(n) + 1
  BY <1>1 DEF Place
<1>4. \A n \in declared : Before(n) \in Nat
  <2>. TAKE n \in declared
  <2>1. IsFiniteSet({m \in declared : m < n})
    BY FS_Subset
  <2>. QED
    BY <2>1, FS_CardinalityType
<1>5. First = {n \in declared : Before(n) < MaxFeatures}
  BY DEF First
<1>. HIDE DEF P, Before
<1>6. First = {n \in declared : P[n] <= MaxFeatures}
  <2>1. ASSUME NEW n \in declared PROVE Before(n) < MaxFeatures <=> P[n] <= MaxFeatures
    <3>1. P[n] = Before(n) + 1 /\ Before(n) \in Nat
      BY <1>3, <1>4
    <3>. QED
      BY <3>1, PingAssumption DEF PingAssumption
  <2>. QED
    BY <1>5, <2>1
<1>7. Cardinality(First) = Least(MaxFeatures, Cardinality(declared))
  <2>1. MaxFeatures \in Nat
    BY PingAssumption DEF PingAssumption
  <2>2. Cardinality(First) = IF MaxFeatures < Cardinality(declared) THEN MaxFeatures
                             ELSE Cardinality(declared)
    BY <1>2, <1>6, <2>1, FirstPlaces DEF P
  <2>. QED
    BY <2>2 DEF Least
<1>8. ASSUME NEW n \in First, NEW m \in declared \ First PROVE n < m
  <2>1. n \in declared /\ n \in Nat /\ m \in Nat /\ n # m
    BY <1>6
  <2>2. CASE m < n
    <3>1. <<m, n>> \in R
      BY <2>1, <2>2
    <3>2. P[m] < P[n]
      BY <1>2, <2>1, <3>1, PlacesInOrder DEF P
    <3>3. P[n] <= MaxFeatures /\ ~(P[m] <= MaxFeatures)
      BY <1>6
    <3>4. P[m] \in Int /\ P[n] \in Int
      BY <1>3, <1>4, <2>1
    <3>. QED
      BY <3>2, <3>3, <3>4, PingAssumption DEF PingAssumption
  <2>. QED
    BY <2>1, <2>2
<1>. QED
  BY <1>7, <1>8

\* A probe that ends has said what it relays.
LEMMA ProbeTells ==
    ASSUME TruthInv, NEW relayed \in [Field -> Relayed], NEW words \in [Field -> Usable],
           EndProbe(relayed, words),
           \A f \in Field : relayed[f] = IF words[f] = "short" THEN "own" ELSE "none",
           PingTypeOK'
    PROVE  TruthInv'
<1>1. payload' = [features |-> payload.features, relayed |-> relayed] /\ said' = words
  BY DEF EndProbe, TruthInv, PingTypeOK
<1>. QED
  BY <1>1 DEF TruthInv, EndProbe, First

LEMMA TruthKept == TruthInv /\ PingTypeOK' /\ [PingNext]_pingVars => TruthInv'
<1>. SUFFICES ASSUME TruthInv, PingTypeOK', [PingNext]_pingVars PROVE TruthInv'
  OBVIOUS
<1>1. CASE UNCHANGED <<registry, payload, declared, said>>
  BY <1>1 DEF TruthInv, First
<1>2. ASSUME NEW raw \in RawName, registerAdapter(raw) PROVE TruthInv'
  <2>1. IsFiniteSet(registry')
    BY <1>2, FS_AddElement DEF registerAdapter, TruthInv
  <2>. QED
    BY <1>2, <2>1 DEF registerAdapter, observed, TruthInv, First
<1>3. ASSUME NEW who \in {"heartbeat", "shim"}, Begin(who) PROVE TruthInv'
  <2>1. payload' = [features |-> registeredFeatures, relayed |-> Unlearned]
    BY <1>3 DEF Begin
  <2>2. registeredFeatures = First' /\ declared' = registry /\ registry' = registry
    BY <1>3 DEF Begin, registeredFeatures, First
  <2>3. said' = Silence
    BY <1>3 DEF Begin
  <2>. QED
    BY <2>1, <2>2, <2>3 DEF TruthInv, Silence, Unlearned
<1>4. CASE Probe
  <2>. USE ProbesRelayLittle DEF Silence, Unlearned, Usable, Relayed, HealthOk, learned
  <2>1. ASSUME NEW status \in {"3xx", "other"}, HealthRefused(status) PROVE TruthInv'
    BY <2>1, ProbeTells DEF HealthRefused
  <2>2. CASE HealthHeaders
    BY <1>1, <2>2 DEF HealthHeaders, observed
  <2>3. CASE HealthFails
    BY <2>3, ProbeTells DEF HealthFails
  <2>4. ASSUME NEW members \in [Field -> Usable], HealthBody(members) PROVE TruthInv'
    BY <2>4, ProbeTells DEF HealthBody
  <2>. QED
    BY <1>4, <2>1, <2>2, <2>3, <2>4 DEF Probe
<1>5. CASE Delivery
  BY <1>1, <1>5 DEF Delivery, CheckpointTakes, CheckpointRedirects, CheckpointRefuses,
                   PostLost, EndPost
<1>6. CASE HealthAborted
  BY <1>6, ProbeTells, ProbesRelayLittle
     DEF HealthAborted, Silence, Unlearned, Usable, Relayed
<1>7. CASE Post \/ Settle \/ TimePasses
           \/ (\E taken \in BOOLEAN : PostAborted(taken)) \/ \E by \in {-1, 1} : ClockStep(by)
  BY <1>1, <1>7 DEF Post, Settle, TimePasses, PostAborted, EndPost, ClockStep, observed
<1>8. CASE UNCHANGED pingVars
  BY <1>1, <1>8 DEF pingVars, core, observed
<1>. QED
  BY <1>2, <1>3, <1>4, <1>5, <1>6, <1>7, <1>8
     DEF PingNext, Deadline, sendTelemetryPingNow, sendTelemetryPing

(***************************************************************************)
(* What the checkpoint takes is what the endpoint said to this ping, and   *)
(* the first of the adapters declared before it, as many as there is room  *)
(* for, for any names, any room and any members of /health                 *)
(* (sendTelemetryPingNow, boundFeatures, learned).                         *)
(***************************************************************************)
THEOREM PingTellsTheTruth == PingSpec => []PingIsTruthful
<1>1. PingInit => TruthInv
  <2>. SUFFICES ASSUME PingInit PROVE TruthInv
    OBVIOUS
  <2>1. PingTypeOK
    BY PingInitially DEF PingInv
  <2>2. IsFiniteSet({})
    BY FS_EmptySet
  <2>. QED
    BY <2>1, <2>2 DEF PingInit, TruthInv, First, Silence, Unlearned
<1>2. TruthInv => PingIsTruthful
  <2>. SUFFICES ASSUME TruthInv PROVE PingIsTruthful
    OBVIOUS
  <2>1. payload.features = First /\ First \subseteq declared
    BY DEF TruthInv, First
  <2>2. /\ Cardinality(First) = Least(MaxFeatures, Cardinality(declared))
        /\ \A n \in First, m \in declared \ First : n < m
    BY FirstOnes DEF TruthInv, PingTypeOK
  <2>. QED
    BY <2>1, <2>2 DEF TruthInv, PingIsTruthful
<1>. QED
  BY <1>1, <1>2, TruthKept, PingTypes, PTL DEF PingSpec
=============================================================================

------------------------ MODULE WorkflowAdapterProofs ------------------------
(***************************************************************************)
(* Step ids stay unique, a node that was held back obeys the verdict on    *)
(* its own step, and completions stay in step, for any graph, any ids of   *)
(* the callers, any number of workflows and any interleaving of the gates. *)
(***************************************************************************)
EXTENDS WorkflowAdapter, TLAPS

LEMMA AdapterInit ==
    Init => AdapterInv
<1>. SUFFICES ASSUME Init PROVE AdapterInv
  OBVIOUS
<1>. USE AdapterAssumption DEF Init, AdapterAssumption
<1>1. TypeOK
  BY DEF TypeOK, Approvals, Resting
<1>2. Numbered /\ GatedByOneWorkflow
  <2>1. \A w \in Workflow, id \in GeneratedIds : <<w, id>> \in Steps
    BY DEF Steps, StepIds
  <2>. QED
    BY <2>1 DEF Numbered, GatedByOneWorkflow, StepIds
<1>3. \A n \in Node : NodeInv(n)
  BY DEF NodeInv, Underway, Unheard, Waiting
<1>4. TimesOutOnlyOnLateDecisions
  BY DEF TimesOutOnlyOnLateDecisions
<1>. QED
  BY <1>1, <1>2, <1>3, <1>4 DEF AdapterInv

\* A gate that has been asked for names a step of a workflow.
LEMMA GatedStepTyped ==
    ASSUME TypeOK, NEW n \in Node, NodeInv(n), gatedUnder[n] # None
    PROVE  GatedStep(n) \in Steps
BY AdapterAssumption DEF TypeOK, NodeInv, GatedStep, Steps, AdapterAssumption

\* The types, one action at a time.
LEMMA TypeStep ==
    AdapterInv /\ [Next]_vars => TypeOK'
<1>. SUFFICES ASSUME AdapterInv, [Next]_vars PROVE TypeOK'
  OBVIOUS
<1>. USE AdapterAssumption
     DEF AdapterInv, TypeOK, Resting, Waiting, Goto, platform, Decisions, Approvals, Silent,
         AdapterAssumption
<1>0. ASSUME NEW n \in Node, NEW place \in Resting, Leave(n, place)
      PROVE  /\ workflow' \in Workflow \cup {None}
             /\ starting' \subseteq created' /\ counter' \in 0 .. MaxGates
             /\ pc' \in [Node -> Resting \cup Waiting \cup {"gating", "running"}]
             /\ stepId' \in [Node -> StepIds \cup {None}]
             /\ elapsed' \in [Node -> 0 .. Timeout + PollInterval]
             /\ created' \subseteq Workflow /\ gates' \subseteq GeneratedIds
             /\ gatedUnder' \in [Node -> Workflow \cup {None}]
             /\ approval' \in [Steps -> Approvals]
             /\ decidedAt' \in [Node -> 0 .. Timeout + PollInterval]
             /\ disturbed' \in [Node -> BOOLEAN]
  BY <1>0 DEF Leave
<1>1. CASE UNCHANGED vars
  BY <1>1 DEF vars, code
<1>2. ASSUME NEW w \in Workflow, StartWorkflow(w) \/ StartReturns(w) \/ StartFails(w)
      PROVE  TypeOK'
  <2>1. \A n \in Node : Underway(n) \in BOOLEAN
    BY DEF Underway
  <2>. QED
    BY <1>2, <2>1 DEF StartWorkflow, StartReturns, StartFails
<1>3. ASSUME NEW n \in Node, NEW id \in ExplicitId \cup {None}, checkGate(n, id)
      PROVE  TypeOK'
  <2>1. counter' \in 0 .. MaxGates
    BY <1>3 DEF checkGate, NextNumber
  <2>2. Generated(n, counter') \in GeneratedIds
    BY <2>1 DEF Generated, GeneratedIds
  <2>3. stepId' \in [Node -> StepIds \cup {None}] /\ gates' \subseteq GeneratedIds
    BY <1>3, <2>2 DEF checkGate, StepIds
  <2>4. disturbed' \in [Node -> BOOLEAN]
    BY <1>3 DEF checkGate, Underway
  <2>. QED
    BY <1>3, <2>1, <2>3, <2>4 DEF checkGate
<1>4. ASSUME NEW n \in Node, GateFails(n) PROVE TypeOK'
  BY <1>0, <1>4 DEF GateFails
<1>5. ASSUME NEW n \in Node, stepCompleted(n) PROVE TypeOK'
  <2>1. gatedUnder[n] # None /\ workflow \in Workflow /\ NodeInv(n)
    BY <1>5 DEF stepCompleted, Underway, NodeInv
  <2>2. CompletedId(n) \in StepIds
    BY DEF CompletedId, Generated, StepIds, GeneratedIds
  <2>3. <<workflow, CompletedId(n)>> \in Steps /\ GatedStep(n) \in Steps
    BY <2>1, <2>2, GatedStepTyped DEF Steps
  <2>4. Leave(n, "idle")
        /\ reported' = [named |-> <<workflow, CompletedId(n)>>, gated |-> GatedStep(n)]
    BY <1>5 DEF stepCompleted
  <2>5. reported' \in [named : Steps, gated : Steps] \cup {None}
    BY <2>3, <2>4
  <2>. QED
    BY <1>0, <2>4, <2>5
<1>6. ASSUME NEW n \in Node, waitForApproval(n) PROVE TypeOK'
  <2>1. CASE Poll(n)
    <3>1. CASE Leave(n, "blocked")
      BY <1>0, <2>1, <3>1 DEF Poll
    <3>2. CASE ~Leave(n, "blocked")
      BY <2>1, <3>2 DEF Poll
    <3>. QED
      BY <3>1, <3>2
  <2>2. CASE Wake(n)
    BY <2>2 DEF Wake, NodeInv
  <2>3. CASE PollFails(n)
    BY <1>0, <2>3 DEF PollFails
  <2>4. CASE GiveUp(n)
    BY <2>4 DEF GiveUp
  <2>. QED
    BY <1>6, <2>1, <2>2, <2>3, <2>4 DEF waitForApproval
<1>7. ASSUME NEW n \in Node, WaitAgain(n) PROVE TypeOK'
  BY <1>7 DEF WaitAgain
<1>8. ASSUME NEW n \in Node, NEW decision \in Decisions, GateAnswers(n, decision)
      PROVE  TypeOK'
  <2>1. CASE Leave(n, "blocked")
    BY <1>0, <1>8, <2>1 DEF GateAnswers
  <2>2. CASE ~Leave(n, "blocked")
    BY <1>8, <2>2 DEF GateAnswers, AfterGate, Held
  <2>. QED
    BY <2>1, <2>2
<1>9. ASSUME NEW step \in Steps, NEW verdict \in {"approved", "rejected"},
             Decide(step, verdict)
      PROVE  TypeOK'
  BY <1>9 DEF Decide, code
<1>. QED
  BY <1>1, <1>2, <1>3, <1>4, <1>5, <1>6, <1>7, <1>8, <1>9 DEF Next

\* Ids and the workflows they were asked for under, over an action that makes no id and
\* no step.
LEMMA IdsKept ==
    ASSUME AdapterInv, counter' = counter, gates' = gates,
           \A m \in Node : \/ stepId'[m] = stepId[m] /\ gatedUnder'[m] = gatedUnder[m]
                           \/ stepId'[m] = None,
           \A step \in Steps : approval'[step] # "none" => approval[step] # "none"
    PROVE  Numbered' /\ GatedByOneWorkflow'
<1>. USE DEF AdapterInv, GatedByOneWorkflow
<1>0. None \notin GeneratedIds
  BY AdapterAssumption DEF AdapterAssumption, StepIds
<1>1. Numbered'
  BY DEF Numbered
<1>2. \A n \in Node : stepId'[n] \in GeneratedIds => stepId'[n] \in gates'
  BY <1>0
<1>3. \A m, n \in Node : stepId'[n] \in GeneratedIds /\ stepId'[m] = stepId'[n] => m = n
  BY <1>0
<1>4. ASSUME NEW w \in Workflow, NEW id \in GeneratedIds, approval'[<<w, id>>] # "none"
      PROVE  id \in gates' /\ \A n \in Node : stepId'[n] = id => gatedUnder'[n] = w
  <2>1. <<w, id>> \in Steps
    BY DEF Steps, StepIds
  <2>2. approval[<<w, id>>] # "none"
    BY <1>4, <2>1
  <2>. QED
    BY <1>0, <2>2
<1>. QED
  BY <1>1, <1>2, <1>3, <1>4

\* Only checkGate makes an id, and only the answer to a gate makes a step.
LEMMA IdsStep ==
    AdapterInv /\ [Next]_vars => Numbered' /\ GatedByOneWorkflow'
<1>. SUFFICES ASSUME AdapterInv, [Next]_vars PROVE Numbered' /\ GatedByOneWorkflow'
  OBVIOUS
<1>. USE AdapterAssumption DEF AdapterInv, TypeOK, AdapterAssumption
<1>1. CASE UNCHANGED vars
  BY <1>1, IdsKept DEF vars, code, platform
<1>2. ASSUME NEW w \in Workflow, StartWorkflow(w) \/ StartReturns(w) \/ StartFails(w)
      PROVE  Numbered' /\ GatedByOneWorkflow'
  BY <1>2, IdsKept DEF StartWorkflow, StartReturns, StartFails, platform
<1>3. ASSUME NEW n \in Node, NEW id \in ExplicitId \cup {None}, checkGate(n, id)
      PROVE  Numbered' /\ GatedByOneWorkflow'
  <2>. USE DEF GatedByOneWorkflow, Numbered
  <2>1. CASE id # None
    <3>1. id \notin GeneratedIds
      BY <2>1
    <3>2. /\ counter' = counter /\ gates' = gates /\ approval' = approval
          /\ stepId' = [stepId EXCEPT ![n] = id]
          /\ gatedUnder' = [gatedUnder EXCEPT ![n] = workflow]
      BY <1>3, <2>1 DEF checkGate
    <3>. QED
      BY <3>1, <3>2
  <2>2. CASE id = None
    <3>. DEFINE new == Generated(n, counter')
    <3>1. /\ counter' = counter + 1 /\ counter < MaxGates /\ gates' = gates \cup {new}
          /\ approval' = approval
          /\ stepId' = [stepId EXCEPT ![n] = new]
          /\ gatedUnder' = [gatedUnder EXCEPT ![n] = workflow]
      BY <1>3, <2>2 DEF checkGate, NextNumber
    <3>2. new.number = counter + 1
      BY <3>1 DEF Generated
    <3>3. new \notin gates
      BY <3>2
    <3>4. Numbered'
      BY <3>1, <3>2
    <3>. HIDE DEF new
    <3>5. \A m \in Node : m # n => stepId[m] # new \/ new \notin GeneratedIds
      BY <3>3
    <3>6. \A m \in Node : stepId'[m] \in GeneratedIds => stepId'[m] \in gates'
      BY <3>1
    <3>7. \A m, k \in Node :
             stepId'[k] \in GeneratedIds /\ stepId'[m] = stepId'[k] => m = k
      BY <3>1, <3>5
    <3>8. \A w \in Workflow, old \in GeneratedIds : approval'[<<w, old>>] # "none" =>
             old \in gates /\ old # new
      BY <3>1, <3>3
    <3>9. \A w \in Workflow, old \in GeneratedIds : approval'[<<w, old>>] # "none" =>
             \A m \in Node : stepId'[m] = old => gatedUnder'[m] = w
      BY <3>1, <3>8
    <3>. QED
      BY <3>1, <3>4, <3>6, <3>7, <3>8, <3>9
  <2>. QED
    BY <2>1, <2>2
<1>4. ASSUME NEW n \in Node, NEW place, Leave(n, place)
      PROVE  Numbered' /\ GatedByOneWorkflow'
  BY <1>4, IdsKept DEF Leave
<1>5. ASSUME NEW n \in Node, waitForApproval(n) \/ WaitAgain(n)
      PROVE  Numbered' /\ GatedByOneWorkflow'
  <2>1. CASE Leave(n, "blocked") \/ Leave(n, "idle")
    BY <1>4, <2>1
  <2>2. CASE ~(Leave(n, "blocked") \/ Leave(n, "idle"))
    BY <1>5, <2>2, IdsKept
       DEF waitForApproval, Poll, Wake, PollFails, GiveUp, WaitAgain, platform
  <2>. QED
    BY <2>1, <2>2
<1>6. ASSUME NEW n \in Node, NEW decision \in Decisions, GateAnswers(n, decision)
      PROVE  Numbered' /\ GatedByOneWorkflow'
  <2>1. CASE Leave(n, "blocked")
    BY <1>4, <2>1
  <2>2. CASE ~Leave(n, "blocked") /\ approval' = approval
    BY <1>6, <2>2, IdsKept DEF GateAnswers
  <2>3. CASE ~Leave(n, "blocked") /\ approval' # approval
    <3>1. /\ counter' = counter /\ gates' = gates
          /\ stepId' = stepId /\ gatedUnder' = gatedUnder
          /\ approval' = [approval EXCEPT ![GatedStep(n)] = "pending"]
      BY <1>6, <2>3 DEF GateAnswers, Held
    <3>2. ASSUME NEW w \in Workflow, NEW id \in GeneratedIds,
                 approval'[<<w, id>>] # "none", approval[<<w, id>>] = "none"
          PROVE  w = gatedUnder[n] /\ id = stepId[n]
      <4>1. <<w, id>> \in Steps
        BY DEF Steps, StepIds
      <4>2. GatedStep(n) = <<w, id>>
        BY <3>1, <3>2, <4>1
      <4>. QED
        BY <4>2 DEF GatedStep
    <3>3. Numbered'
      BY <3>1 DEF Numbered
    <3>. QED
      BY <3>1, <3>2, <3>3 DEF GatedByOneWorkflow
  <2>. QED
    BY <2>1, <2>2, <2>3
<1>7. ASSUME NEW step \in Steps, NEW verdict \in {"approved", "rejected"},
             Decide(step, verdict)
      PROVE  Numbered' /\ GatedByOneWorkflow'
  BY <1>7, IdsKept DEF Decide, code
<1>. QED
  BY <1>1, <1>2, <1>3, <1>4, <1>5, <1>6, <1>7 DEF Next, GateFails, stepCompleted

\* What holds of one node: its part of the invariant and of TimesOutOnlyOnLateDecisions.
NodeSafe(n) ==
    /\ NodeInv(n)
    /\ pc[n] = "timedOut" /\ workflow = gatedUnder[n] /\ approval[GatedStep(n)] # "pending"
          => decidedAt[n] + PollInterval >= Timeout

\* A node that takes no part in a step which leaves its step's status alone.
LEMMA OthersKept ==
    ASSUME AdapterInv, TypeOK', NEW k \in Node, workflow' = workflow,
           starting' \subseteq starting, created \subseteq created',
           pc'[k] = pc[k], stepId'[k] = stepId[k], elapsed'[k] = elapsed[k],
           gatedUnder'[k] = gatedUnder[k], decidedAt'[k] = decidedAt[k],
           counter' = counter, disturbed'[k] = disturbed[k],
           gatedUnder[k] # None =>
              approval'[GatedStep(k)] = approval[GatedStep(k)]
    PROVE  NodeSafe(k)'
<1>1. NodeSafe(k)
  BY DEF AdapterInv, NodeSafe, TimesOutOnlyOnLateDecisions
<1>2. GatedStep(k)' = GatedStep(k)
  BY DEF GatedStep
<1>3. Underway(k)' <=> Underway(k)
  BY DEF Underway
<1>4. InStep(k)' <=> InStep(k)
  BY DEF InStep, Generated
<1>5. gatedUnder[k] # None => (Unheard(k)' <=> Unheard(k))
  BY <1>2 DEF Unheard
<1>6. gatedUnder[k] = None => ~Underway(k)
  BY <1>1 DEF NodeSafe, NodeInv
<1>. QED
  BY <1>1, <1>2, <1>3, <1>4, <1>5, <1>6 DEF NodeSafe, NodeInv, Underway, Waiting, Unheard

\* A node whose call has ended.
LEMMA LeaveSafe ==
    ASSUME AdapterInv, TypeOK', NEW n \in Node, NEW place \in {"idle", "blocked"},
           Leave(n, place), NEW k \in Node
    PROVE  NodeSafe(k)'
<1>1. CASE k = n
  <2>1. /\ pc'[k] = place /\ gatedUnder'[k] = None /\ stepId'[k] = None
    BY <1>1 DEF Leave, Goto, AdapterInv, TypeOK
  <2>. QED
    BY <2>1 DEF NodeSafe, NodeInv, Underway, Unheard, Waiting
<1>2. CASE k # n
  <2>1. /\ pc'[k] = pc[k] /\ stepId'[k] = stepId[k] /\ elapsed'[k] = elapsed[k]
        /\ gatedUnder'[k] = gatedUnder[k] /\ decidedAt'[k] = decidedAt[k]
        /\ disturbed'[k] = disturbed[k]
    BY <1>2 DEF Leave, Goto, AdapterInv, TypeOK
  <2>2. UNCHANGED <<workflow, starting, counter, created, approval>>
    BY DEF Leave
  <2>. QED
    BY <2>1, <2>2, OthersKept
<1>. QED
  BY <1>1, <1>2

LEMMA NodeStep ==
    ASSUME AdapterInv, [Next]_vars, NEW k \in Node
    PROVE  NodeSafe(k)'
<1>0. TypeOK' /\ NodeSafe(k)
  BY TypeStep DEF AdapterInv, NodeSafe, TimesOutOnlyOnLateDecisions
<1>a. gatedUnder[k] # None => GatedStep(k) \in Steps
  BY GatedStepTyped DEF AdapterInv
<1>. USE AdapterAssumption DEF TypeOK, Goto, platform, AdapterAssumption
<1>1. CASE UNCHANGED vars
  BY <1>0, <1>1, OthersKept DEF vars, code, AdapterInv
<1>2. ASSUME NEW w \in Workflow, StartWorkflow(w) \/ StartReturns(w) \/ StartFails(w)
      PROVE  NodeSafe(k)'
  <2>1. CASE StartWorkflow(w)
    <3>1. gatedUnder[k] # w /\ gatedUnder[k] \in (created' \ starting') \cup {None}
      BY <1>0, <2>1 DEF StartWorkflow, NodeSafe, NodeInv
    <3>. QED
      BY <1>0, <2>1, <3>1
         DEF StartWorkflow, NodeSafe, NodeInv, Underway, InStep, Generated, Unheard,
             GatedStep, Waiting
  <2>2. CASE StartReturns(w)
    <3>1. w \in created' \ starting' /\ w # None /\ gatedUnder[k] # workflow'
      BY <1>0, <2>2 DEF StartReturns, NodeSafe, NodeInv, AdapterInv
    <3>2. Underway(k) => disturbed'[k]
      BY <2>2 DEF StartReturns
    <3>. QED
      BY <1>0, <2>2, <3>1, <3>2
         DEF StartReturns, NodeSafe, NodeInv, Underway, Unheard, GatedStep, Waiting,
             AdapterInv
  <2>3. CASE StartFails(w)
    BY <1>0, <2>3, OthersKept DEF StartFails, AdapterInv
  <2>. QED
    BY <1>2, <2>1, <2>2, <2>3
<1>3. ASSUME NEW n \in Node, NEW id \in ExplicitId \cup {None}, checkGate(n, id)
      PROVE  NodeSafe(k)'
  <2>. USE DEF AdapterInv
  <2>1. CASE k = n
    <3>1. /\ pc'[k] = "gating" /\ gatedUnder'[k] = workflow /\ workflow' = workflow
          /\ workflow # None /\ created' = created /\ starting' = starting
          /\ elapsed'[k] = 0
          /\ stepId'[k] = IF id # None THEN id ELSE Generated(k, counter')
      BY <1>3, <2>1 DEF checkGate
    <3>2. stepId'[k] # None
      <4>1. CASE id # None
        BY <3>1, <4>1
      <4>2. CASE id = None
        <5>1. counter' \in 0 .. MaxGates
          BY <1>3, <4>2 DEF checkGate, NextNumber
        <5>2. Generated(k, counter') \in StepIds
          BY <5>1 DEF Generated, StepIds, GeneratedIds
        <5>. QED
          BY <3>1, <4>2, <5>2
      <4>. QED
        BY <4>1, <4>2
    <3>3. InStep(k)'
      BY <3>1 DEF InStep, Generated
    <3>. QED
      BY <3>1, <3>2, <3>3 DEF NodeSafe, NodeInv, Unheard, Waiting
  <2>2. CASE k # n
    <3>1. /\ pc'[k] = pc[k] /\ gatedUnder'[k] = gatedUnder[k] /\ stepId'[k] = stepId[k]
          /\ elapsed'[k] = elapsed[k] /\ decidedAt'[k] = decidedAt[k]
          /\ approval' = approval /\ workflow' = workflow
          /\ created' = created /\ starting' = starting
      BY <1>3, <2>2 DEF checkGate
    <3>2. Underway(k)' /\ ~disturbed'[k] => InStep(k)'
      <4>1. Underway(k)' /\ ~disturbed'[k] =>
               Underway(k) /\ ~disturbed[k] /\ counter' = counter
        BY <1>3, <2>2, <3>1 DEF checkGate, Underway
      <4>. QED
        BY <1>0, <3>1, <4>1 DEF NodeSafe, NodeInv, InStep, Generated
    <3>. QED
      BY <1>0, <3>1, <3>2 DEF NodeSafe, NodeInv, Underway, Unheard, GatedStep, Waiting
  <2>. QED
    BY <2>1, <2>2
<1>4. ASSUME NEW n \in Node, NEW place \in {"idle", "blocked"}, Leave(n, place)
      PROVE  NodeSafe(k)'
  BY <1>0, <1>4, LeaveSafe
<1>5. ASSUME NEW n \in Node, waitForApproval(n) \/ WaitAgain(n),
             ~Leave(n, "idle"), ~Leave(n, "blocked")
      PROVE  NodeSafe(k)'
  <2>1. /\ approval' = approval /\ workflow' = workflow /\ counter' = counter
        /\ created' = created /\ starting' = starting /\ stepId' = stepId
        /\ gatedUnder' = gatedUnder /\ disturbed' = disturbed
    BY <1>5 DEF waitForApproval, Poll, Wake, PollFails, GiveUp, WaitAgain
  <2>2. CASE k # n
    <3>1. pc'[k] = pc[k] /\ elapsed'[k] = elapsed[k] /\ decidedAt'[k] = decidedAt[k]
      BY <1>5, <2>2
         DEF AdapterInv, waitForApproval, Poll, Wake, PollFails, GiveUp, WaitAgain
    <3>. QED
      BY <1>0, <2>1, <3>1, OthersKept
  <2>3. CASE k = n
    <3>. USE <2>1, <2>3
         DEF AdapterInv, NodeSafe, NodeInv, Underway, Unheard, GatedStep, Waiting, InStep,
             Generated
    <3>1. CASE Poll(n)
      <4>1. /\ elapsed' = elapsed /\ decidedAt' = decidedAt /\ pc[n] = "polling"
            /\ elapsed[n] < Timeout
            /\ StatusOf(n) = "approved" \/ StatusOf(n) \notin {"approved", "rejected"}
            /\ pc'[n] = IF StatusOf(n) = "approved" THEN "running" ELSE "sleeping"
        BY <1>5, <3>1 DEF Poll, TimeLeft
      <4>2. workflow = gatedUnder[n] => StatusOf(n) = approval[GatedStep(n)]
        BY DEF StatusOf
      <4>. QED
        BY <1>0, <4>1, <4>2
    <3>2. CASE Wake(n)
      <4>1. /\ elapsed'[n] = elapsed[n] + PollInterval /\ decidedAt' = decidedAt
            /\ pc[n] = "sleeping" /\ pc'[n] = "polling"
        BY <3>2 DEF Wake
      <4>. QED
        BY <1>0, <4>1
    <3>3. CASE PollFails(n)
      BY <1>5, <3>3 DEF PollFails
    <3>4. CASE GiveUp(n)
      <4>1. /\ elapsed' = elapsed /\ decidedAt' = decidedAt /\ pc[n] = "polling"
            /\ elapsed[n] >= Timeout /\ pc'[n] = "timedOut"
        BY <3>4 DEF GiveUp, TimeLeft
      <4>2. gatedUnder[n] # None /\ approval[GatedStep(n)] \in Approvals \ {"none"}
        BY <1>0, <1>a, <4>1
      <4>. QED
        BY <1>0, <4>1, <4>2 DEF Approvals
    <3>5. CASE WaitAgain(n)
      <4>1. /\ elapsed'[n] = 0 /\ decidedAt'[n] = 0
            /\ pc[n] = "timedOut" /\ pc'[n] = "polling"
        BY <3>5 DEF WaitAgain
      <4>. QED
        BY <1>0, <4>1
    <3>. QED
      BY <1>5, <3>1, <3>2, <3>3, <3>4, <3>5 DEF waitForApproval
  <2>. QED
    BY <2>2, <2>3
<1>6. ASSUME NEW n \in Node, NEW decision \in Decisions, GateAnswers(n, decision),
             ~Leave(n, "blocked")
      PROVE  NodeSafe(k)'
  <2>1. /\ workflow' = workflow /\ counter' = counter /\ created' = created
        /\ starting' = starting /\ stepId' = stepId /\ gatedUnder' = gatedUnder
        /\ disturbed' = disturbed /\ elapsed' = elapsed /\ decidedAt' = decidedAt
        /\ pc[n] = "gating" /\ pc' = [pc EXCEPT ![n] = AfterGate(decision)]
    BY <1>6 DEF GateAnswers
  <2>2. approval' = approval \/ approval' = [approval EXCEPT ![GatedStep(n)] = "pending"]
    BY <1>6 DEF GateAnswers, Held
  <2>3. gatedUnder[k] # None =>
           approval'[GatedStep(k)] = approval[GatedStep(k)]
           \/ approval'[GatedStep(k)] = "pending"
    BY <1>a, <2>2 DEF AdapterInv
  <2>4. GatedStep(k)' = GatedStep(k)
    BY <2>1 DEF GatedStep
  <2>5. CASE k = n
    <3>1. gatedUnder[n] # None /\ GatedStep(n) \in Steps
      BY <1>0, <1>a, <2>1, <2>5 DEF NodeSafe, NodeInv, Underway
    <3>2. AfterGate(decision) = "polling" => approval'[GatedStep(n)] # "none"
      BY <1>6, <3>1 DEF GateAnswers, AfterGate, Held, AdapterInv
    <3>3. /\ pc'[n] = AfterGate(decision) /\ AfterGate(decision) \in {"polling", "running"}
      BY <1>6, <2>1 DEF AfterGate, GateAnswers, AdapterInv
    <3>4. elapsed[n] = 0
      BY <1>0, <2>1, <2>5 DEF NodeSafe, NodeInv
    <3>. QED
      BY <1>0, <2>1, <2>4, <2>5, <3>1, <3>2, <3>3, <3>4
         DEF NodeSafe, NodeInv, Underway, InStep, Generated, Unheard, Waiting, AdapterInv
  <2>6. CASE k # n
    <3>1. pc'[k] = pc[k]
      BY <2>1, <2>6 DEF AdapterInv
    <3>. QED
      BY <1>0, <2>1, <2>3, <2>4, <3>1
         DEF NodeSafe, NodeInv, Underway, InStep, Generated, Unheard, Waiting, AdapterInv
  <2>. QED
    BY <2>5, <2>6
<1>7. ASSUME NEW step \in Steps, NEW verdict \in {"approved", "rejected"},
             Decide(step, verdict)
      PROVE  NodeSafe(k)'
  <2>1. /\ UNCHANGED <<workflow, starting, counter, pc, stepId, elapsed, created,
                       gatedUnder, disturbed>>
        /\ approval' = [approval EXCEPT ![step] = verdict]
        /\ decidedAt'[k] = IF GatedStep(k) = step THEN elapsed[k] ELSE decidedAt[k]
    BY <1>7 DEF Decide, code
  <2>2. GatedStep(k)' = GatedStep(k)
    BY <2>1 DEF GatedStep
  <2>3. CASE GatedStep(k) # step
    BY <1>0, <1>a, <2>1, <2>3, OthersKept DEF AdapterInv
  <2>4. CASE GatedStep(k) = step
    <3>1. approval'[GatedStep(k)] = verdict /\ decidedAt'[k] = elapsed[k]
      BY <2>1, <2>4 DEF AdapterInv
    <3>. QED
      BY <1>0, <2>1, <2>2, <3>1
         DEF NodeSafe, NodeInv, Underway, InStep, Generated, Unheard, Waiting, AdapterInv
  <2>. QED
    BY <2>3, <2>4
<1>8. ASSUME NEW n \in Node, GateFails(n) \/ stepCompleted(n) PROVE NodeSafe(k)'
  BY <1>4, <1>8 DEF GateFails, stepCompleted
<1>. QED
  BY <1>1, <1>2, <1>3, <1>4, <1>5, <1>6, <1>7, <1>8 DEF Next

LEMMA AdapterStep ==
    AdapterInv /\ [Next]_vars => AdapterInv'
<1>. SUFFICES ASSUME AdapterInv, [Next]_vars PROVE AdapterInv'
  OBVIOUS
<1>1. TypeOK' /\ Numbered' /\ GatedByOneWorkflow'
  BY TypeStep, IdsStep
<1>2. \A n \in Node : NodeSafe(n)'
  BY NodeStep
<1>3. workflow' \in (created' \ starting') \cup {None}
  BY AdapterAssumption
     DEF AdapterInv, TypeOK, Next, vars, code, platform, StartWorkflow, StartReturns,
         StartFails, checkGate, GateFails, stepCompleted, waitForApproval, Poll, Wake,
         PollFails, GiveUp, WaitAgain, GateAnswers, Decide, Leave
<1>. QED
  BY <1>1, <1>2, <1>3 DEF AdapterInv, NodeSafe, TimesOutOnlyOnLateDecisions

(***************************************************************************)
(* A held node is let run or stopped only by the verdict on the step that  *)
(* was gated, whatever workflow waitForApproval asks, unless the caller    *)
(* made its id up and workflowId was replaced: for any graph, any ids and  *)
(* any number of workflows.                                                *)
(***************************************************************************)
THEOREM HeldNodesObey == Spec => HeldObeysItsVerdict
<1>1. ASSUME AdapterInv, Next, NEW n \in Node, pc[n] \in Waiting,
             pc'[n] \in {"running", "blocked"}
      PROVE  approval[GatedStep(n)] = VerdictHeard(n) \/ AskedElsewhere(n)
  <2>. USE <1>1 DEF AdapterInv, TypeOK, Resting, Waiting, Goto, platform
  <2>1. Poll(n)
    <3>1. ASSUME NEW w \in Workflow, StartWorkflow(w) \/ StartReturns(w) \/ StartFails(w)
          PROVE  FALSE
      BY <3>1 DEF StartWorkflow, StartReturns, StartFails
    <3>2. ASSUME NEW m \in Node, NEW id \in ExplicitId \cup {None}, checkGate(m, id)
          PROVE  FALSE
      BY <3>2 DEF checkGate
    <3>3. ASSUME NEW m \in Node, GateFails(m) \/ stepCompleted(m) PROVE FALSE
      BY <3>3 DEF GateFails, stepCompleted, Leave
    <3>4. ASSUME NEW m \in Node, waitForApproval(m) \/ WaitAgain(m) PROVE Poll(n)
      BY <3>4 DEF waitForApproval, Poll, Wake, PollFails, GiveUp, WaitAgain, Leave
    <3>5. ASSUME NEW m \in Node, NEW decision \in Decisions, GateAnswers(m, decision)
          PROVE  FALSE
      BY <3>5 DEF GateAnswers, Leave
    <3>6. ASSUME NEW step \in Steps, NEW verdict \in {"approved", "rejected"},
                 Decide(step, verdict)
          PROVE  FALSE
      BY <3>6 DEF Decide, code
    <3>. QED
      BY <3>1, <3>2, <3>3, <3>4, <3>5, <3>6 DEF Next
  <2>2. approval[<<workflow, stepId[n]>>] = VerdictHeard(n)
    BY <2>1 DEF Poll, StatusOf, VerdictHeard, Leave
  <2>3. CASE workflow = gatedUnder[n]
    BY <2>2, <2>3 DEF GatedStep
  <2>4. CASE workflow # gatedUnder[n]
    <3>1. NodeInv(n) /\ Underway(n)
      BY DEF Underway
    <3>2. workflow \in Workflow /\ stepId[n] \in StepIds
      BY <3>1, AdapterAssumption DEF NodeInv, AdapterAssumption
    <3>3. stepId[n] \notin GeneratedIds
      <4>1. VerdictHeard(n) # "none"
        BY DEF VerdictHeard
      <4>. QED
        BY <2>2, <2>4, <3>2, <4>1 DEF GatedByOneWorkflow
    <3>. QED
      BY <2>4, <3>2, <3>3 DEF AskedElsewhere, StepIds
  <2>. QED
    BY <2>3, <2>4
<1>2. AdapterInv /\ [Next]_vars =>
        [\A n \in Node :
            pc[n] \in Waiting /\ pc'[n] \in {"running", "blocked"} =>
                approval[GatedStep(n)] = VerdictHeard(n) \/ AskedElsewhere(n)]_vars
  BY <1>1
<1>. QED
  BY AdapterInit, AdapterStep, <1>2, PTL DEF Spec, HeldObeysItsVerdict

(***************************************************************************)
(* checkGate never asks for the same generated id twice, whatever gates    *)
(* are under way and however often a workflow is started.                  *)
(***************************************************************************)
THEOREM GeneratedIdsUnique == Spec => GateIdsUnique
<1>1. ASSUME AdapterInv, Next, NEW n \in Node, AsksGate(n)
      PROVE  stepId'[n] \notin gates
  <2>1. checkGate(n, None)
    <3>. USE <1>1, AdapterAssumption
         DEF AsksGate, AdapterInv, TypeOK, Resting, Waiting, Goto, platform,
             AdapterAssumption
    <3>1. ASSUME NEW w \in Workflow, StartWorkflow(w) \/ StartReturns(w) \/ StartFails(w)
          PROVE  FALSE
      BY <3>1 DEF StartWorkflow, StartReturns, StartFails
    <3>2. ASSUME NEW m \in Node, NEW id \in ExplicitId \cup {None}, checkGate(m, id)
          PROVE  m = n /\ id = None
      <4>1. m = n
        BY <3>2 DEF checkGate
      <4>. QED
        BY <3>2, <4>1 DEF checkGate
    <3>3. ASSUME NEW m \in Node, GateFails(m) \/ stepCompleted(m) PROVE FALSE
      BY <3>3 DEF GateFails, stepCompleted, Leave
    <3>4. ASSUME NEW m \in Node, waitForApproval(m) \/ WaitAgain(m) PROVE FALSE
      BY <3>4 DEF waitForApproval, Poll, Wake, PollFails, GiveUp, WaitAgain, Leave
    <3>5. ASSUME NEW m \in Node, NEW decision \in Decisions, GateAnswers(m, decision)
          PROVE  FALSE
      BY <3>5 DEF GateAnswers, AfterGate, Leave
    <3>6. ASSUME NEW step \in Steps, NEW verdict \in {"approved", "rejected"},
                 Decide(step, verdict)
          PROVE  FALSE
      BY <3>6 DEF Decide, code
    <3>. QED
      BY <3>1, <3>2, <3>3, <3>4, <3>5, <3>6 DEF Next
  <2>2. stepId' = [stepId EXCEPT ![n] = Generated(n, counter')] /\ counter' = counter + 1
    BY <2>1 DEF checkGate, NextNumber
  <2>3. DOMAIN stepId = Node
    BY <1>1 DEF AdapterInv, TypeOK
  <2>4. stepId'[n].number = counter + 1
    BY <2>2, <2>3 DEF Generated
  <2>5. counter \in Nat /\ \A id \in gates : id.number \in 0 .. counter
    BY <1>1, AdapterAssumption DEF AdapterInv, TypeOK, Numbered, AdapterAssumption
  <2>. QED
    BY <2>4, <2>5
<1>2. AdapterInv /\ [Next]_vars =>
        [\A n \in Node : AsksGate(n) => stepId'[n] \notin gates]_vars
  BY <1>1
<1>. QED
  BY AdapterInit, AdapterStep, <1>2, PTL DEF Spec, GateIdsUnique

(***************************************************************************)
(* A wait that times out has missed only a decision made in its last poll  *)
(* interval (waitForApproval), for any interval and timeout.               *)
(***************************************************************************)
THEOREM LateDecisionsOnly == Spec => []TimesOutOnlyOnLateDecisions
<1>1. AdapterInv => TimesOutOnlyOnLateDecisions
  BY DEF AdapterInv
<1>. QED
  BY AdapterInit, AdapterStep, <1>1, PTL DEF Spec

(***************************************************************************)
(* stepCompleted names the step that was gated, under the workflow it was  *)
(* gated in, unless the adapter generated an id or changed its workflow    *)
(* meanwhile, and an id that the caller gave in any case.                  *)
(***************************************************************************)
THEOREM CompletionInStep == Spec => UndisturbedCompletionMatches
<1>1. ASSUME AdapterInv, Next, NEW n \in Node, Reports(n)
      PROVE  /\ ~disturbed[n] => reported'.named = GatedStep(n)
             /\ stepId[n] \in ExplicitId => reported'.named[2] = stepId[n]
  <2>. USE <1>1 DEF Reports, AdapterInv, TypeOK, Resting, Waiting, Goto, platform
  <2>1. stepCompleted(n)
    <3>1. ASSUME NEW w \in Workflow, StartWorkflow(w) \/ StartReturns(w) \/ StartFails(w)
          PROVE  FALSE
      BY <3>1 DEF StartWorkflow, StartReturns, StartFails
    <3>2. ASSUME NEW m \in Node, NEW id \in ExplicitId \cup {None}, checkGate(m, id)
          PROVE  FALSE
      BY <3>2 DEF checkGate
    <3>3. ASSUME NEW m \in Node, GateFails(m) \/ stepCompleted(m) PROVE stepCompleted(n)
      BY <3>3 DEF GateFails, stepCompleted, Leave
    <3>4. ASSUME NEW m \in Node, waitForApproval(m) \/ WaitAgain(m) PROVE FALSE
      BY <3>4 DEF waitForApproval, Poll, Wake, PollFails, GiveUp, WaitAgain, Leave
    <3>5. ASSUME NEW m \in Node, NEW decision \in Decisions, GateAnswers(m, decision)
          PROVE  FALSE
      BY <3>5 DEF GateAnswers, Leave
    <3>6. ASSUME NEW step \in Steps, NEW verdict \in {"approved", "rejected"},
                 Decide(step, verdict)
          PROVE  FALSE
      BY <3>6 DEF Decide, code
    <3>. QED
      BY <3>1, <3>2, <3>3, <3>4, <3>5, <3>6 DEF Next
  <2>2. reported'.named = <<workflow, CompletedId(n)>>
    BY <2>1 DEF stepCompleted
  <2>3. ~disturbed[n] => InStep(n)
    BY DEF NodeInv, Underway
  <2>. QED
    BY <2>2, <2>3 DEF InStep, CompletedId, GatedStep
<1>2. AdapterInv /\ [Next]_vars =>
        [\A n \in Node : Reports(n) =>
            /\ ~disturbed[n] => reported'.named = GatedStep(n)
            /\ stepId[n] \in ExplicitId => reported'.named[2] = stepId[n]]_vars
  BY <1>1
<1>. QED
  BY AdapterInit, AdapterStep, <1>2, PTL DEF Spec, UndisturbedCompletionMatches
=============================================================================

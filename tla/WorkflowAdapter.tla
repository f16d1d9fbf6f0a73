--------------------------- MODULE WorkflowAdapter ---------------------------
(***************************************************************************)
(* AxonFlowLangGraphAdapter (src/adapters/langgraph.ts): the nodes of a    *)
(* graph, several of them at once, ask the gate of the workflow control    *)
(* plane before they run, wait for a human where it says so, and report    *)
(* their completion.  The adapter has one workflowId and one step counter  *)
(* for all of them; both are read again after each await.                  *)
(***************************************************************************)
EXTENDS Naturals

CONSTANTS
    Node,          \* nodes that may be under way at once
    SafeName,      \* their step names, made lower case with dashes
    ExplicitId,    \* stepIds that callers may pass to both calls, any node any of them
    Workflow,      \* workflow ids the platform hands out, each once
    MaxGates,      \* bound on generated step ids
    PollInterval, Timeout,  \* of waitForApproval, in seconds; the code takes 0 for either
    None           \* null, and an option left out

GeneratedIds == [number : 0 .. MaxGates, name : {SafeName[n] : n \in Node}]
StepIds == GeneratedIds \cup ExplicitId
Steps == Workflow \X StepIds

\* The ids a caller makes up are not those the adapter generates.
ASSUME AdapterAssumption ==
    /\ None \notin Workflow \cup StepIds /\ ExplicitId \cap GeneratedIds = {}
    /\ MaxGates \in Nat /\ PollInterval \in Nat /\ Timeout \in Nat

VARIABLES
    workflow,   \* workflowId
    starting,   \* workflows created by a startWorkflow that has not returned
    counter,    \* _stepCounter
    pc,         \* of each node
    stepId,     \* the id the gate of each node under way was asked for
    elapsed     \* waitForApproval's own count of the seconds slept

\* The platform, and what is observed to state the properties.
VARIABLES
    created,     \* workflows the platform has handed out
    gates,       \* generated ids that gates were asked for
    gatedUnder,  \* the workflow of that gate
    approval,    \* approval_status of every step of every workflow
    decidedAt,   \* how far each node's wait had counted when its step was decided
    disturbed,   \* since then another id was generated, or workflowId changed
    reported     \* the completion just sent: the step it names, and the one gated

code == <<workflow, starting, counter, pc, stepId, elapsed>>
platform == <<created, gates, gatedUnder, approval, decidedAt, disturbed>>
vars == <<code, platform, reported>>

\* An action that sends no completion.
Silent == reported' = None

\* A gate may answer what the code does not know, or nothing it can read.
Decisions == {"allow", "block", "require_approval", "unrecognised"}
Resting == {"idle", "blocked", "timedOut"}
Waiting == {"polling", "sleeping"}
Approvals == {"none", "pending", "approved", "rejected"}

TypeOK ==
    /\ workflow \in Workflow \cup {None}
    /\ starting \subseteq created
    /\ counter \in 0 .. MaxGates
    /\ pc \in [Node -> Resting \cup Waiting \cup {"gating", "running"}]
    /\ stepId \in [Node -> StepIds \cup {None}]
    /\ elapsed \in [Node -> 0 .. Timeout + PollInterval]
    /\ created \subseteq Workflow
    /\ gates \subseteq GeneratedIds
    /\ gatedUnder \in [Node -> Workflow \cup {None}]
    /\ approval \in [Steps -> Approvals]
    /\ decidedAt \in [Node -> 0 .. Timeout + PollInterval]
    /\ disturbed \in [Node -> BOOLEAN]
    /\ reported \in [named : Steps, gated : Steps] \cup {None}

Goto(n, place) == pc' = [pc EXCEPT ![n] = place]
Underway(n) == pc[n] \notin {"idle", "blocked"}
GatedStep(n) == <<gatedUnder[n], stepId[n]>>

\* The node's call has its outcome, and its gate is over.
Leave(n, place) ==
    /\ Goto(n, place)
    /\ stepId' = [stepId EXCEPT ![n] = None]
    /\ elapsed' = [elapsed EXCEPT ![n] = 0]
    /\ gatedUnder' = [gatedUnder EXCEPT ![n] = None]
    /\ decidedAt' = [decidedAt EXCEPT ![n] = 0]
    /\ disturbed' = [disturbed EXCEPT ![n] = FALSE]
    /\ UNCHANGED <<workflow, starting, counter, created, gates, approval>>

-----------------------------------------------------------------------------
(* startWorkflow. *)

StartWorkflow(w) ==
    /\ w \notin created
    /\ created' = created \cup {w} /\ starting' = starting \cup {w}
    /\ Silent /\ UNCHANGED <<workflow, counter, pc, stepId, elapsed, gates, gatedUnder,
                              approval, decidedAt, disturbed>>

\* The id replaces whatever was there; the step counter goes on.
StartReturns(w) ==
    /\ w \in starting
    /\ starting' = starting \ {w} /\ workflow' = w
    /\ disturbed' = [n \in Node |-> Underway(n)]
    /\ Silent /\ UNCHANGED <<counter, pc, stepId, elapsed, created, gates, gatedUnder,
                              approval, decidedAt>>

StartFails(w) ==
    /\ w \in starting
    /\ starting' = starting \ {w}
    /\ Silent /\ UNCHANGED <<workflow, counter, pc, stepId, elapsed, platform>>

-----------------------------------------------------------------------------
(* checkGate and stepCompleted. *)

Generated(n, number) == [number |-> number, name |-> SafeName[n]]

\* The counter is advanced, for a generated id, before the gate is awaited.
NumberReused == counter
NextNumber == counter + 1

checkGate(n, id) ==
    /\ workflow # None /\ pc[n] \in Resting
    /\ IF id # None
       THEN /\ stepId' = [stepId EXCEPT ![n] = id]
            /\ UNCHANGED <<counter, gates>>
       ELSE /\ counter < MaxGates
            /\ counter' = NextNumber
            /\ stepId' = [stepId EXCEPT ![n] = Generated(n, counter')]
            /\ gates' = gates \cup {Generated(n, counter')}
    /\ gatedUnder' = [gatedUnder EXCEPT ![n] = workflow]
    /\ disturbed' = [m \in Node |-> m # n /\ Underway(m)
                                    /\ (disturbed[m] \/ id = None)]
    /\ Goto(n, "gating")
    /\ elapsed' = [elapsed EXCEPT ![n] = 0]
    /\ decidedAt' = [decidedAt EXCEPT ![n] = 0]
    /\ Silent /\ UNCHANGED <<workflow, starting, created, approval>>

\* Only "block" and "require_approval" stop a node; what is no decision does not.
AfterGate(decision) ==
    IF decision = "block" THEN "blocked"
    ELSE IF decision = "require_approval" THEN "polling"
    ELSE "running"

\* A step that is asked for again may keep its status or be put to the human afresh.
Held(step) ==
    \/ approval' = [approval EXCEPT ![step] = "pending"]
    \/ approval[step] # "none" /\ UNCHANGED approval

GateAnswers(n, decision) ==
    /\ pc[n] = "gating"
    /\ IF AfterGate(decision) = "blocked"
       THEN Leave(n, "blocked")
       ELSE /\ Goto(n, AfterGate(decision))
            /\ IF decision = "require_approval" THEN Held(GatedStep(n))
               ELSE UNCHANGED approval
            /\ UNCHANGED <<workflow, starting, counter, stepId, elapsed, created, gates,
                           gatedUnder, decidedAt, disturbed>>
    /\ Silent

GateFails(n) == pc[n] = "gating" /\ Leave(n, "idle") /\ Silent

\* The id is generated again, from the counter as it is now.
IdRegenerated(n) == Generated(n, counter)
CompletedId(n) == IF stepId[n] \in ExplicitId THEN stepId[n] ELSE Generated(n, counter)

stepCompleted(n) ==
    /\ pc[n] = "running" /\ Leave(n, "idle")
    /\ reported' = [named |-> <<workflow, CompletedId(n)>>, gated |-> GatedStep(n)]

-----------------------------------------------------------------------------
(* waitForApproval, called with the id that the gate held back. *)

\* External: a human decides on a step, whoever waits for it, if anyone does.
Decide(step, verdict) ==
    /\ approval[step] = "pending"
    /\ approval' = [approval EXCEPT ![step] = verdict]
    /\ decidedAt' = [n \in Node |-> IF GatedStep(n) = step THEN elapsed[n]
                                   ELSE decidedAt[n]]
    /\ Silent /\ UNCHANGED <<code, created, gates, gatedUnder, disturbed>>

\* The loop's condition, on its own count of the seconds slept.
TimeLeftForASleep(n) == elapsed[n] + PollInterval < Timeout
TimeLeft(n) == elapsed[n] < Timeout

\* The step of that id in workflowId as it is now, whichever workflow gated the node.
StatusByName(n) ==
    IF \E number \in 0 .. MaxGates :
          approval[<<workflow, Generated(n, number)>>] = "approved"
    THEN "approved" ELSE approval[<<workflow, stepId[n]>>]
StatusOf(n) == approval[<<workflow, stepId[n]>>]

Poll(n) ==
    /\ pc[n] = "polling" /\ TimeLeft(n)
    /\ IF StatusOf(n) = "rejected"
       THEN Leave(n, "blocked")
       ELSE /\ Goto(n, IF StatusOf(n) = "approved" THEN "running" ELSE "sleeping")
            /\ UNCHANGED <<workflow, starting, counter, stepId, elapsed, platform>>
    /\ Silent

SleepUncounted(n) ==
    /\ pc[n] = "sleeping"
    /\ Goto(n, "polling")
    /\ Silent /\ UNCHANGED <<workflow, starting, counter, stepId, elapsed, platform>>
Wake(n) ==
    /\ pc[n] = "sleeping"
    /\ elapsed' = [elapsed EXCEPT ![n] = @ + PollInterval]
    /\ Goto(n, "polling")
    /\ Silent /\ UNCHANGED <<workflow, starting, counter, stepId, platform>>

\* getWorkflow throws, and waitForApproval with it.
PollFails(n) == pc[n] = "polling" /\ TimeLeft(n) /\ Leave(n, "idle") /\ Silent

GiveUp(n) ==
    /\ pc[n] = "polling" /\ ~TimeLeft(n)
    /\ Goto(n, "timedOut")
    /\ Silent /\ UNCHANGED <<workflow, starting, counter, stepId, elapsed, platform>>

\* The caller waits once more for the same step.
WaitAgain(n) ==
    /\ pc[n] = "timedOut"
    /\ Goto(n, "polling")
    /\ elapsed' = [elapsed EXCEPT ![n] = 0]
    /\ decidedAt' = [decidedAt EXCEPT ![n] = 0]
    /\ Silent /\ UNCHANGED <<workflow, starting, counter, stepId, created, gates,
                              gatedUnder, approval, disturbed>>

waitForApproval(n) == Poll(n) \/ Wake(n) \/ PollFails(n) \/ GiveUp(n)

Init ==
    /\ workflow = None /\ starting = {} /\ counter = 0
    /\ pc = [n \in Node |-> "idle"]
    /\ stepId = [n \in Node |-> None]
    /\ elapsed = [n \in Node |-> 0]
    /\ created = {} /\ gates = {}
    /\ gatedUnder = [n \in Node |-> None]
    /\ approval = [step \in Steps |-> "none"]
    /\ decidedAt = [n \in Node |-> 0]
    /\ disturbed = [n \in Node |-> FALSE]
    /\ reported = None

Next ==
    \/ \E w \in Workflow : StartWorkflow(w) \/ StartReturns(w) \/ StartFails(w)
    \/ \E n \in Node :
          \/ \E id \in ExplicitId \cup {None} : checkGate(n, id)
          \/ GateFails(n) \/ stepCompleted(n) \/ waitForApproval(n) \/ WaitAgain(n)
          \/ \E decision \in Decisions : GateAnswers(n, decision)
    \/ \E step \in Steps, verdict \in {"approved", "rejected"} : Decide(step, verdict)

Spec == Init /\ [][Next]_vars

\* Timers fire and every status request is under AbortSignal.timeout.
FairSpec == Spec /\ \A n \in Node : WF_vars(waitForApproval(n))

-----------------------------------------------------------------------------

(***************************************************************************)
(* However the nodes' gates overlap, and over any number of workflows, no  *)
(* two gates that leave the id to the adapter are asked for the same step. *)
(***************************************************************************)
AsksGate(n) == pc[n] # "gating" /\ pc'[n] = "gating" /\ stepId'[n] \notin ExplicitId
GateIdsUnique ==
    [][\A n \in Node : AsksGate(n) => stepId'[n] \notin gates]_vars

(***************************************************************************)
(* A node that its gate held back is let run, or is stopped, only by what  *)
(* the human decided on that very step, although waitForApproval asks the  *)
(* adapter's present workflow: an id the adapter generated is a step of no *)
(* other one.  An id the caller made up may be, once workflowId has been   *)
(* replaced, and then that step's decision is taken (ApprovedMeansItsOwn). *)
(***************************************************************************)
VerdictHeard(n) == IF pc'[n] = "running" THEN "approved" ELSE "rejected"
AskedElsewhere(n) == workflow # gatedUnder[n] /\ stepId[n] \in ExplicitId
HeldObeysItsVerdict ==
    [][\A n \in Node :
          pc[n] \in Waiting /\ pc'[n] \in {"running", "blocked"} =>
              approval[GatedStep(n)] = VerdictHeard(n) \/ AskedElsewhere(n)]_vars

(***************************************************************************)
(* A completion names the step and the workflow that the node's gate named *)
(* unless another id was generated or workflowId changed in between; gates *)
(* with ids of their own and waits for approval do not disturb it, and an  *)
(* id of its own the node reports whatever has changed.                    *)
(***************************************************************************)
Reports(n) == pc[n] = "running" /\ pc'[n] # "running"
UndisturbedCompletionMatches ==
    [][\A n \in Node : Reports(n) =>
          /\ ~disturbed[n] => reported'.named = GatedStep(n)
          /\ stepId[n] \in ExplicitId => reported'.named[2] = stepId[n]]_vars

(***************************************************************************)
(* A wait for approval ends: with a decision, an error or the timeout,     *)
(* also when workflowId was replaced and the step cannot be found.  This   *)
(* takes a positive PollInterval: one of 0, which the code accepts, never  *)
(* counts, and such a wait has no timeout.                                 *)
(***************************************************************************)
WaitEnds == \A n \in Node : pc[n] \in Waiting ~> pc[n] \notin Waiting

(***************************************************************************)
(* A wait that times out missed no decision it could have read: what the   *)
(* human decided under the node's own workflow was decided within the last *)
(* poll interval, after which waitForApproval asks no more, or never.      *)
(***************************************************************************)
TimesOutOnlyOnLateDecisions ==
    \A n \in Node :
        pc[n] = "timedOut" /\ workflow = gatedUnder[n]
                /\ approval[GatedStep(n)] # "pending" =>
            decidedAt[n] + PollInterval >= Timeout

\* Inductive: ids are numbered up to the counter and each was asked for under one
\* workflow, no workflow comes back, a node whose gate was not disturbed is still in step
\* with the adapter, and a wait has heard of every decision but the last one.
InStep(n) == /\ workflow = gatedUnder[n]
             /\ stepId[n] \in ExplicitId \/ stepId[n] = Generated(n, counter)
Unheard(n) == /\ pc[n] \in Waiting /\ workflow = gatedUnder[n]
              /\ approval[GatedStep(n)] \in {"approved", "rejected"}
Numbered == \A id \in gates : id.number \in 0 .. counter
GatedByOneWorkflow ==
    /\ \A n \in Node : stepId[n] \in GeneratedIds => stepId[n] \in gates
    /\ \A m, n \in Node : stepId[n] \in GeneratedIds /\ stepId[m] = stepId[n] => m = n
    /\ \A w \in Workflow, id \in GeneratedIds : approval[<<w, id>>] # "none" =>
          /\ id \in gates
          /\ \A n \in Node : stepId[n] = id => gatedUnder[n] = w
NodeInv(n) ==
    /\ gatedUnder[n] \in (created \ starting) \cup {None}
    /\ gatedUnder[n] # None => stepId[n] # None
    /\ Underway(n) => gatedUnder[n] # None /\ workflow # None
    /\ Underway(n) /\ ~disturbed[n] => InStep(n)
    /\ pc[n] \in Waiting \cup {"timedOut"} => approval[GatedStep(n)] # "none"
    /\ pc[n] = "gating" => elapsed[n] = 0
    /\ pc[n] = "sleeping" => elapsed[n] < Timeout
    /\ pc[n] = "timedOut" => elapsed[n] >= Timeout
    /\ Unheard(n) => decidedAt[n] + PollInterval >=
                        IF pc[n] = "sleeping" THEN elapsed[n] + PollInterval ELSE elapsed[n]
AdapterInv ==
    /\ TypeOK /\ Numbered /\ GatedByOneWorkflow
    /\ workflow \in (created \ starting) \cup {None}
    /\ \A n \in Node : NodeInv(n)
    /\ TimesOutOnlyOnLateDecisions

-----------------------------------------------------------------------------
(* What the source's comments say and the code does not keep. *)

(***************************************************************************)
(* "Generate step ID if not provided (must match checkGate)"               *)
(* (langgraph.ts:337): the completion of a node that its gate allowed      *)
(* names the step that was gated.                                          *)
(***************************************************************************)
CompletionMatchesGate == reported # None => reported.named[2] = reported.gated[2]

(***************************************************************************)
(* "Wait for a step to be approved. ... @returns True if approved, false   *)
(* if rejected" (langgraph.ts:442-450): a node that waited for its step    *)
(* runs only if that step was approved.                                    *)
(***************************************************************************)
ApprovedMeansItsOwn ==
    [][\A n \in Node : pc[n] \in Waiting /\ pc'[n] = "running" =>
          approval[GatedStep(n)] = "approved"]_vars
=============================================================================

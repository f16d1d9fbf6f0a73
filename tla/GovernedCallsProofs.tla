------------------------ MODULE GovernedCallsProofs -------------------------
(***************************************************************************)
(* Proofs about the two tool wrappers, for any items that arguments and    *)
(* results may hold, and about protect, for any answers of the agent and   *)
(* any errors of the provider.                                             *)
(***************************************************************************)
EXTENDS ToolGovernance, ProtectCall, TLAPS

(***************************************************************************)
(* What the wrappers know at each await: how many allows and runs lie      *)
(* behind, that what was shown is the serialisation of what was there when *)
(* it was made, and that only a sendable value gets as far as the tool.    *)
(***************************************************************************)
WrapperInv ==
    /\ TypeOK
    /\ pc = "checkingInput" => runs = 0 /\ allows = 0
    /\ pc \in {"running", "checkingOutput"} => runs = 1 /\ allows = 1
    /\ pc \in {"checkingInput", "running", "checkingOutput"} => Sendable(wrapper, args)
    /\ runs = 1 => Sendable(wrapper, args)
    /\ pc = "checkingInput" =>
         args.items \subseteq shownInput \/ Unshown(args) \/ "args" \in rewritten
    /\ pc = "checkingOutput" =>
         result.items \subseteq shownOutput \/ Unshown(result) \/ "result" \in rewritten
    /\ RunsWithWhatWasShown
    /\ ReleasesWhatWasShown

(***************************************************************************)
(* A value that JSON shows is shown whole, however it is checked.          *)
(***************************************************************************)
LEMMA ShownWhole ==
    ASSUME NEW v \in Possible
    PROVE  /\ v \in Value
           /\ serializeContent(v) \in SUBSET Item
           /\ v.items \subseteq serializeContent(v) \/ Unshown(v)
    BY DEF Possible, Value, Kind, serializeContent, Unshown

LEMMA WrapperInvariant == Spec => []WrapperInv
<1>1. Init => WrapperInv
    BY DEF Init, WrapperInv, TypeOK, Nothing, Value, Kind, Unshown,
           RunsWithWhatWasShown, ReleasesWhatWasShown
<1>2. WrapperInv /\ [Next]_vars => WrapperInv'
    <2>. SUFFICES ASSUME WrapperInv, [Next]_vars PROVE WrapperInv'
        OBVIOUS
    <2>. USE DEF WrapperInv, TypeOK, RunsWithWhatWasShown, ReleasesWhatWasShown
    <2>1. ASSUME NEW w \in {"governedTool", "interceptor"}, NEW v \in Possible,
                 invoke(w, v)
          PROVE  WrapperInv'
        <3>1. Nothing \in Value
            BY DEF Nothing, Value, Kind
        <3>. QED BY <2>1, <3>1, ShownWhole DEF invoke, NewCall
    <2>2. ASSUME NEW w \in {"governedTool", "interceptor"}, NEW v \in Possible,
                 InputNotSent(w, v)
          PROVE  WrapperInv'
        <3>1. Nothing \in Value
            BY DEF Nothing, Value, Kind
        <3>. QED BY <2>2, <3>1, ShownWhole DEF InputNotSent, NewCall
    <2>3. ASSUME NEW items \in SUBSET Item, ArgsRewritten(items) PROVE WrapperInv'
        <3>1. args' \in Value /\ args'.kind = args.kind
            BY <2>3 DEF ArgsRewritten, Value
        <3>. QED BY <2>3, <3>1 DEF ArgsRewritten, Sendable, Unshown
    <2>4. ASSUME NEW items \in SUBSET Item, ResultRewritten(items) PROVE WrapperInv'
        <3>1. result' \in Value
            BY <2>4 DEF ResultRewritten, Value
        <3>. QED BY <2>4, <3>1 DEF ResultRewritten
    <2>5. CASE InputAllowed
        <3>1. ranWith' \in SUBSET Item
            BY <2>5 DEF InputAllowed, Value
        <3>. QED BY <2>5, <3>1 DEF InputAllowed, Sendable
    <2>6. CASE InputRefused
        BY <2>6 DEF InputRefused
    <2>7. ASSUME NEW v \in Possible, ToolReturns(v) PROVE WrapperInv'
        BY <2>7, ShownWhole DEF ToolReturns
    <2>8. CASE ToolThrows
        BY <2>8 DEF ToolThrows
    <2>9. CASE OutputAllowed
        <3>1. released' \in SUBSET Item
            BY <2>9 DEF OutputAllowed, Value
        <3>. QED BY <2>9, <3>1 DEF OutputAllowed
    <2>10. ASSUME NEW hidden \in SUBSET Item, OutputRedactedData(hidden) PROVE WrapperInv'
        BY <2>10 DEF OutputRedactedData
    <2>11. ASSUME NEW hidden \in SUBSET Item, OutputRedactedMessage(hidden)
           PROVE  WrapperInv'
        <3>1. released' \in SUBSET Item
            BY <2>11 DEF OutputRedactedMessage, Value
        <3>. QED BY <2>11, <3>1 DEF OutputRedactedMessage
    <2>12. CASE OutputRefused
        BY <2>12 DEF OutputRefused
    <2>13. CASE Finish
        BY <2>13 DEF Finish
    <2>14. CASE UNCHANGED vars
        BY <2>14 DEF vars, code
    <2>. QED
        BY <2>1, <2>2, <2>3, <2>4, <2>5, <2>6, <2>7, <2>8, <2>9, <2>10, <2>11, <2>12,
           <2>13, <2>14
        DEF Next
<1>. QED BY <1>1, <1>2, PTL DEF Spec

(***************************************************************************)
(* What the tool runs with and what its caller gets back was shown to the  *)
(* check before, but for values JSON does not show and objects that were   *)
(* changed meanwhile (invoke, mcpToolInterceptor).                         *)
(***************************************************************************)
THEOREM NothingUsedUnshown == Spec => []UsesWhatWasShown
<1>1. WrapperInv => UsesWhatWasShown
    BY DEF WrapperInv, UsesWhatWasShown
<1>. QED BY <1>1, WrapperInvariant, PTL

(***************************************************************************)
(* Both wrappers implement GuardedRelease: one run after a first allow, a  *)
(* release after a second.                                                 *)
(***************************************************************************)
THEOREM WrappersGuard == Spec => ChecksGuardTheTool
<1>1. Init => Guarded!Init
    BY DEF Init, Guarded!Init, Stage
<1>2. WrapperInv /\ [Next]_vars => [Guarded!Next]_(Guarded!vars)
    <2>. SUFFICES ASSUME WrapperInv, [Next]_vars
                  PROVE  Guarded!Next \/ UNCHANGED <<Stage, allows, runs>>
        BY DEF Guarded!vars
    <2>. USE DEF WrapperInv, TypeOK, Stage
    <2>1. ASSUME NEW w \in {"governedTool", "interceptor"}, NEW v \in Possible,
                 invoke(w, v)
          PROVE  Guarded!Ask
        BY <2>1 DEF invoke, NewCall, Guarded!Ask
    <2>2. ASSUME NEW w \in {"governedTool", "interceptor"}, NEW v \in Possible,
                 InputNotSent(w, v)
          PROVE  Guarded!RefuseAtOnce
        BY <2>2 DEF InputNotSent, NewCall, Guarded!RefuseAtOnce
    <2>3. ASSUME NEW items \in SUBSET Item, ArgsRewritten(items) \/ ResultRewritten(items)
          PROVE  UNCHANGED <<Stage, allows, runs>>
        BY <2>3 DEF ArgsRewritten, ResultRewritten
    <2>4. ASSUME InputAllowed PROVE Guarded!Execute
        BY <2>4 DEF InputAllowed, Guarded!Execute
    <2>5. ASSUME InputRefused \/ ToolThrows \/ OutputRefused PROVE Guarded!Refuse
        BY <2>5 DEF InputRefused, ToolThrows, OutputRefused, Guarded!Refuse
    <2>6. ASSUME NEW v \in Possible, ToolReturns(v) PROVE UNCHANGED <<Stage, allows, runs>>
        BY <2>6 DEF ToolReturns
    <2>7. ASSUME OutputAllowed PROVE Guarded!Release
        BY <2>7 DEF OutputAllowed, Guarded!Release
    <2>8. ASSUME NEW hidden \in SUBSET Item,
                 OutputRedactedData(hidden) \/ OutputRedactedMessage(hidden)
          PROVE  Guarded!Release
        BY <2>8 DEF OutputRedactedData, OutputRedactedMessage, Guarded!Release
    <2>9. ASSUME Finish PROVE Guarded!Forget
        BY <2>9 DEF Finish, Guarded!Forget
    <2>10. CASE UNCHANGED vars
        BY <2>10 DEF vars, code
    <2>. QED
        BY <2>1, <2>2, <2>3, <2>4, <2>5, <2>6, <2>7, <2>8, <2>9, <2>10
        DEF Next, Guarded!Next
<1>. QED BY <1>1, <1>2, WrapperInvariant, PTL DEF Spec, ChecksGuardTheTool, Guarded!Spec

(***************************************************************************)
(* The type invariant of both wrappers, for any items.                     *)
(***************************************************************************)
THEOREM WrappersTypeCorrect == Spec => []TypeOK
BY WrapperInvariant, PTL DEF WrapperInv

-----------------------------------------------------------------------------
(* protect. *)

(***************************************************************************)
(* What protect knows at each await: how often aiCall was executed, and    *)
(* what the catch block may hold.                                          *)
(***************************************************************************)
LEMMA ProtectInvariant == ProtectSpec => []ProtectInv
<1>1. ProtectInit => ProtectInv
    BY DEF ProtectInit, ProtectInv, SandboxRunsWhenAllowed, OutageNeverCostsTheCall,
           DuplicateOnlyAfterMisreadError
<1>2. ProtectInv /\ [ProtectNext]_protectVars => ProtectInv'
    <2>. SUFFICES ASSUME ProtectInv, [ProtectNext]_protectVars PROVE ProtectInv'
        OBVIOUS
    <2>. USE DEF ProtectInv, SandboxRunsWhenAllowed, OutageNeverCostsTheCall,
                 DuplicateOnlyAfterMisreadError
    <2>1. CASE protect
        BY <2>1 DEF protect
    <2>2. CASE CheckAllows
        BY <2>2 DEF CheckAllows
    <2>3. CASE CheckSubstitutes
        BY <2>3 DEF CheckSubstitutes
    <2>4. ASSUME NEW error \in CheckErrors \cap Answers, CheckThrows(error)
          PROVE  ProtectInv'
        BY <2>4 DEF CheckThrows, CheckErrors
    <2>5. CASE AiReturns
        BY <2>5 DEF AiReturns
    <2>6. ASSUME NEW error \in ProviderErrors, NEW done \in {0, 1}, AiThrows(error, done)
          PROVE  ProtectInv'
        BY <2>6 DEF AiThrows
    <2>7. CASE FailOpen
        BY <2>7 DEF FailOpen, FailsOpen
    <2>8. CASE Rethrow
        BY <2>8 DEF Rethrow, FailsOpen, isAxonFlowError, namesAxonFlow, CheckErrors
    <2>9. ASSUME NEW done \in {0, 1}, RescueThrows(done)
          PROVE  ProtectInv'
        BY <2>9, ProtectAssumption DEF RescueThrows, isAxonFlowError, namesAxonFlow
    <2>10. CASE RescueReturns
        BY <2>10, ProtectAssumption DEF RescueReturns, isAxonFlowError, namesAxonFlow
    <2>11. CASE CallOver
        BY <2>11 DEF CallOver
    <2>12. CASE UNCHANGED protectVars
        BY <2>12 DEF protectVars
    <2>. QED
        BY <2>1, <2>2, <2>3, <2>4, <2>5, <2>6, <2>7, <2>8, <2>9, <2>10, <2>11, <2>12
        DEF ProtectNext
<1>. QED BY <1>1, <1>2, PTL DEF ProtectSpec

(***************************************************************************)
(* In the sandbox protect executes aiCall at most once, and only when the  *)
(* agent allowed it.                                                       *)
(***************************************************************************)
THEOREM SandboxGoverned == ProtectSpec => []SandboxRunsWhenAllowed
BY ProtectInvariant, PTL DEF ProtectInv

(***************************************************************************)
(* In production an outage that the catch block recognises never costs the *)
(* application its call.                                                   *)
(***************************************************************************)
THEOREM ProductionProceeds == ProtectSpec => []OutageNeverCostsTheCall
BY ProtectInvariant, PTL DEF ProtectInv

(***************************************************************************)
(* The provider's work is duplicated only after an error of its own that   *)
(* reads like one of AxonFlow's.                                           *)
(***************************************************************************)
THEOREM DuplicatesExplained == ProtectSpec => []DuplicateOnlyAfterMisreadError
BY ProtectInvariant, PTL DEF ProtectInv

(***************************************************************************)
(* The type invariant of protect, for any answers and errors.              *)
(***************************************************************************)
THEOREM ProtectTypeCorrect == ProtectSpec => []ProtectTypeOK
<1>1. ProtectInv => ProtectTypeOK
    BY DEF ProtectInv, ProtectTypeOK
<1>. QED BY <1>1, ProtectInvariant, PTL
=============================================================================

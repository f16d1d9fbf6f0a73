--------------------------- MODULE ToolGovernance ---------------------------
(***************************************************************************)
(* The two wrappers that put a tool between an input and an output check:  *)
(* GovernedTool.invoke (src/adapters/governed-tool.ts) and the function of *)
(* mcpToolInterceptor (src/adapters/langgraph.ts), over mcpCheckInput and  *)
(* mcpCheckOutput (src/client.ts).                                         *)
(*                                                                         *)
(* A value is the set of sensitive items readable in it.  What is checked  *)
(* is its serialisation, made before the check is awaited; what the tool   *)
(* gets, and what the caller gets back, is the value itself.               *)
(***************************************************************************)
EXTENDS Naturals

CONSTANT Item    \* what an engine could recognise in arguments and results

VARIABLES
    pc,          \* where the call is
    wrapper,     \* "governedTool" or "interceptor"
    args,        \* the arguments, a value of the caller
    result,      \* what the tool returned, a value of the tool
    shownInput,  \* what the statement of the input check showed
    shownOutput, \* what the message of the output check showed
    released,    \* what the caller got back
    ranWith,     \* observed: what the arguments held when the tool was called
    runs,        \* observed: how often the tool was called
    allows,      \* observed: how often the engine allowed
    masked,      \* observed: what the engine's redaction of the output hid
    rewritten    \* observed: "args" or "result" when one changed during its check

code == <<pc, wrapper, args, result, shownInput, shownOutput, released>>
vars == <<code, ranWith, runs, allows, masked, rewritten>>

(***************************************************************************)
(* By what JSON.stringify makes of them: a string or a plain value is      *)
(* shown whole; undefined is left out; a Map, a Set or an Error is "{}";   *)
(* a cycle or a bigint throws, and String() shows "[object Object]".       *)
(***************************************************************************)
Kind == {"text", "object", "undefined", "emptied", "throwing"}
Mutable == {"object", "emptied", "throwing"}
Value == [kind : Kind, items : SUBSET Item]
Possible == {v \in Value : v.kind = "undefined" => v.items = {}}
Nothing == [kind |-> "undefined", items |-> {}]

TypeOK ==
    /\ pc \in {"idle", "checkingInput", "running", "checkingOutput", "returned", "threw"}
    /\ wrapper \in {"governedTool", "interceptor"}
    /\ args \in Value /\ result \in Value
    /\ shownInput \in SUBSET Item /\ shownOutput \in SUBSET Item
    /\ released \in SUBSET Item /\ ranWith \in SUBSET Item /\ masked \in SUBSET Item
    /\ runs \in 0 .. 1 /\ allows \in 0 .. 2
    /\ rewritten \in SUBSET {"args", "result"}

\* serializeContent, and the same three lines in the interceptor.
serializeContent(v) == IF v.kind \in {"text", "object"} THEN v.items ELSE {}

-----------------------------------------------------------------------------
(* The input check. *)

NewCall(w, v) ==
    /\ pc = "idle"
    /\ wrapper' = w /\ args' = v /\ result' = Nothing
    /\ shownOutput' = {} /\ released' = {} /\ ranWith' = {} /\ masked' = {}
    /\ runs' = 0 /\ allows' = 0 /\ rewritten' = {}

\* The interceptor's request also carries the arguments as its `parameters`, which
\* cannot be serialised if they throw.
Sendable(w, v) == w = "interceptor" => v.kind # "throwing"

invoke(w, v) ==
    /\ NewCall(w, v) /\ Sendable(w, v)
    /\ shownInput' = serializeContent(v) /\ pc' = "checkingInput"

\* No request is made: the body cannot be serialised, or, with debug, the log line
\* takes a substring of a statement that is undefined.
InputNotSent(w, v) ==
    /\ NewCall(w, v)
    /\ ~Sendable(w, v) \/ (w = "governedTool" /\ v.kind = "undefined")
    /\ shownInput' = {} /\ pc' = "threw"

\* The caller, who holds the same object, changes it while the check is awaited.
ArgsRewritten(items) ==
    /\ pc = "checkingInput" /\ args.kind \in Mutable
    /\ args' = [args EXCEPT !.items = items]
    /\ rewritten' = rewritten \cup {"args"}
    /\ UNCHANGED <<pc, wrapper, result, shownInput, shownOutput, released,
                   ranWith, runs, allows, masked>>

InputAllowed ==
    /\ pc = "checkingInput" /\ pc' = "running"
    /\ ranWith' = args.items /\ runs' = runs + 1 /\ allows' = allows + 1
    /\ UNCHANGED <<wrapper, args, result, shownInput, shownOutput, released,
                   masked, rewritten>>

\* `allowed` false or absent, whether with a 2xx or a 403: PolicyViolationError.
\* Any other status is a ConnectorError; no answer or no JSON, what fetch threw.
InputRefused ==
    /\ pc = "checkingInput" /\ pc' = "threw"
    /\ UNCHANGED <<wrapper, args, result, shownInput, shownOutput, released,
                   ranWith, runs, allows, masked, rewritten>>

-----------------------------------------------------------------------------
(* The tool and the output check. *)

CheckedLikeTheInput(v) ==
    /\ pc = "running" /\ pc' = "checkingOutput"
    /\ result' = v /\ shownOutput' = shownInput
    /\ UNCHANGED <<wrapper, args, shownInput, released, ranWith, runs, allows,
                   masked, rewritten>>
ToolReturns(v) ==
    /\ pc = "running" /\ pc' = "checkingOutput"
    /\ result' = v /\ shownOutput' = serializeContent(v)
    /\ UNCHANGED <<wrapper, args, shownInput, released, ranWith, runs, allows,
                   masked, rewritten>>

\* What the tool throws goes to the caller, unchecked.
ToolThrows ==
    /\ pc = "running" /\ pc' = "threw"
    /\ UNCHANGED <<wrapper, args, result, shownInput, shownOutput, released,
                   ranWith, runs, allows, masked, rewritten>>

\* The tool kept a reference and goes on writing.
ResultRewritten(items) ==
    /\ pc = "checkingOutput" /\ result.kind \in Mutable
    /\ result' = [result EXCEPT !.items = items]
    /\ rewritten' = rewritten \cup {"result"}
    /\ UNCHANGED <<pc, wrapper, args, shownInput, shownOutput, released,
                   ranWith, runs, allows, masked>>

OutputAllowed ==
    /\ pc = "checkingOutput" /\ pc' = "returned"
    /\ released' = result.items /\ allows' = allows + 1
    /\ UNCHANGED <<wrapper, args, result, shownInput, shownOutput, ranWith, runs,
                   masked, rewritten>>

\* redacted_data, neither undefined nor null, is returned in the result's place.
OutputRedactedData(hidden) ==
    /\ pc = "checkingOutput" /\ pc' = "returned"
    /\ hidden # {} /\ hidden \subseteq shownOutput
    /\ released' = shownOutput \ hidden /\ masked' = hidden /\ allows' = allows + 1
    /\ UNCHANGED <<wrapper, args, result, shownInput, shownOutput, ranWith, runs,
                   rewritten>>

\* A redaction that comes as redacted_message, a text's, is read by neither wrapper.
OutputRedactedMessage(hidden) ==
    /\ pc = "checkingOutput" /\ pc' = "returned"
    /\ hidden # {} /\ hidden \subseteq shownOutput
    /\ released' = result.items /\ masked' = hidden /\ allows' = allows + 1
    /\ UNCHANGED <<wrapper, args, result, shownInput, shownOutput, ranWith, runs,
                   rewritten>>

\* Refused like an input; the tool has run, and its result is dropped.
RefusalReturned ==
    /\ pc = "checkingOutput" /\ pc' = "returned"
    /\ released' = result.items
    /\ UNCHANGED <<wrapper, args, result, shownInput, shownOutput, ranWith, runs,
                   allows, masked, rewritten>>
OutputRefused ==
    /\ pc = "checkingOutput" /\ pc' = "threw"
    /\ UNCHANGED <<wrapper, args, result, shownInput, shownOutput, released,
                   ranWith, runs, allows, masked, rewritten>>

Finish ==
    /\ pc \in {"returned", "threw"} /\ pc' = "idle"
    /\ UNCHANGED <<wrapper, args, result, shownInput, shownOutput, released,
                   ranWith, runs, allows, masked, rewritten>>

Init ==
    /\ pc = "idle" /\ wrapper \in {"governedTool", "interceptor"}
    /\ args = Nothing /\ result = Nothing
    /\ shownInput = {} /\ shownOutput = {} /\ released = {} /\ ranWith = {}
    /\ runs = 0 /\ allows = 0 /\ masked = {} /\ rewritten = {}

Next ==
    \/ \E w \in {"governedTool", "interceptor"}, v \in Possible :
         invoke(w, v) \/ InputNotSent(w, v)
    \/ \E items \in SUBSET Item : ArgsRewritten(items) \/ ResultRewritten(items)
    \/ InputAllowed \/ InputRefused
    \/ \E v \in Possible : ToolReturns(v)
    \/ ToolThrows \/ OutputAllowed
    \/ \E hidden \in SUBSET Item : OutputRedactedData(hidden) \/ OutputRedactedMessage(hidden)
    \/ OutputRefused \/ Finish

Spec == Init /\ [][Next]_vars

-----------------------------------------------------------------------------

Stage == CASE pc = "checkingInput" -> "asked"
           [] pc \in {"running", "checkingOutput"} -> "executed"
           [] pc = "returned" -> "released"
           [] pc = "threw" -> "refused"
           [] OTHER -> "idle"

Guarded == INSTANCE GuardedRelease WITH stage <- Stage

(***************************************************************************)
(* Refinement.  Both wrappers are guarded executions: the tool is called   *)
(* once, after an allow of the engine, and something is returned only      *)
(* after a second one; whatever else happens, and however a check fails,   *)
(* the caller gets an error.                                               *)
(***************************************************************************)
ChecksGuardTheTool == Guarded!Spec

Unshown(v) == v.kind \in {"emptied", "throwing"}

(***************************************************************************)
(* The tool runs with what the input check was shown.  The two ways out    *)
(* are arguments that JSON does not show, of which the interceptor stops   *)
(* those that cannot be serialised, and a caller who changes them while    *)
(* the check is awaited.                                                   *)
(***************************************************************************)
RunsWithWhatWasShown ==
    runs = 1 =>
        \/ ranWith \subseteq shownInput
        \/ Unshown(args) /\ (wrapper = "interceptor" => args.kind # "throwing")
        \/ "args" \in rewritten

(***************************************************************************)
(* The caller gets back what the output check was shown, unless the result *)
(* is one JSON does not show or was changed during the check.              *)
(***************************************************************************)
ReleasesWhatWasShown ==
    pc = "returned" =>
        released \subseteq shownOutput \/ Unshown(result) \/ "result" \in rewritten

(***************************************************************************)
(* Nothing is used that was not shown to its check before: neither by the  *)
(* tool nor by the caller (invoke, mcpToolInterceptor).                    *)
(***************************************************************************)
UsesWhatWasShown == RunsWithWhatWasShown /\ ReleasesWhatWasShown

-----------------------------------------------------------------------------
(* What a comment of the source says and the code does not keep. *)

(***************************************************************************)
(* "Can block (raise), redact (return cleaned data), or allow"             *)
(* (governed-tool.ts:69): what the engine hid in the output is not in what *)
(* the caller gets back.                                                   *)
(***************************************************************************)
RedactionReachesCaller == pc = "returned" => released \cap masked = {}
=============================================================================

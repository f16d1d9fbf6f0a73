------------------------------ MODULE MCCalls ------------------------------
(***************************************************************************)
(* The calls that take several steps and leave nothing behind, one at a    *)
(* time: a fetch through redirects, with two URLs of the endpoint and one  *)
(* elsewhere; a tool behind its wrappers, with two items and every kind of *)
(* value; protect, with every answer of the agent and every error of a     *)
(* provider; a stream of three lines of every kind, in events of any       *)
(* length and cut into any chunks; the walk over the pages of four         *)
(* providers.                                                              *)
(***************************************************************************)
EXTENDS IdentityRedirect, ToolGovernance, ProtectCall, ExecutionStream, ProviderPages

CONSTANTS start, moved, elsewhere, email, ssn, bedrock, gemini, ollama, openai

Places == {start, moved, elsewhere}
HomePlaces == {start, moved}
Items == {email, ssn}
AllAnswers == {"allowed", "modified"} \cup CheckErrors
AllErrors == {"providerFetch", "providerGoverned", "providerOther"}
AllKinds == {"progress", "terminal", "unreadable"}
BothLineEnds == {"lf", "crlf"}
FourProviders == {bedrock, gemini, ollama, openai}
Sizes == {1, 2, 5}

\* A kind of call that is not made.
NoFetch == FetchInit /\ request.place = start
NoTool == Init /\ wrapper = "governedTool"
NoProtect == ProtectInit /\ mode = "sandbox"
NoStream == StreamInit /\ lineEnd = "lf"
NoWalk == /\ walk = "idle" /\ providers = <<>> /\ paginates = TRUE /\ pageSize = 1
          /\ page = 1 /\ all = <<>> /\ answer = NoAnswer /\ atStart = <<>>
          /\ inserted = 0 /\ removed = {}

FetchOnly == NoTool /\ NoProtect /\ NoStream /\ NoWalk
ToolOnly == NoFetch /\ NoProtect /\ NoStream /\ NoWalk
ProtectOnly == NoFetch /\ NoTool /\ NoStream /\ NoWalk
StreamOnly == NoFetch /\ NoTool /\ NoProtect /\ NoWalk
WalkOnly == NoFetch /\ NoTool /\ NoProtect /\ NoStream

CallsInit ==
    \/ FetchInit /\ FetchOnly
    \/ Init /\ ToolOnly
    \/ ProtectInit /\ ProtectOnly
    \/ StreamInit /\ StreamOnly
    \/ WalkInit /\ WalkOnly

CallsNext ==
    \/ FetchOnly /\ FetchNext
       /\ UNCHANGED <<vars, protectVars, streamVars, walkVars>>
    \/ ToolOnly /\ Next
       /\ UNCHANGED <<fetchVars, protectVars, streamVars, walkVars>>
    \/ ProtectOnly /\ ProtectNext
       /\ UNCHANGED <<fetchVars, vars, streamVars, walkVars>>
    \/ StreamOnly /\ StreamNext
       /\ UNCHANGED <<fetchVars, vars, protectVars, walkVars>>
    \/ WalkOnly /\ WalkNext
       /\ UNCHANGED <<fetchVars, vars, protectVars, streamVars>>

CallsSpec ==
    /\ CallsInit
    /\ [][CallsNext]_<<fetchVars, vars, protectVars, streamVars, walkVars>>
    /\ WF_fetchVars(Exchange)
    /\ WF_streamVars(ClientStep)
    /\ WF_walkVars(Answer \/ Collect \/ PageFails)

(***************************************************************************)
(* Neither a stream nor the walk goes on for ever: a stream whose server   *)
(* closes it, whose connection breaks or whose caller aborts ends, and so  *)
(* does the walk, also while the registry grows and shrinks behind it.     *)
(***************************************************************************)
ReadsEnd == StreamEnds /\ WalkEnds
=============================================================================

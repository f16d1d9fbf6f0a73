--------------------------- MODULE ExecutionStream ---------------------------
(***************************************************************************)
(* streamExecutionStatus (src/client.ts): server-sent events read in       *)
(* chunks of any size, cut at blank lines, and handed to the caller's      *)
(* callback, until a terminal status, the end of the stream or an abort.   *)
(*                                                                         *)
(* The text is a sequence of tokens: a line is the number it has among the *)
(* lines the server has written, LF and CR are themselves.  A chunk that   *)
(* ends inside a line is one that ends before it: neither can be cut.      *)
(***************************************************************************)
EXTENDS Integers, Sequences, FiniteSetsExt

CONSTANTS
    Kinds,      \* the kinds of lines the server writes
    LineEnds,   \* the ways it ends them: "lf", "crlf" or both
    MaxLines    \* bound on the lines of a stream

ASSUME StreamAssumption ==
    /\ Kinds \subseteq {"progress", "terminal", "unreadable"} /\ Kinds # {}
    /\ LineEnds \subseteq {"lf", "crlf"} /\ LineEnds # {}
    /\ MaxLines \in Nat

LF == 0
CR == -1

VARIABLES
    reader,     \* where the call is
    buffer,     \* what is read and not cut yet
    events,     \* the text of the cut events that the loop has not gone over
    aborted,    \* the caller's signal: "no", "AbortError", or another reason
    lineEnd,    \* the server's line ends
    lines,      \* the kinds of the lines it has written
    ended,      \* how many of them stand before a blank line
    wire,       \* its text that the client has not read
    closed,     \* "no", "end" of the stream, or a "broken" connection
    delivered,  \* observed: the lines the callback was called with
    thrown      \* observed: those it threw an exception on

server == <<lineEnd, lines, ended, closed>>
streamVars == <<reader, buffer, events, aborted, server, wire, delivered, thrown>>

Token == {CR, LF} \cup 1 .. MaxLines

StreamTypeOK ==
    /\ reader \in {"connecting", "reading", "handling", "returned", "threw"}
    /\ buffer \in Seq(Token) /\ events \in Seq(Token) /\ wire \in Seq(Token)
    /\ aborted \in {"no", "AbortError", "TimeoutError"}
    /\ lineEnd \in LineEnds
    /\ lines \in Seq(Kinds) /\ Len(lines) <= MaxLines
    /\ ended \in 0 .. Len(lines)
    /\ closed \in {"no", "end", "broken"}
    /\ delivered \in Seq(1 .. Len(lines)) /\ Len(delivered) <= Len(lines)
    /\ thrown \subseteq 1 .. Len(lines)

-----------------------------------------------------------------------------
(* The server. *)

\* What the server does before the answer or after the call makes no difference to it.
Listening == reader \in {"reading", "handling"}

EndOfLine == IF lineEnd = "lf" THEN <<LF>> ELSE <<CR, LF>>

WriteLine(kind) ==
    /\ Listening /\ closed = "no" /\ Len(lines) < MaxLines
    /\ lines' = Append(lines, kind)
    /\ wire' = wire \o <<Len(lines')>> \o EndOfLine
    /\ UNCHANGED <<reader, buffer, events, aborted, lineEnd, ended, closed, delivered,
                   thrown>>

\* The blank line that ends an event.
EndEvent ==
    /\ Listening /\ closed = "no" /\ ended < Len(lines)
    /\ ended' = Len(lines)
    /\ wire' = wire \o EndOfLine
    /\ UNCHANGED <<reader, buffer, events, aborted, lineEnd, lines, closed, delivered,
                   thrown>>

\* Perhaps in the middle of an event; a broken connection loses what is on the wire.
Close(how) ==
    /\ Listening /\ closed = "no"
    /\ closed' = how /\ wire' = IF how = "broken" THEN <<>> ELSE wire
    /\ UNCHANGED <<reader, buffer, events, aborted, lineEnd, lines, ended, delivered,
                   thrown>>

-----------------------------------------------------------------------------
(* The client. *)

client == <<buffer, events>>

\* 2xx with a body, or an error status, no body, no connection.
Connected(outcome) ==
    /\ reader = "connecting" /\ aborted = "no"
    /\ reader' = outcome
    /\ UNCHANGED <<client, aborted, server, wire, delivered, thrown>>

\* The caller aborts; the body is dropped with what is on the wire.
Abort(reason) ==
    /\ reader \in {"connecting", "reading"} /\ aborted = "no"
    /\ aborted' = reason /\ wire' = <<>>
    /\ UNCHANGED <<reader, client, server, delivered, thrown>>

\* fetch or read rejects: AbortError is a clean exit, every other reason is thrown.
LeaveAborted ==
    /\ reader \in {"connecting", "reading"} /\ aborted # "no"
    /\ reader' = IF aborted = "AbortError" THEN "returned" ELSE "threw"
    /\ UNCHANGED <<client, aborted, server, wire, delivered, thrown>>

\* buffer.split('\n\n'): what stands before the last blank line, and after it.
LastBlank(b) == Max({0} \cup {i \in 1 .. Len(b) - 1 : b[i] = LF /\ b[i + 1] = LF})
Cut(b) == SubSeq(b, 1, LastBlank(b))
RestDropped(b) == <<>>
Rest(b) == IF LastBlank(b) = 0 THEN b ELSE SubSeq(b, LastBlank(b) + 2, Len(b))

ReadChunk(n) ==
    /\ reader = "reading" /\ aborted = "no" /\ n \in 1 .. Len(wire)
    /\ LET text == buffer \o SubSeq(wire, 1, n)
       IN  events' = Cut(text) /\ buffer' = Rest(text)
    /\ wire' = SubSeq(wire, n + 1, Len(wire))
    /\ reader' = "handling"
    /\ UNCHANGED <<aborted, server, delivered, thrown>>

\* split('\n') of each event: the next line that is none of their ends.
LinesLeft == {i \in DOMAIN events : events[i] > 0}
NextLine == Min(LinesLeft)
Current == lines[events[NextLine]]
TakeLine == LinesLeft # {} /\ events' = SubSeq(events, NextLine + 1, Len(events))

\* A comment, another field, [DONE], or data that is not JSON.
SkipLine ==
    /\ reader = "handling" /\ TakeLine /\ Current = "unreadable"
    /\ UNCHANGED <<reader, buffer, aborted, server, wire, delivered, thrown>>

Callback ==
    /\ reader = "handling" /\ TakeLine /\ Current # "unreadable"
    /\ delivered' = Append(delivered, events[NextLine])

\* The callback returns, having aborted the stream or not; a terminal status ends the call.
CallbackReturnsToLoop(reason) ==
    /\ Callback
    /\ reader' = "handling"
    /\ aborted' = reason /\ aborted \in {"no", reason}
    /\ UNCHANGED <<buffer, server, wire, thrown>>
CallbackReturns(reason) ==
    /\ Callback
    /\ reader' = IF Current = "terminal" THEN "returned" ELSE "handling"
    /\ aborted' = reason /\ aborted \in {"no", reason}
    /\ UNCHANGED <<buffer, server, wire, thrown>>

\* Its exception is caught with those of JSON.parse: the loop goes on, after a
\* terminal status too.
CallbackThrows ==
    /\ Callback
    /\ thrown' = thrown \cup {events[NextLine]}
    /\ UNCHANGED <<reader, buffer, aborted, server, wire>>

ReadOn ==
    /\ reader = "handling" /\ LinesLeft = {}
    /\ reader' = "reading" /\ events' = <<>>
    /\ UNCHANGED <<buffer, aborted, server, wire, delivered, thrown>>

\* read() says done, or rejects.  What is left in the buffer is dropped.
DoneNeedsTerminal ==
    /\ reader = "reading" /\ aborted = "no" /\ closed # "no" /\ wire = <<>>
    /\ closed = "end" => \E i \in DOMAIN lines : lines[i] = "terminal"
    /\ reader' = IF closed = "end" THEN "returned" ELSE "threw"
    /\ UNCHANGED <<client, aborted, server, wire, delivered, thrown>>
StreamDone ==
    /\ reader = "reading" /\ aborted = "no" /\ closed # "no" /\ wire = <<>>
    /\ reader' = IF closed = "end" THEN "returned" ELSE "threw"
    /\ UNCHANGED <<client, aborted, server, wire, delivered, thrown>>

StreamInit ==
    /\ reader = "connecting" /\ buffer = <<>> /\ events = <<>> /\ aborted = "no"
    /\ lineEnd \in LineEnds /\ lines = <<>> /\ ended = 0 /\ wire = <<>> /\ closed = "no"
    /\ delivered = <<>> /\ thrown = {}

ClientStep ==
    \/ LeaveAborted \/ SkipLine \/ CallbackThrows \/ ReadOn \/ StreamDone
    \/ \E reason \in {"no", "AbortError", "TimeoutError"} : CallbackReturns(reason)
    \/ \E n \in 1 .. Len(wire) : ReadChunk(n)

StreamNext ==
    \/ \E outcome \in {"reading", "threw"} : Connected(outcome)
    \/ \E reason \in {"AbortError", "TimeoutError"} : Abort(reason)
    \/ \E kind \in Kinds : WriteLine(kind)
    \/ EndEvent \/ (\E how \in {"end", "broken"} : Close(how))
    \/ ClientStep

StreamSpec == StreamInit /\ [][StreamNext]_streamVars

\* The client's event loop runs; nothing is assumed of the server or the network.
StreamFairSpec == StreamSpec /\ WF_streamVars(ClientStep)

-----------------------------------------------------------------------------

ReadableUpTo(n) == {i \in 1 .. n : lines[i] # "unreadable"}
Seen == {delivered[i] : i \in DOMAIN delivered}

(***************************************************************************)
(* However the text is cut into chunks, the callback sees the statuses in  *)
(* the order they were written, each once and without a gap, none of an    *)
(* event that is not complete, and nothing after a terminal status that it *)
(* took without an exception.                                              *)
(***************************************************************************)
InOrderWithoutGaps ==
    /\ \A i, j \in DOMAIN delivered : i < j => delivered[i] < delivered[j]
    /\ \A i \in DOMAIN delivered :
         /\ delivered[i] <= ended
         /\ ReadableUpTo(delivered[i]) \subseteq Seen
         /\ lines[delivered[i]] = "terminal" /\ i < Len(delivered) => delivered[i] \in thrown

(***************************************************************************)
(* A call that returns without having been aborted has delivered every     *)
(* status of the server's complete events up to the terminal one that      *)
(* ended it, or up to the end of the stream, provided the server ends its  *)
(* lines with LF alone; of one that writes CR LF it has delivered nothing. *)
(***************************************************************************)
ReturnsComplete ==
    reader = "returned" /\ aborted = "no" =>
        CASE lineEnd = "crlf" -> delivered = <<>>
          [] OTHER ->
               \/ closed = "end" /\ ReadableUpTo(ended) \subseteq Seen
               \/ /\ delivered # <<>>
                  /\ lines[delivered[Len(delivered)]] = "terminal"

Over == reader \in {"returned", "threw"}

(***************************************************************************)
(* The call ends once the server closes the stream, the connection breaks  *)
(* or the caller aborts, whatever the callback does.  There is no timeout: *)
(* with none of these it may wait for ever.                                *)
(***************************************************************************)
StreamEnds == closed # "no" \/ aborted # "no" ~> Over
=============================================================================

--------------------------- MODULE LongReadsProofs ---------------------------
(***************************************************************************)
(* The event stream is handed on in order, without gaps and completely,    *)
(* for any number of lines and any chunks; and the walk over the pages     *)
(* accounts for every provider, for any registry, any page sizes and any   *)
(* changes.                                                                *)
(***************************************************************************)
EXTENDS ExecutionStream, ProviderPages, SequenceTheorems, OrderLemmas

-----------------------------------------------------------------------------
(* What is true of the text of a stream.                                   *)

\* What is written and not cut, if nothing of it is lost.
Text == buffer \o wire

Blank(s, i) == i \in 1 .. Len(s) - 1 /\ s[i] = LF /\ s[i + 1] = LF

\* The numbers of lines ascend (those of line ends are below them all).
Ascending(s) == \A i, j \in DOMAIN s : i < j /\ s[j] > 0 => s[i] < s[j]
AllBefore(s, t) == \A i \in DOMAIN s, j \in DOMAIN t : t[j] > 0 => s[i] < t[j]

OrderInv ==
    /\ Ascending(delivered) /\ Ascending(events) /\ AllBefore(delivered, events)
    /\ \A i \in DOMAIN delivered : i <= delivered[i]
    /\ aborted = "no" =>
         /\ Ascending(Text) /\ AllBefore(delivered, Text) /\ AllBefore(events, Text)
         /\ \A i \in DOMAIN Text : Text[i] <= Len(lines)

\* A line is handled, or still to be seen.
Handled(k) == lines[k] = "unreadable" \/ k \in Seen
Accounted(k) == Handled(k) \/ k \in Range(events) \/ k \in Range(Text)

GapInv ==
    /\ \A i \in DOMAIN delivered : \A k \in 1 .. delivered[i] : Handled(k)
    /\ \A i \in DOMAIN events : \A k \in 1 .. events[i] : Handled(k) \/ k \in Range(events)
    /\ aborted = "no" =>
         /\ \A i \in DOMAIN Text : \A k \in 1 .. Text[i] : Accounted(k)
         /\ closed # "broken" => \A k \in 1 .. Len(lines) : Accounted(k)

\* Blank lines stand after complete events and after each of them, and the buffer has
\* none.  A server that writes CR LF writes no blank line the client knows.
BlankInv ==
    /\ \A i \in DOMAIN events : events[i] <= ended
    /\ \A i \in DOMAIN delivered : delivered[i] <= ended
    /\ \A i \in 1 .. Len(buffer) : ~Blank(buffer, i)
    /\ aborted = "no" =>
         /\ \A i \in DOMAIN Text : Blank(Text, i) => \A j \in 1 .. i : Text[j] <= ended
         /\ lineEnd = "crlf" =>
              \A i \in 1 .. Len(Text) - 1 : Text[i + 1] = LF => Text[i] = CR
         /\ closed # "broken" /\ lineEnd = "lf" =>
              /\ Text # <<>> => Text[Len(Text)] = LF
              /\ \A j \in DOMAIN Text :
                    Text[j] \in 1 .. ended => \E i \in DOMAIN Text : j < i /\ Blank(Text, i)
    /\ lineEnd = "crlf" => events = <<>> /\ delivered = <<>>

EndInv ==
    /\ reader \in {"connecting", "reading"} => events = <<>>
    /\ \A i \in DOMAIN delivered :
         lines[delivered[i]] = "terminal" =>
            delivered[i] \in thrown \/ (reader = "returned" /\ i = Len(delivered))
    /\ ReturnsComplete

StreamInv == StreamTypeOK /\ OrderInv /\ GapInv /\ BlankInv /\ EndInv

-----------------------------------------------------------------------------
(* Concatenation, the cut, and the next line, element by element.          *)

LEMMA TextElements ==
    ASSUME StreamTypeOK
    PROVE  /\ Text \in Seq(Token) /\ Len(Text) = Len(buffer) + Len(wire)
           /\ \A i \in 1 .. Len(Text) :
                 Text[i] = IF i <= Len(buffer) THEN buffer[i] ELSE wire[i - Len(buffer)]
BY ConcatProperties DEF StreamTypeOK, Text

LEMMA TypedText ==
    ASSUME NEW s \in Seq(Token)
    PROVE  /\ Len(s) \in Nat /\ DOMAIN s = 1 .. Len(s)
           /\ \A i \in 1 .. Len(s) : s[i] \in Int /\ s[i] \in Token
<1>1. Token \subseteq Int
  BY StreamAssumption DEF Token, StreamAssumption, LF, CR
<1>2. \A i \in 1 .. Len(s) : s[i] \in Token
  BY ElementOfSeq
<1>. QED
  BY <1>1, <1>2, LenProperties

LEMMA LastBlankFound ==
    ASSUME NEW b \in Seq(Token)
    PROVE  /\ LastBlank(b) \in Nat
           /\ LastBlank(b) # 0 => Blank(b, LastBlank(b))
           /\ \A i \in 1 .. Len(b) : Blank(b, i) => i <= LastBlank(b)
<1>. DEFINE S == {0} \cup {i \in 1 .. Len(b) - 1 : b[i] = LF /\ b[i + 1] = LF}
<1>1. Len(b) \in Nat
  BY TypedText
<1>2. S \in SUBSET Nat /\ S # {} /\ \A k \in S : k <= Len(b)
  BY <1>1
<1>3. LastBlank(b) = Max(S)
  BY DEF LastBlank
<1>. HIDE DEF S
<1>4. \E m \in S : \A k \in S : k <= m
  BY <1>1, <1>2, GreatestNatural
<1>5. Max(S) \in S /\ \A k \in S : k <= Max(S)
  BY <1>2, <1>4 DEF Max
<1>. QED
  BY <1>1, <1>2, <1>3, <1>5 DEF S, Blank

LEMMA NextLineFound ==
    ASSUME StreamTypeOK, LinesLeft # {}
    PROVE  /\ NextLine \in 1 .. Len(events) /\ events[NextLine] > 0
           /\ \A i \in 1 .. Len(events) : i < NextLine => ~(events[i] > 0)
<1>1. DOMAIN events = 1 .. Len(events) /\ Len(events) \in Nat
  BY TypedText DEF StreamTypeOK
<1>2. LinesLeft \in SUBSET Nat
  BY <1>1 DEF LinesLeft
<1>3. \E m \in LinesLeft : \A k \in LinesLeft : m <= k
  BY <1>2, LeastNatural
<1>4. NextLine \in LinesLeft /\ \A k \in LinesLeft : NextLine <= k
  BY <1>2, <1>3 DEF NextLine, Min
<1>. QED
  BY <1>1, <1>2, <1>4 DEF LinesLeft

\* The events that are left after a line.
LEMMA LineTaken ==
    ASSUME StreamTypeOK, TakeLine
    PROVE  /\ NextLine \in 1 .. Len(events) /\ events[NextLine] > 0
           /\ \A i \in 1 .. Len(events) : i < NextLine => ~(events[i] > 0)
           /\ events' \in Seq(Token) /\ Len(events') = Len(events) - NextLine
           /\ \A i \in 1 .. Len(events') : events'[i] = events[NextLine + i]
<1>1. /\ NextLine \in 1 .. Len(events) /\ events[NextLine] > 0
      /\ \A i \in 1 .. Len(events) : i < NextLine => ~(events[i] > 0)
  BY NextLineFound DEF TakeLine
<1>2. events \in Seq(Token) /\ Len(events) \in Nat
      /\ \A i \in 1 .. Len(events) : events[i] \in Token
  BY TypedText DEF StreamTypeOK
<1>. DEFINE m == NextLine + 1
            n == Len(events)
<1>3. m \in Int /\ n \in Int /\ \A i \in m .. n : events[i] \in Token
  BY <1>1, <1>2
<1>4. events' = SubSeq(events, m, n)
  BY DEF TakeLine
<1>. HIDE DEF m, n
<1>5. /\ events' \in Seq(Token)
      /\ Len(events') = IF m <= n THEN n - m + 1 ELSE 0
      /\ \A i \in 1 .. n - m + 1 : events'[i] = events[m + i - 1]
  BY <1>3, <1>4, SubSeqProperties
<1>6. Len(events') = Len(events) - NextLine
  BY <1>1, <1>2, <1>5 DEF m, n
<1>. QED
  BY <1>1, <1>2, <1>5, <1>6 DEF m, n

\* A chunk moves what stands before the last blank line to the events, and drops the
\* second line end of that.
LEMMA ChunkRead ==
    ASSUME StreamTypeOK, NEW n \in 1 .. Len(wire), ReadChunk(n)
    PROVE  \E c \in Nat, off \in Nat :
             /\ off = IF c = 0 THEN 0 ELSE c + 1
             /\ c # 0 => Blank(Text, c)
             /\ events' \in Seq(Token) /\ Len(events') = c
             /\ \A i \in 1 .. c : events'[i] = Text[i]
             /\ buffer' \in Seq(Token) /\ wire' \in Seq(Token)
             /\ Len(Text') = Len(Text) - off
             /\ \A i \in 1 .. Len(Text') : Text'[i] = Text[off + i]
             /\ \A i \in 1 .. Len(buffer') : ~Blank(buffer', i)
<1>. DEFINE chunk == SubSeq(wire, 1, n)
            text == buffer \o chunk
            c == LastBlank(text)
            off == IF c = 0 THEN 0 ELSE c + 1
<1>1. /\ Len(buffer) \in Nat /\ Len(wire) \in Nat /\ n \in Nat /\ n <= Len(wire)
      /\ \A i \in 1 .. Len(wire) : wire[i] \in Token
  BY TypedText DEF StreamTypeOK
<1>0. /\ Len(Text) = Len(buffer) + Len(wire)
      /\ \A i \in 1 .. Len(Text) :
            Text[i] = IF i <= Len(buffer) THEN buffer[i] ELSE wire[i - Len(buffer)]
  BY TextElements
<1>2. chunk \in Seq(Token) /\ Len(chunk) = n /\ \A i \in 1 .. n : chunk[i] = wire[i]
  <2>1. \A i \in 1 .. n : wire[i] \in Token
    BY <1>1
  <2>. QED
    BY <1>1, <2>1, SubSeqProperties
<1>3. /\ wire' \in Seq(Token) /\ Len(wire') = Len(wire) - n
      /\ \A i \in 1 .. Len(wire') : wire'[i] = wire[n + i]
  <2>. DEFINE m == n + 1
              l == Len(wire)
  <2>1. m \in Int /\ l \in Int /\ \A i \in m .. l : wire[i] \in Token
    BY <1>1
  <2>2. wire' = SubSeq(wire, m, l)
    BY DEF ReadChunk
  <2>. HIDE DEF m, l
  <2>3. /\ wire' \in Seq(Token)
        /\ Len(wire') = IF m <= l THEN l - m + 1 ELSE 0
        /\ \A i \in 1 .. l - m + 1 : wire'[i] = wire[m + i - 1]
    BY <2>1, <2>2, SubSeqProperties
  <2>. QED
    BY <1>1, <2>3 DEF m, l
<1>4. /\ text \in Seq(Token) /\ Len(text) = Len(buffer) + n
      /\ \A i \in 1 .. Len(text) :
            text[i] = IF i <= Len(buffer) THEN buffer[i] ELSE chunk[i - Len(buffer)]
  BY <1>2, ConcatProperties DEF StreamTypeOK
<1>. HIDE DEF chunk
<1>5. \A i \in 1 .. Len(text) : text[i] = Text[i]
  <2>. TAKE i \in 1 .. Len(text)
  <2>1. i \in 1 .. Len(Text)
    BY <1>0, <1>1, <1>4
  <2>2. CASE i <= Len(buffer)
    BY <1>0, <1>4, <2>1, <2>2
  <2>3. CASE ~(i <= Len(buffer))
    <3>. DEFINE j == i - Len(buffer)
    <3>1. j \in 1 .. n
      BY <1>1, <1>4, <2>3
    <3>2. text[i] = chunk[j] /\ Text[i] = wire[j]
      BY <1>0, <1>4, <2>1, <2>3
    <3>. QED
      BY <1>2, <3>1, <3>2
  <2>. QED
    BY <2>2, <2>3
<1>6. events' = SubSeq(text, 1, c) /\ buffer' = IF c = 0 THEN text ELSE SubSeq(text, c + 2, Len(text))
  BY DEF ReadChunk, Cut, Rest, chunk
<1>. HIDE DEF text
<1>7. /\ c \in Nat /\ (c # 0 => Blank(text, c))
      /\ \A i \in 1 .. Len(text) : Blank(text, i) => i <= c
  BY <1>4, LastBlankFound
<1>8. \A i \in 1 .. Len(text) : text[i] \in Token
  BY <1>4, TypedText
<1>9. Len(text) \in Nat /\ off \in Nat /\ off <= Len(text) /\ c <= Len(text)
  BY <1>1, <1>4, <1>7 DEF Blank
<1>. HIDE DEF c
<1>10. /\ events' \in Seq(Token) /\ Len(events') = c
       /\ \A i \in 1 .. c : events'[i] = text[i]
  <2>1. \A i \in 1 .. c : text[i] \in Token
    BY <1>7, <1>8, <1>9
  <2>. QED
    BY <1>6, <1>7, <2>1, SubSeqProperties
<1>11. /\ buffer' \in Seq(Token) /\ Len(buffer') = Len(text) - off
       /\ \A i \in 1 .. Len(buffer') : buffer'[i] = text[off + i]
  <2>1. CASE c = 0
    BY <1>4, <1>6, <1>9, <2>1
  <2>2. CASE c # 0
    <3>. DEFINE m == c + 2
                l == Len(text)
    <3>1. m \in Int /\ l \in Int /\ \A i \in m .. l : text[i] \in Token
      BY <1>7, <1>8, <1>9
    <3>2. buffer' = SubSeq(text, m, l)
      BY <1>6, <2>2
    <3>. HIDE DEF m, l
    <3>3. /\ buffer' \in Seq(Token)
          /\ Len(buffer') = IF m <= l THEN l - m + 1 ELSE 0
          /\ \A i \in 1 .. l - m + 1 : buffer'[i] = text[m + i - 1]
      BY <3>1, <3>2, SubSeqProperties
    <3>4. off = c + 2 - 1 /\ c + 2 <= Len(text) + 1
      BY <1>7, <1>9, <2>2
    <3>5. Len(buffer') = Len(text) - off
      <4>1. Len(buffer') = IF c + 2 <= Len(text) THEN Len(text) - (c + 2) + 1 ELSE 0
        BY <3>3 DEF m, l
      <4>2. c \in Nat /\ Len(text) \in Nat
        BY <1>7, <1>9
      <4>. HIDE DEF off
      <4>. QED
        BY <3>4, <4>1, <4>2
    <3>6. \A i \in 1 .. Len(buffer') : buffer'[i] = text[off + i]
      BY <1>7, <1>9, <3>3, <3>4, <3>5 DEF m, l
    <3>. QED
      BY <3>3, <3>5, <3>6
  <2>. QED
    BY <2>1, <2>2
<1>12. /\ Len(Text') = Len(buffer') + Len(wire')
       /\ \A i \in 1 .. Len(Text') :
             Text'[i] = IF i <= Len(buffer') THEN buffer'[i] ELSE wire'[i - Len(buffer')]
  <2>1. Text' = buffer' \o wire'
    BY DEF Text
  <2>. HIDE DEF off
  <2>2. /\ Len(buffer' \o wire') = Len(buffer') + Len(wire')
        /\ \A i \in 1 .. Len(buffer') + Len(wire') :
              (buffer' \o wire')[i] =
                 IF i <= Len(buffer') THEN buffer'[i] ELSE wire'[i - Len(buffer')]
    BY <1>3, <1>11, ConcatProperties
  <2>. QED
    BY <2>1, <2>2
<1>13. Len(Text') = Len(Text) - off
  <2>1. Len(Text') = Len(buffer') + Len(wire') /\ Len(Text) = Len(buffer) + Len(wire)
    BY <1>0, <1>12
  <2>2. Len(wire') = Len(wire) - n /\ Len(buffer') = Len(text) - off
    BY <1>3, <1>11
  <2>3. Len(text) = Len(buffer) + n
    BY <1>4
  <2>. HIDE DEF off
  <2>. QED
    BY <1>1, <1>9, <2>1, <2>2, <2>3
<1>. HIDE DEF off
<1>14. \A i \in 1 .. Len(Text') : Text'[i] = Text[off + i]
  <2>. TAKE i \in 1 .. Len(Text')
  <2>1. CASE i <= Len(buffer')
    <3>1. Text'[i] = buffer'[i] /\ i \in 1 .. Len(buffer')
      <4>1. Len(buffer') \in Nat
        BY <1>11, TypedText
      <4>. QED
        BY <1>12, <2>1, <4>1
    <3>2. off + i \in 1 .. Len(text)
      BY <1>9, <1>11, <3>1
    <3>. QED
      BY <1>5, <1>11, <3>1, <3>2
  <2>2. CASE ~(i <= Len(buffer'))
    <3>. DEFINE j == i - Len(buffer')
                p == off + i
    <3>1. j \in 1 .. Len(wire') /\ Text'[i] = wire'[j]
      BY <1>1, <1>3, <1>9, <1>11, <1>12, <2>2
    <3>2. p \in 1 .. Len(Text) /\ ~(p <= Len(buffer)) /\ p - Len(buffer) = n + j
      BY <1>0, <1>1, <1>3, <1>4, <1>9, <1>11, <1>13, <2>2, <3>1
    <3>3. Text'[i] = wire[n + j]
      BY <1>3, <3>1
    <3>. HIDE DEF j, p
    <3>4. Text[p] = wire[n + j]
      BY <1>0, <3>2
    <3>5. Text'[i] = Text[p]
      BY <3>3, <3>4
    <3>. QED
      BY <3>5 DEF p
  <2>. QED
    BY <2>1, <2>2
<1>15. c # 0 => Blank(Text, c)
  <2>. HAVE c # 0
  <2>1. c \in 1 .. Len(text) - 1 /\ text[c] = LF /\ text[c + 1] = LF
    BY <1>7 DEF Blank
  <2>2. Text[c] = LF /\ Text[c + 1] = LF
    BY <1>5, <1>9, <2>1
  <2>3. Len(text) <= Len(Text) /\ Len(Text) \in Nat
    BY <1>1, <1>4, TextElements
  <2>. QED
    BY <1>9, <2>1, <2>2, <2>3 DEF Blank
<1>16. \A i \in 1 .. Len(buffer') : ~Blank(buffer', i)
  <2>. SUFFICES ASSUME NEW i \in 1 .. Len(buffer'), Blank(buffer', i) PROVE FALSE
    OBVIOUS
  <2>1. i \in 1 .. Len(buffer') - 1 /\ buffer'[i] = LF /\ buffer'[i + 1] = LF
    BY DEF Blank
  <2>2. text[off + i] = LF /\ text[off + (i + 1)] = LF
    BY <1>9, <1>11, <2>1
  <2>3. Blank(text, off + i) /\ off + i \in 1 .. Len(text)
    <3>1. off + i \in 1 .. Len(text) - 1 /\ off + (i + 1) = (off + i) + 1
      BY <1>9, <1>11, <2>1
    <3>. QED
      BY <1>9, <2>2, <3>1 DEF Blank
  <2>4. off + i <= c
    BY <1>7, <2>3
  <2>. QED
    BY <1>7, <1>9, <2>1, <2>4 DEF off
<1>17. \A i \in 1 .. c : events'[i] = Text[i]
  BY <1>5, <1>7, <1>9, <1>10
<1>. QED
  BY <1>3, <1>7, <1>9, <1>10, <1>11, <1>13, <1>14, <1>15, <1>16, <1>17 DEF off

\* What the server writes comes after all other text.
LEMMA WireGrows ==
    ASSUME StreamTypeOK, NEW more \in Seq(Token), wire' = wire \o more, buffer' = buffer
    PROVE  /\ wire' \in Seq(Token)
           /\ Len(Text') = Len(Text) + Len(more)
           /\ \A i \in 1 .. Len(Text') :
                 Text'[i] = IF i <= Len(Text) THEN Text[i] ELSE more[i - Len(Text)]
<1>1. wire' \in Seq(Token) /\ Text \in Seq(Token)
  BY ConcatProperties, TextElements DEF StreamTypeOK
<1>2. Text' = Text \o more
  <2>1. Text' = buffer \o (wire \o more) /\ Text = buffer \o wire
    BY DEF Text
  <2>2. buffer \in Seq(Token) /\ wire \in Seq(Token)
    BY DEF StreamTypeOK
  <2>3. (buffer \o wire) \o more = buffer \o (wire \o more)
    BY <2>2, ConcatAssociative
  <2>. QED
    BY <2>1, <2>3
<1>3. /\ Len(Text \o more) = Len(Text) + Len(more)
      /\ \A i \in 1 .. Len(Text) + Len(more) :
            (Text \o more)[i] = IF i <= Len(Text) THEN Text[i] ELSE more[i - Len(Text)]
  BY <1>1, ConcatProperties
<1>. QED
  BY <1>1, <1>2, <1>3

-----------------------------------------------------------------------------
(* The invariant of the stream.                                            *)

LEMMA StreamInitially == StreamInit => StreamInv
<1>. SUFFICES ASSUME StreamInit PROVE StreamInv
  OBVIOUS
<1>1. Text = <<>>
  BY DEF StreamInit, Text
<1>2. StreamTypeOK
  <2>1. <<>> \in Seq(Token) /\ <<>> \in Seq(Kinds) /\ Len(<<>>) = 0 /\ <<>> \in Seq(1 .. 0)
    BY EmptySeq
  <2>2. MaxLines \in Nat
    BY StreamAssumption DEF StreamAssumption
  <2>. QED
    BY <2>1, <2>2 DEF StreamInit, StreamTypeOK
<1>3. OrderInv /\ GapInv /\ BlankInv
  BY <1>1 DEF StreamInit, OrderInv, GapInv, BlankInv, Ascending, AllBefore, Blank
<1>4. EndInv
  BY DEF StreamInit, EndInv, ReturnsComplete
<1>. QED
  BY <1>2, <1>3, <1>4 DEF StreamInv

\* As long as the call is not aborted, only a step that touches the text can break
\* what is true of it.
LEMMA TextUntouched ==
    ASSUME StreamInv, UNCHANGED <<buffer, events, server, delivered, thrown>>,
           aborted' = "no" => aborted = "no" /\ wire' = wire
    PROVE  OrderInv' /\ GapInv' /\ BlankInv'
<1>. USE DEF StreamInv, server
<1>1. aborted' = "no" => Text' = Text
  BY DEF Text
<1>2. OrderInv'
  BY <1>1 DEF OrderInv, Ascending, AllBefore
<1>3. GapInv'
  BY <1>1 DEF GapInv, Handled, Accounted, Seen
<1>4. BlankInv'
  BY <1>1 DEF BlankInv, Blank
<1>. QED
  BY <1>2, <1>3, <1>4

\* What the text is after the server has written a line, or a blank line.
LEMMA EndOfLineWritten ==
    ASSUME StreamInv
    PROVE  /\ EndOfLine \in Seq(Token)
           /\ \/ lineEnd = "lf" /\ Len(EndOfLine) = 1 /\ EndOfLine[1] = LF
              \/ lineEnd = "crlf" /\ Len(EndOfLine) = 2 /\ EndOfLine[1] = CR /\ EndOfLine[2] = LF
<1>1. lineEnd \in {"lf", "crlf"}
  BY StreamAssumption DEF StreamInv, StreamTypeOK, StreamAssumption
<1>2. LF \in Token /\ CR \in Token
  BY DEF Token
<1>3. CASE lineEnd = "lf"
  <2>1. EndOfLine = <<LF>>
    BY <1>3 DEF EndOfLine
  <2>. QED
    BY <1>2, <1>3, <2>1
<1>4. CASE lineEnd = "crlf"
  <2>1. EndOfLine = <<CR, LF>>
    BY <1>4 DEF EndOfLine
  <2>2. <<CR, LF>> = Append(<<CR>>, LF) /\ <<CR>> \in Seq(Token) /\ Len(<<CR>>) = 1
    BY <1>2
  <2>3. <<CR, LF>> \in Seq(Token) /\ Len(<<CR, LF>>) = 2
    BY <1>2, <2>2, AppendProperties
  <2>4. <<CR, LF>>[1] = CR /\ <<CR, LF>>[2] = LF
    OBVIOUS
  <2>. QED
    BY <1>4, <2>1, <2>3, <2>4
<1>. QED
  BY <1>1, <1>3, <1>4

LEMMA WriteStep == ASSUME StreamInv, NEW kind \in Kinds, WriteLine(kind) PROVE StreamInv'
<1>. DEFINE n == Len(lines) + 1
            N == Len(Text)
            more == <<n>> \o EndOfLine
<1>1. /\ lines \in Seq(Kinds) /\ Len(lines) \in Nat /\ n \in 1 .. MaxLines
      /\ lines' \in Seq(Kinds) /\ Len(lines') = n
      /\ \A k \in 1 .. Len(lines) : lines'[k] = lines[k]
  <2>1. lines \in Seq(Kinds) /\ kind \in Kinds
    BY DEF StreamInv, StreamTypeOK
  <2>. QED
    BY <2>1, AppendProperties, LenProperties, StreamAssumption
       DEF WriteLine, StreamAssumption
<1>2. /\ <<n>> \in Seq(Token) /\ Len(<<n>>) = 1 /\ <<n>>[1] = n
      /\ EndOfLine \in Seq(Token)
  <2>1. n \in Token
    BY <1>1 DEF Token
  <2>. QED
    BY <2>1, EndOfLineWritten
<1>3. /\ more \in Seq(Token) /\ Len(more) = 1 + Len(EndOfLine)
      /\ \A i \in 1 .. 1 + Len(EndOfLine) : more[i] = IF i <= 1 THEN n ELSE EndOfLine[i - 1]
  <2>1. /\ more \in Seq(Token) /\ Len(more) = Len(<<n>>) + Len(EndOfLine)
        /\ \A i \in 1 .. Len(<<n>>) + Len(EndOfLine) :
              more[i] = IF i <= Len(<<n>>) THEN <<n>>[i] ELSE EndOfLine[i - Len(<<n>>)]
    BY <1>2, ConcatProperties
  <2>. QED
    BY <1>2, <2>1
<1>4. wire' = wire \o more /\ buffer' = buffer
  <2>1. wire' = (wire \o <<n>>) \o EndOfLine
    BY <1>1 DEF WriteLine
  <2>2. wire \in Seq(Token)
    BY DEF StreamInv, StreamTypeOK
  <2>3. (wire \o <<n>>) \o EndOfLine = wire \o more
    BY <1>2, <2>2, ConcatAssociative
  <2>. QED
    BY <2>1, <2>3 DEF WriteLine
<1>. HIDE DEF more
<1>5. /\ wire' \in Seq(Token) /\ Len(Text') = N + Len(more) /\ N \in Nat
      /\ \A i \in 1 .. Len(Text') : Text'[i] = IF i <= N THEN Text[i] ELSE more[i - N]
      /\ DOMAIN Text' = 1 .. Len(Text')
  <2>1. StreamTypeOK
    BY DEF StreamInv
  <2>2. Text \in Seq(Token) /\ N \in Nat
    BY <2>1, TextElements, TypedText
  <2>3. wire' \in Seq(Token) /\ buffer' \in Seq(Token)
    BY <1>3, <1>4, <2>1, WireGrows DEF StreamTypeOK
  <2>4. Text' \in Seq(Token)
    BY <2>3, ConcatProperties DEF Text
  <2>. QED
    BY <1>3, <1>4, <2>1, <2>2, <2>3, <2>4, WireGrows, LenProperties
<1>. HIDE DEF N
<1>6. /\ \A i \in 1 .. N : Text'[i] = Text[i]
      /\ Text'[N + 1] = n
      /\ \/ lineEnd = "lf" /\ Len(Text') = N + 2 /\ Text'[N + 2] = LF
         \/ lineEnd = "crlf" /\ Len(Text') = N + 3 /\ Text'[N + 2] = CR /\ Text'[N + 3] = LF
  <2>1. /\ \/ lineEnd = "lf" /\ Len(EndOfLine) = 1 /\ EndOfLine[1] = LF
           \/ lineEnd = "crlf" /\ Len(EndOfLine) = 2 /\ EndOfLine[1] = CR /\ EndOfLine[2] = LF
    BY EndOfLineWritten
  <2>2. /\ \A i \in 1 .. N : Text'[i] = Text[i]
        /\ Text'[N + 1] = n /\ Len(EndOfLine) \in Nat
    BY <1>3, <1>5, <2>1
  <2>3. /\ Len(Text') = N + 1 + Len(EndOfLine)
        /\ \A j \in 1 .. Len(EndOfLine) : Text'[N + 1 + j] = EndOfLine[j]
    BY <1>3, <1>5, <2>2
  <2>4. N + 1 + 1 = N + 2 /\ N + 1 + 2 = N + 3
    BY <1>5
  <2>5. Len(EndOfLine) = 1 => Len(Text') = N + 2 /\ Text'[N + 2] = EndOfLine[1]
    BY <1>5, <2>3, <2>4
  <2>6. Len(EndOfLine) = 2 =>
          Len(Text') = N + 3 /\ Text'[N + 2] = EndOfLine[1] /\ Text'[N + 3] = EndOfLine[2]
    BY <1>5, <2>3, <2>4
  <2>. QED
    BY <2>1, <2>2, <2>5, <2>6
<1>7. /\ \A i \in DOMAIN delivered : delivered[i] <= Len(lines)
      /\ \A i \in DOMAIN events : events[i] <= Len(lines)
      /\ DOMAIN Text = 1 .. N /\ ended \in 0 .. Len(lines)
      /\ \A i \in 1 .. N : Text[i] \in Int
      /\ \A i \in DOMAIN delivered : delivered[i] \in Int
      /\ \A i \in DOMAIN events : events[i] \in Int
      /\ delivered \in Seq(1 .. Len(lines)) /\ Len(delivered) \in Nat
  <2>1. StreamTypeOK
    BY DEF StreamInv
  <2>2. Text \in Seq(Token)
    BY <2>1, TextElements
  <2>3. ended \in 0 .. Len(lines) /\ delivered \in Seq(1 .. Len(lines)) /\ events \in Seq(Token)
    BY <2>1 DEF StreamTypeOK
  <2>4. /\ DOMAIN Text = 1 .. N /\ \A i \in 1 .. N : Text[i] \in Int
        /\ \A i \in DOMAIN events : events[i] \in Int
    BY <2>2, <2>3, TypedText DEF N
  <2>5. /\ DOMAIN delivered = 1 .. Len(delivered) /\ Len(delivered) \in Nat
        /\ \A i \in DOMAIN delivered : delivered[i] \in 1 .. Len(lines)
    BY <2>3, LenProperties, ElementOfSeq
  <2>6. \A i \in DOMAIN events : events[i] <= ended
    BY DEF StreamInv, BlankInv
  <2>. QED
    BY <1>1, <2>3, <2>4, <2>5, <2>6
<1>8. \A i \in DOMAIN Text' :
         \/ i \in DOMAIN Text /\ i <= N /\ Text'[i] = Text[i]
         \/ i = N + 1 /\ Text'[i] = n
         \/ i > N + 1 /\ Text'[i] \in Int /\ Text'[i] <= 0
  <2>. TAKE i \in DOMAIN Text'
  <2>1. LF \in Int /\ LF <= 0 /\ CR \in Int /\ CR <= 0
    BY DEF LF, CR
  <2>2. i \in 1 .. N \/ i = N + 1 \/ (i > N + 1 /\ (i = N + 2 \/ (i = N + 3 /\ Len(Text') = N + 3)))
    BY <1>5, <1>6
  <2>3. Len(Text') = N + 2 => Text'[N + 2] = LF
    BY <1>5, <1>6
  <2>4. Len(Text') = N + 3 => Text'[N + 2] = CR /\ Text'[N + 3] = LF
    BY <1>5, <1>6
  <2>5. Len(Text') = N + 2 \/ Len(Text') = N + 3
    BY <1>6
  <2>. QED
    BY <1>5, <1>6, <1>7, <2>1, <2>2, <2>3, <2>4, <2>5
<1>9. /\ reader' = reader /\ events' = events /\ aborted' = aborted /\ lineEnd' = lineEnd
      /\ ended' = ended /\ closed' = closed /\ delivered' = delivered /\ thrown' = thrown
      /\ buffer' = buffer /\ reader \in {"reading", "handling"} /\ n \in Nat /\ n > Len(lines)
  BY <1>1 DEF WriteLine, Listening
<1>10. StreamTypeOK'
  <2>1. delivered' \in Seq(1 .. Len(lines')) /\ Len(delivered') <= Len(lines')
    <3>1. delivered \in Seq(1 .. n)
      <4>. HIDE DEF n
      <4>1. 1 .. Len(lines) \subseteq 1 .. n
        BY <1>1, <1>9
      <4>. QED
        BY <1>7, <4>1, SeqMonotonic
    <3>2. Len(delivered) <= Len(lines)
      BY DEF StreamInv, StreamTypeOK
    <3>. QED
      BY <1>1, <1>7, <1>9, <3>1, <3>2
  <2>2. MaxLines \in Nat /\ n <= MaxLines /\ ended \in 0 .. n
    BY <1>1, <1>7, StreamAssumption DEF StreamAssumption
  <2>3. thrown \subseteq 1 .. Len(lines')
    BY <1>1, <1>9 DEF StreamInv, StreamTypeOK
  <2>. QED
    BY <1>1, <1>5, <1>9, <2>1, <2>2, <2>3 DEF StreamInv, StreamTypeOK
<1>11. OrderInv'
  <2>1. Ascending(delivered)' /\ Ascending(events)' /\ AllBefore(delivered, events)'
        /\ (\A i \in DOMAIN delivered : i <= delivered[i])'
    BY <1>9 DEF StreamInv, OrderInv, Ascending, AllBefore
  <2>2. ASSUME aborted' = "no"
        PROVE  /\ Ascending(Text)' /\ AllBefore(delivered, Text)' /\ AllBefore(events, Text)'
               /\ \A i \in DOMAIN Text' : Text'[i] <= Len(lines')
    <3>1. /\ \A i, j \in DOMAIN Text : i < j /\ Text[j] > 0 => Text[i] < Text[j]
          /\ \A i \in DOMAIN delivered, j \in DOMAIN Text : Text[j] > 0 => delivered[i] < Text[j]
          /\ \A i \in DOMAIN events, j \in DOMAIN Text : Text[j] > 0 => events[i] < Text[j]
          /\ \A i \in DOMAIN Text : Text[i] <= Len(lines)
      BY <1>9, <2>2 DEF StreamInv, OrderInv, Ascending, AllBefore
    <3>. HIDE DEF n
    <3>2. \A i \in DOMAIN Text' : Text'[i] <= n
      BY <1>1, <1>7, <1>8, <1>9, <3>1
    <3>3. \A i, j \in DOMAIN Text' : i < j /\ Text'[j] > 0 => Text'[i] < Text'[j]
      <4>. SUFFICES ASSUME NEW i \in DOMAIN Text', NEW j \in DOMAIN Text', i < j, Text'[j] > 0
                    PROVE  Text'[i] < Text'[j]
        OBVIOUS
      <4>0. N \in Nat /\ i \in Nat /\ j \in Nat /\ Len(lines) \in Nat /\ n \in Nat /\ Len(lines) < n
        BY <1>1, <1>5, <1>9
      <4>1. (j \in DOMAIN Text /\ j <= N /\ Text'[j] = Text[j]) \/ (j = N + 1 /\ Text'[j] = n)
        BY <1>8
      <4>2. i <= N
        BY <4>0, <4>1
      <4>3. i \in DOMAIN Text /\ Text'[i] = Text[i]
        BY <1>8, <4>0, <4>2
      <4>4. Text[i] \in Int
        BY <1>7, <4>3
      <4>. QED
        BY <3>1, <4>0, <4>1, <4>3, <4>4
    <3>4. /\ \A i \in DOMAIN delivered, j \in DOMAIN Text' :
                Text'[j] > 0 => delivered[i] < Text'[j]
          /\ \A i \in DOMAIN events, j \in DOMAIN Text' : Text'[j] > 0 => events[i] < Text'[j]
      <4>. SUFFICES ASSUME NEW j \in DOMAIN Text', Text'[j] > 0
                    PROVE  /\ \A i \in DOMAIN delivered : delivered[i] < Text'[j]
                           /\ \A i \in DOMAIN events : events[i] < Text'[j]
        OBVIOUS
      <4>0. Len(lines) \in Nat /\ n \in Nat /\ Len(lines) < n
        BY <1>1, <1>9
      <4>1. (j \in DOMAIN Text /\ Text'[j] = Text[j]) \/ Text'[j] = n
        BY <1>8
      <4>2. CASE Text'[j] = n
        BY <1>7, <4>0, <4>2
      <4>. QED
        BY <3>1, <4>1, <4>2
    <3>. QED
      BY <1>1, <1>9, <3>2, <3>3, <3>4 DEF Ascending, AllBefore
  <2>. QED
    BY <2>1, <2>2 DEF OrderInv
<1>12. GapInv'
  <2>. HIDE DEF n
  <2>1. \A k \in 1 .. Len(lines) : Handled(k)' <=> Handled(k)
    BY <1>1, <1>9 DEF Handled, Seen
  <2>2. \A i \in DOMAIN delivered' : \A k \in 1 .. delivered'[i] : Handled(k)'
    BY <1>1, <1>7, <1>9, <2>1 DEF StreamInv, GapInv
  <2>3. \A i \in DOMAIN events' : \A k \in 1 .. events'[i] : Handled(k)' \/ k \in Range(events')
    BY <1>1, <1>7, <1>9, <2>1 DEF StreamInv, GapInv
  <2>4. \A k : k \in Range(Text) => k \in Range(Text')
    BY <1>5, <1>6, <1>7 DEF Range
  <2>5. \A k \in 1 .. Len(lines) : Accounted(k) => Accounted(k)'
    BY <1>9, <2>1, <2>4 DEF Accounted
  <2>6. \A k : k = n => Accounted(k)'
    <3>1. N + 1 \in DOMAIN Text'
      BY <1>5, <1>6
    <3>2. n \in Range(Text')
      BY <1>6, <3>1 DEF Range
    <3>. QED
      BY <3>2 DEF Accounted
  <2>7. ASSUME aborted' = "no", NEW i \in DOMAIN Text', NEW k \in 1 .. Text'[i]
        PROVE  Accounted(k)'
    <3>1. /\ \A a \in DOMAIN Text : \A b \in 1 .. Text[a] : Accounted(b)
          /\ closed # "broken" => \A b \in 1 .. Len(lines) : Accounted(b)
          /\ \A a \in DOMAIN Text : Text[a] <= Len(lines)
      BY <1>9, <2>7 DEF StreamInv, OrderInv, GapInv
    <3>2. closed = "no"
      BY DEF WriteLine
    <3>3. k = n \/ k \in 1 .. Len(lines)
      <4>0. Len(lines) \in Nat /\ n \in Nat
        BY <1>1, <1>9
      <4>1. (i \in DOMAIN Text /\ Text'[i] = Text[i]) \/ Text'[i] = n
            \/ (Text'[i] \in Int /\ Text'[i] <= 0)
        BY <1>8, <2>7
      <4>2. Text'[i] = n \/ (Text'[i] \in Int /\ Text'[i] <= Len(lines))
        BY <1>7, <3>1, <4>0, <4>1
      <4>3. k \in Int /\ 1 <= k /\ k <= Text'[i]
        BY <2>7, <4>0, <4>2
      <4>4. n = Len(lines) + 1
        BY DEF n
      <4>. QED
        BY <4>0, <4>2, <4>3, <4>4
    <3>. QED
      BY <2>5, <2>6, <3>1, <3>2, <3>3
  <2>8. ASSUME aborted' = "no", closed' # "broken", NEW k \in 1 .. Len(lines')
        PROVE  Accounted(k)'
    <3>1. k \in 1 .. Len(lines) => Accounted(k)
      BY <1>9, <2>8 DEF StreamInv, GapInv
    <3>2. k = n \/ k \in 1 .. Len(lines)
      BY <1>1, <1>9 DEF n
    <3>. QED
      BY <2>5, <2>6, <3>1, <3>2
  <2>. QED
    BY <2>2, <2>3, <2>7, <2>8 DEF GapInv
<1>13. BlankInv'
  <2>. HIDE DEF n
  <2>1. /\ \A i \in DOMAIN events' : events'[i] <= ended'
        /\ \A i \in DOMAIN delivered' : delivered'[i] <= ended'
        /\ \A i \in 1 .. Len(buffer') : ~Blank(buffer', i)
        /\ lineEnd' = "crlf" => events' = <<>> /\ delivered' = <<>>
    BY <1>9 DEF StreamInv, BlankInv, Blank
  <2>2. ASSUME aborted' = "no", NEW i \in DOMAIN Text', Blank(Text', i)
        PROVE  i \in DOMAIN Text /\ Blank(Text, i)
    <3>1. i \in 1 .. Len(Text') - 1 /\ Text'[i] = LF /\ Text'[i + 1] = LF /\ LF # CR /\ LF # n
      BY <1>1, <1>9, <2>2 DEF Blank, LF, CR
    <3>2. i # N + 1 /\ i + 1 # N + 1
      BY <1>6, <3>1
    <3>3. i # N + 2
      <4>1. (N + 2) + 1 = N + 3
        BY <1>5
      <4>. QED
        BY <1>5, <1>6, <3>1, <4>1
    <3>4. i \in 1 .. N - 1
      BY <1>5, <1>6, <3>1, <3>2, <3>3
    <3>5. Text[i] = LF /\ Text[i + 1] = LF
      BY <1>5, <1>6, <3>1, <3>4
    <3>. QED
      BY <1>5, <1>7, <3>4, <3>5 DEF Blank, N
  <2>3. \A i \in DOMAIN Text : Blank(Text, i) => Blank(Text', i) /\ i \in DOMAIN Text'
    BY <1>5, <1>6, <1>7 DEF Blank, N
  <2>4. ASSUME aborted' = "no", NEW i \in DOMAIN Text', Blank(Text', i), NEW j \in 1 .. i
        PROVE  Text'[j] <= ended'
    <3>1. Blank(Text, i) /\ i \in DOMAIN Text
      BY <2>2, <2>4
    <3>2. Text[j] <= ended
      BY <1>9, <2>4, <3>1 DEF StreamInv, BlankInv
    <3>3. j \in 1 .. N
      BY <1>5, <1>7, <2>4, <3>1
    <3>. QED
      BY <1>6, <1>9, <3>2, <3>3
  <2>5. ASSUME aborted' = "no", lineEnd' = "crlf", NEW i \in 1 .. Len(Text') - 1,
               Text'[i + 1] = LF
        PROVE  Text'[i] = CR
    <3>1. \A a \in 1 .. N - 1 : Text[a + 1] = LF => Text[a] = CR
      BY <1>9, <2>5 DEF StreamInv, BlankInv, N
    <3>2. Len(Text') = N + 3 /\ Text'[N + 2] = CR
      BY <1>6, <1>9, <2>5
    <3>3. i + 1 <= N \/ i = N \/ i = N + 1 \/ i = N + 2
      BY <1>5, <3>2
    <3>4. i # N
      BY <1>1, <1>6, <1>9, <2>5 DEF LF
    <3>5. i # N + 1
      <4>1. (N + 1) + 1 = N + 2 /\ LF # CR
        BY <1>5 DEF LF, CR
      <4>. QED
        BY <2>5, <3>2, <4>1
    <3>6. i + 1 <= N => Text'[i] = Text[i] /\ Text'[i + 1] = Text[i + 1] /\ i \in 1 .. N - 1
      BY <1>5, <1>6
    <3>. QED
      BY <2>5, <3>1, <3>2, <3>3, <3>4, <3>5, <3>6
  <2>6. ASSUME aborted' = "no", closed' # "broken", lineEnd' = "lf"
        PROVE  /\ Text' # <<>> => Text'[Len(Text')] = LF
               /\ \A j \in DOMAIN Text' :
                    Text'[j] \in 1 .. ended' => \E i \in DOMAIN Text' : j < i /\ Blank(Text', i)
    <3>1. \A j \in DOMAIN Text :
             Text[j] \in 1 .. ended => \E i \in DOMAIN Text : j < i /\ Blank(Text, i)
      BY <1>9, <2>6 DEF StreamInv, BlankInv
    <3>2. Text'[Len(Text')] = LF
      BY <1>6, <1>9, <2>6
    <3>3. ASSUME NEW j \in DOMAIN Text', Text'[j] \in 1 .. ended'
          PROVE  \E i \in DOMAIN Text' : j < i /\ Blank(Text', i)
      <4>1. j \in DOMAIN Text /\ Text'[j] = Text[j]
        BY <1>1, <1>7, <1>8, <1>9, <3>3
      <4>2. PICK i \in DOMAIN Text : j < i /\ Blank(Text, i)
        BY <1>9, <3>1, <3>3, <4>1
      <4>. QED
        BY <2>3, <4>2
    <3>. QED
      BY <3>2, <3>3
  <2>. QED
    BY <2>1, <2>4, <2>5, <2>6 DEF BlankInv
<1>14. EndInv'
  <2>1. \A i \in DOMAIN delivered : lines'[delivered[i]] = lines[delivered[i]]
    BY <1>1, <1>7, ElementOfSeq, LenProperties
  <2>. QED
    BY <1>9, <2>1 DEF StreamInv, EndInv, ReturnsComplete
<1>. QED
  BY <1>10, <1>11, <1>12, <1>13, <1>14 DEF StreamInv

LEMMA EndEventStep == ASSUME StreamInv, EndEvent PROVE StreamInv'
<1>. DEFINE N == Len(Text)
<1>1. /\ reader' = reader /\ events' = events /\ aborted' = aborted /\ lineEnd' = lineEnd
      /\ lines' = lines /\ closed' = closed /\ delivered' = delivered /\ thrown' = thrown
      /\ buffer' = buffer /\ reader \in {"reading", "handling"}
      /\ ended' = Len(lines) /\ wire' = wire \o EndOfLine
  BY DEF EndEvent, Listening
<1>2. /\ EndOfLine \in Seq(Token)
      /\ \/ lineEnd = "lf" /\ Len(EndOfLine) = 1 /\ EndOfLine[1] = LF
         \/ lineEnd = "crlf" /\ Len(EndOfLine) = 2 /\ EndOfLine[1] = CR /\ EndOfLine[2] = LF
  BY EndOfLineWritten
<1>3. /\ wire' \in Seq(Token) /\ Len(Text') = N + Len(EndOfLine) /\ N \in Nat
      /\ \A i \in 1 .. Len(Text') : Text'[i] = IF i <= N THEN Text[i] ELSE EndOfLine[i - N]
      /\ DOMAIN Text' = 1 .. Len(Text') /\ DOMAIN Text = 1 .. N
      /\ \A i \in 1 .. N : Text[i] \in Int
  <2>1. StreamTypeOK
    BY DEF StreamInv
  <2>2. Text \in Seq(Token) /\ N \in Nat
    BY <2>1, TextElements, TypedText
  <2>3. wire' \in Seq(Token) /\ buffer' \in Seq(Token)
    BY <1>1, <1>2, <2>1, WireGrows DEF StreamTypeOK
  <2>4. Text' \in Seq(Token)
    BY <2>3, ConcatProperties DEF Text
  <2>. QED
    BY <1>1, <1>2, <2>1, <2>2, <2>3, <2>4, WireGrows, TypedText
<1>. HIDE DEF N
<1>4. /\ \A i \in 1 .. N : Text'[i] = Text[i]
      /\ \/ lineEnd = "lf" /\ Len(Text') = N + 1 /\ Text'[N + 1] = LF
         \/ lineEnd = "crlf" /\ Len(Text') = N + 2 /\ Text'[N + 1] = CR /\ Text'[N + 2] = LF
  <2>1. /\ \A i \in 1 .. N : Text'[i] = Text[i]
        /\ \A j \in 1 .. Len(EndOfLine) : Text'[N + j] = EndOfLine[j]
    BY <1>2, <1>3
  <2>2. Len(EndOfLine) = 1 => Len(Text') = N + 1 /\ Text'[N + 1] = EndOfLine[1]
    BY <1>3, <2>1
  <2>3. Len(EndOfLine) = 2 =>
          Len(Text') = N + 2 /\ Text'[N + 1] = EndOfLine[1] /\ Text'[N + 2] = EndOfLine[2]
    BY <1>3, <2>1
  <2>. QED
    BY <1>2, <2>1, <2>2, <2>3
<1>5. \A i \in DOMAIN Text' :
         \/ i \in DOMAIN Text /\ i <= N /\ Text'[i] = Text[i]
         \/ i > N /\ Text'[i] \in Int /\ Text'[i] <= 0
  <2>. TAKE i \in DOMAIN Text'
  <2>1. LF \in Int /\ LF <= 0 /\ CR \in Int /\ CR <= 0
    BY DEF LF, CR
  <2>2. i \in 1 .. N \/ (i > N /\ (i = N + 1 \/ (i = N + 2 /\ Len(Text') = N + 2)))
    BY <1>3, <1>4
  <2>3. Text'[N + 1] \in {LF, CR} /\ (Len(Text') = N + 2 => Text'[N + 2] = LF)
    BY <1>3, <1>4
  <2>. QED
    BY <1>3, <1>4, <2>1, <2>2, <2>3
<1>6. StreamTypeOK'
  BY <1>1, <1>3, LenProperties DEF StreamInv, StreamTypeOK
<1>7. Len(lines) \in Nat /\ ended \in Nat /\ ended <= Len(lines)
  BY LenProperties DEF StreamInv, StreamTypeOK
<1>8. OrderInv'
  <2>1. Ascending(delivered)' /\ Ascending(events)' /\ AllBefore(delivered, events)'
        /\ (\A i \in DOMAIN delivered : i <= delivered[i])'
    BY <1>1 DEF StreamInv, OrderInv, Ascending, AllBefore
  <2>2. ASSUME aborted' = "no"
        PROVE  /\ Ascending(Text)' /\ AllBefore(delivered, Text)' /\ AllBefore(events, Text)'
               /\ \A i \in DOMAIN Text' : Text'[i] <= Len(lines')
    <3>1. /\ \A i, j \in DOMAIN Text : i < j /\ Text[j] > 0 => Text[i] < Text[j]
          /\ \A i \in DOMAIN delivered, j \in DOMAIN Text : Text[j] > 0 => delivered[i] < Text[j]
          /\ \A i \in DOMAIN events, j \in DOMAIN Text : Text[j] > 0 => events[i] < Text[j]
          /\ \A i \in DOMAIN Text : Text[i] <= Len(lines)
      BY <1>1, <2>2 DEF StreamInv, OrderInv, Ascending, AllBefore
    <3>2. \A j \in DOMAIN Text' :
             Text'[j] > 0 => j \in DOMAIN Text /\ j <= N /\ Text'[j] = Text[j]
      BY <1>5
    <3>3. ASSUME NEW i \in DOMAIN Text', NEW j \in DOMAIN Text', i < j, Text'[j] > 0
          PROVE  Text'[i] < Text'[j]
      <4>1. j \in DOMAIN Text /\ j <= N /\ Text'[j] = Text[j]
        BY <3>2, <3>3
      <4>2. i \in 1 .. N
        BY <1>3, <3>3, <4>1
      <4>. QED
        BY <1>3, <1>4, <3>1, <3>3, <4>1, <4>2
    <3>4. \A i \in DOMAIN Text' : Text'[i] <= Len(lines')
      BY <1>1, <1>5, <1>7, <3>1
    <3>. QED
      BY <1>1, <3>1, <3>2, <3>3, <3>4 DEF Ascending, AllBefore
  <2>. QED
    BY <2>1, <2>2 DEF OrderInv
<1>9. GapInv'
  <2>1. \A k : Handled(k)' <=> Handled(k)
    BY <1>1 DEF Handled, Seen
  <2>2. \A k : k \in Range(Text) => k \in Range(Text')
    BY <1>3, <1>4 DEF Range
  <2>3. \A k : Accounted(k) => Accounted(k)'
    BY <1>1, <2>1, <2>2 DEF Accounted
  <2>4. ASSUME aborted' = "no", NEW i \in DOMAIN Text', NEW k \in 1 .. Text'[i]
        PROVE  Accounted(k)'
    <3>1. \A a \in DOMAIN Text : \A b \in 1 .. Text[a] : Accounted(b)
      BY <1>1, <2>4 DEF StreamInv, GapInv
    <3>2. i \in DOMAIN Text /\ Text'[i] = Text[i]
      <4>1. ~(Text'[i] \in Int /\ Text'[i] <= 0)
        BY <2>4
      <4>. QED
        BY <1>5, <4>1
    <3>. QED
      BY <2>3, <2>4, <3>1, <3>2
  <2>5. /\ \A i \in DOMAIN delivered' : \A k \in 1 .. delivered'[i] : Handled(k)'
        /\ \A i \in DOMAIN events' : \A k \in 1 .. events'[i] : Handled(k)' \/ k \in Range(events')
        /\ aborted' = "no" /\ closed' # "broken" => \A k \in 1 .. Len(lines') : Accounted(k)'
    BY <1>1, <2>1, <2>3 DEF StreamInv, GapInv
  <2>. QED
    BY <2>4, <2>5 DEF GapInv
<1>10. BlankInv'
  <2>1. /\ \A i \in DOMAIN events' : events'[i] <= ended'
        /\ \A i \in DOMAIN delivered' : delivered'[i] <= ended'
    <3>1. /\ \A i \in DOMAIN events : events[i] \in Int
          /\ \A i \in DOMAIN delivered : delivered[i] \in Int
      <4>1. events \in Seq(Token) /\ delivered \in Seq(1 .. Len(lines))
        BY DEF StreamInv, StreamTypeOK
      <4>2. \A i \in DOMAIN delivered : delivered[i] \in 1 .. Len(lines)
        BY <4>1, LenProperties, ElementOfSeq
      <4>. QED
        BY <4>1, <4>2, TypedText
    <3>2. /\ \A i \in DOMAIN events : events[i] <= ended
          /\ \A i \in DOMAIN delivered : delivered[i] <= ended
      BY DEF StreamInv, BlankInv
    <3>. QED
      BY <1>1, <1>7, <3>1, <3>2
  <2>2. /\ \A i \in 1 .. Len(buffer') : ~Blank(buffer', i)
        /\ lineEnd' = "crlf" => events' = <<>> /\ delivered' = <<>>
    BY <1>1 DEF StreamInv, BlankInv, Blank
  <2>3. \A i \in DOMAIN Text : Blank(Text, i) => Blank(Text', i) /\ i \in DOMAIN Text'
    BY <1>3, <1>4 DEF Blank, N
  <2>4. ASSUME aborted' = "no", NEW i \in DOMAIN Text', Blank(Text', i), NEW j \in 1 .. i
        PROVE  Text'[j] <= ended'
    <3>1. j \in DOMAIN Text'
      BY <1>3, <2>4 DEF Blank
    <3>. QED
      BY <1>1, <1>8, <2>4, <3>1 DEF OrderInv
  <2>5. ASSUME aborted' = "no", lineEnd' = "crlf", NEW i \in 1 .. Len(Text') - 1,
               Text'[i + 1] = LF
        PROVE  Text'[i] = CR
    <3>1. \A a \in 1 .. N - 1 : Text[a + 1] = LF => Text[a] = CR
      BY <1>1, <2>5 DEF StreamInv, BlankInv, N
    <3>2. Len(Text') = N + 2 /\ Text'[N + 1] = CR
      BY <1>1, <1>4, <2>5
    <3>3. i + 1 <= N \/ i = N \/ i = N + 1
      BY <1>3, <3>2
    <3>4. i # N
      BY <2>5, <3>2 DEF LF, CR
    <3>5. i + 1 <= N => Text'[i] = Text[i] /\ Text'[i + 1] = Text[i + 1] /\ i \in 1 .. N - 1
      BY <1>3, <1>4
    <3>. QED
      BY <2>5, <3>1, <3>2, <3>3, <3>4, <3>5
  <2>6. ASSUME aborted' = "no", closed' # "broken", lineEnd' = "lf"
        PROVE  /\ Text' # <<>> => Text'[Len(Text')] = LF
               /\ \A j \in DOMAIN Text' :
                    Text'[j] \in 1 .. ended' => \E i \in DOMAIN Text' : j < i /\ Blank(Text', i)
    <3>1. Text # <<>> => Text[N] = LF
      BY <1>1, <2>6 DEF StreamInv, BlankInv, N
    <3>2. Len(Text') = N + 1 /\ Text'[N + 1] = LF
      BY <1>1, <1>4, <2>6
    <3>3. ASSUME NEW j \in DOMAIN Text', Text'[j] \in 1 .. ended'
          PROVE  \E i \in DOMAIN Text' : j < i /\ Blank(Text', i)
      <4>1. j \in 1 .. N /\ Text'[j] = Text[j] /\ Text[j] # LF
        <5>1. Text'[j] \in Int /\ Text'[j] > 0
          BY <1>1, <1>7, <3>3
        <5>. QED
          BY <1>3, <1>5, <5>1 DEF LF
      <4>2. Text # <<>>
        BY <1>3, <4>1
      <4>3. Text[N] = LF /\ j < N /\ N \in 1 .. N
        BY <1>3, <3>1, <4>1, <4>2
      <4>4. Blank(Text', N) /\ N \in DOMAIN Text'
        BY <1>3, <1>4, <3>2, <4>3 DEF Blank
      <4>. QED
        BY <4>3, <4>4
    <3>. QED
      BY <3>2, <3>3
  <2>. QED
    BY <2>1, <2>2, <2>4, <2>5, <2>6 DEF BlankInv
<1>11. EndInv'
  BY <1>1 DEF StreamInv, EndInv, ReturnsComplete
<1>. QED
  BY <1>6, <1>8, <1>9, <1>10, <1>11 DEF StreamInv

\* A broken connection leaves the text of the buffer.
LEMMA CloseStep == ASSUME StreamInv, NEW how \in {"end", "broken"}, Close(how) PROVE StreamInv'
<1>1. /\ reader' = reader /\ events' = events /\ aborted' = aborted /\ lineEnd' = lineEnd
      /\ lines' = lines /\ delivered' = delivered /\ thrown' = thrown /\ ended' = ended
      /\ buffer' = buffer /\ reader \in {"reading", "handling"} /\ closed = "no" /\ closed' = how
  BY DEF Close, Listening
<1>2. StreamTypeOK /\ StreamTypeOK'
  BY <1>1, EmptySeq DEF StreamInv, StreamTypeOK, Close
<1>3. EndInv'
  BY <1>1 DEF StreamInv, EndInv, ReturnsComplete
<1>4. CASE how = "end"
  <2>1. wire' = wire /\ Text' = Text
    BY <1>1, <1>4 DEF Close, Text
  <2>2. OrderInv'
    BY <1>1, <2>1 DEF StreamInv, OrderInv, Ascending, AllBefore
  <2>3. GapInv'
    BY <1>1, <2>1 DEF StreamInv, GapInv, Handled, Accounted, Seen
  <2>4. BlankInv'
    BY <1>1, <2>1 DEF StreamInv, BlankInv, Blank
  <2>. QED
    BY <1>2, <1>3, <2>2, <2>3, <2>4 DEF StreamInv
<1>5. CASE how = "broken"
  <2>1. Text' = buffer
    BY <1>1, <1>2, <1>5, ConcatEmptySeq DEF Close, Text, StreamTypeOK
  <2>2. /\ Len(buffer) \in Nat /\ DOMAIN buffer = 1 .. Len(buffer) /\ Len(buffer) <= Len(Text)
        /\ DOMAIN Text = 1 .. Len(Text) /\ Len(Text) \in Nat
        /\ \A i \in DOMAIN Text : Text[i] \in Int
        /\ \A i \in 1 .. Len(buffer) : buffer[i] = Text[i]
    <3>1. /\ Text \in Seq(Token) /\ Len(Text) = Len(buffer) + Len(wire)
          /\ \A i \in 1 .. Len(Text) : Text[i] =
                IF i <= Len(buffer) THEN buffer[i] ELSE wire[i - Len(buffer)]
      BY <1>2, TextElements
    <3>2. Len(buffer) \in Nat /\ DOMAIN buffer = 1 .. Len(buffer) /\ Len(wire) \in Nat
      BY <1>2, LenProperties DEF StreamTypeOK
    <3>. QED
      BY <3>1, <3>2, TypedText
  <2>3. OrderInv'
    <3>1. Ascending(delivered)' /\ Ascending(events)' /\ AllBefore(delivered, events)'
          /\ (\A i \in DOMAIN delivered : i <= delivered[i])'
      BY <1>1 DEF StreamInv, OrderInv, Ascending, AllBefore
    <3>2. ASSUME aborted' = "no"
          PROVE  /\ Ascending(Text)' /\ AllBefore(delivered, Text)' /\ AllBefore(events, Text)'
                 /\ \A i \in DOMAIN Text' : Text'[i] <= Len(lines')
      <4>1. /\ Ascending(Text) /\ AllBefore(delivered, Text) /\ AllBefore(events, Text)
            /\ \A i \in DOMAIN Text : Text[i] <= Len(lines)
        BY <1>1, <3>2 DEF StreamInv, OrderInv
      <4>2. \A i \in DOMAIN Text' : i \in DOMAIN Text /\ Text'[i] = Text[i]
        BY <2>1, <2>2
      <4>. QED
        BY <1>1, <4>1, <4>2 DEF Ascending, AllBefore
    <3>. QED
      BY <3>1, <3>2 DEF OrderInv
  <2>4. GapInv'
    <3>1. \A k : Handled(k)' <=> Handled(k)
      BY <1>1 DEF Handled, Seen
    <3>2. ASSUME aborted' = "no", NEW i \in DOMAIN Text', NEW k \in 1 .. Text'[i]
          PROVE  Accounted(k)'
      <4>1. i \in DOMAIN Text /\ Text'[i] = Text[i] /\ i <= Len(buffer)
        BY <2>1, <2>2
      <4>2. Accounted(k)
        BY <1>1, <3>2, <4>1 DEF StreamInv, GapInv
      <4>3. CASE k \in Range(Text)
        <5>1. PICK p \in DOMAIN Text : Text[p] = k
          BY <4>3 DEF Range
        <5>2. ~(i < p)
          <6>1. i < p /\ Text[p] > 0 => Text[i] < Text[p]
            BY <1>1, <3>2, <4>1 DEF StreamInv, OrderInv, Ascending
          <6>2. k > 0 /\ k <= Text[i] /\ Text[i] \in Int
            BY <2>2, <3>2, <4>1
          <6>. QED
            BY <2>2, <5>1, <6>1, <6>2
        <5>3. p \in DOMAIN Text' /\ Text'[p] = k
          BY <2>1, <2>2, <4>1, <5>1, <5>2
        <5>. QED
          BY <5>3 DEF Accounted, Range
      <4>. QED
        BY <1>1, <3>1, <4>2, <4>3 DEF Accounted
    <3>. QED
      BY <1>1, <1>5, <3>1, <3>2 DEF StreamInv, GapInv
  <2>5. BlankInv'
    <3>1. /\ \A i \in DOMAIN events' : events'[i] <= ended'
          /\ \A i \in DOMAIN delivered' : delivered'[i] <= ended'
          /\ \A i \in 1 .. Len(buffer') : ~Blank(buffer', i)
          /\ lineEnd' = "crlf" => events' = <<>> /\ delivered' = <<>>
      BY <1>1 DEF StreamInv, BlankInv, Blank
    <3>2. \A i \in DOMAIN Text' : ~Blank(Text', i)
      BY <1>1, <2>1, <2>2, <3>1
    <3>3. ASSUME aborted' = "no", lineEnd' = "crlf", NEW i \in 1 .. Len(Text') - 1,
                 Text'[i + 1] = LF
          PROVE  Text'[i] = CR
      <4>1. /\ i \in 1 .. Len(Text) - 1 /\ Text[i + 1] = Text'[i + 1] /\ Text[i] = Text'[i]
        BY <2>1, <2>2, <3>3
      <4>. QED
        BY <1>1, <3>3, <4>1 DEF StreamInv, BlankInv
    <3>. QED
      BY <1>1, <1>5, <3>1, <3>2, <3>3 DEF BlankInv
  <2>. QED
    BY <1>2, <1>3, <2>3, <2>4, <2>5 DEF StreamInv
<1>. QED
  BY <1>4, <1>5

LEMMA ChunkStep == ASSUME StreamInv, NEW n \in 1 .. Len(wire), ReadChunk(n) PROVE StreamInv'
<1>1. /\ reader = "reading" /\ reader' = "handling" /\ aborted = "no" /\ aborted' = "no"
      /\ lineEnd' = lineEnd /\ lines' = lines /\ ended' = ended /\ closed' = closed
      /\ delivered' = delivered /\ thrown' = thrown
  BY DEF ReadChunk, server
<1>2. StreamTypeOK /\ events = <<>>
  BY <1>1 DEF StreamInv, EndInv
<1>3. PICK c \in Nat, off \in Nat :
        /\ off = IF c = 0 THEN 0 ELSE c + 1
        /\ c # 0 => Blank(Text, c)
        /\ events' \in Seq(Token) /\ Len(events') = c
        /\ \A i \in 1 .. c : events'[i] = Text[i]
        /\ buffer' \in Seq(Token) /\ wire' \in Seq(Token)
        /\ Len(Text') = Len(Text) - off
        /\ \A i \in 1 .. Len(Text') : Text'[i] = Text[off + i]
        /\ \A i \in 1 .. Len(buffer') : ~Blank(buffer', i)
  BY <1>2, ChunkRead
<1>4. StreamTypeOK'
  BY <1>1, <1>2, <1>3 DEF StreamTypeOK
<1>5. /\ DOMAIN Text = 1 .. Len(Text) /\ Len(Text) \in Nat
      /\ \A i \in DOMAIN Text : Text[i] \in Int
      /\ DOMAIN Text' = 1 .. Len(Text') /\ DOMAIN events' = 1 .. c
  <2>1. Text \in Seq(Token) /\ Text' \in Seq(Token)
    BY <1>2, <1>4, TextElements, ConcatProperties DEF Text, StreamTypeOK
  <2>. QED
    BY <1>3, <2>1, TypedText
<1>0. /\ c \in Nat /\ off \in Nat /\ ((c = 0 /\ off = 0) \/ (c > 0 /\ off = c + 1))
      /\ Len(Text) \in Nat /\ Len(Text') \in Nat /\ Len(Text') = Len(Text) - off
      /\ DOMAIN Text = 1 .. Len(Text) /\ DOMAIN Text' = 1 .. Len(Text')
      /\ DOMAIN events' = 1 .. c
  <2>1. Text' \in Seq(Token)
    BY <1>3, ConcatProperties DEF Text
  <2>2. Len(Text') \in Nat
    BY <2>1, LenProperties
  <2>3. c \in Nat /\ off \in Nat /\ off = IF c = 0 THEN 0 ELSE c + 1
    BY <1>3
  <2>4. (c = 0 /\ off = 0) \/ (c > 0 /\ off = c + 1)
    BY <2>3
  <2>5. Len(Text') = Len(Text) - off
    BY <1>3
  <2>6. DOMAIN Text = 1 .. Len(Text) /\ DOMAIN Text' = 1 .. Len(Text') /\ Len(Text) \in Nat
        /\ DOMAIN events' = 1 .. c
    BY <1>5
  <2>. QED
    BY <2>2, <2>3, <2>4, <2>5, <2>6, Zenon
<1>6. /\ \A i \in DOMAIN events' : i \in DOMAIN Text /\ i <= c /\ events'[i] = Text[i]
      /\ \A i \in DOMAIN Text' :
            off + i \in DOMAIN Text /\ off + i > c /\ Text'[i] = Text[off + i]
  <2>1. c # 0 => c \in 1 .. Len(Text) - 1
    BY <1>3 DEF Blank
  <2>2. c <= Len(Text) /\ off <= Len(Text)
    BY <1>0, <2>1
  <2>3. \A i \in DOMAIN events' : i \in DOMAIN Text /\ i <= c
    BY <1>0, <2>2
  <2>4. \A i \in DOMAIN Text' : off + i \in DOMAIN Text /\ off + i > c
    BY <1>0
  <2>5. \A i \in DOMAIN events' : events'[i] = Text[i]
    <3>1. \A i \in 1 .. c : events'[i] = Text[i]
      BY <1>3
    <3>. QED
      BY <1>0, <3>1
  <2>6. \A i \in DOMAIN Text' : Text'[i] = Text[off + i]
    <3>1. \A i \in 1 .. Len(Text') : Text'[i] = Text[off + i]
      BY <1>3
    <3>. QED
      BY <1>0, <3>1
  <2>. QED
    BY <2>3, <2>4, <2>5, <2>6
<1>7. /\ Ascending(Text) /\ AllBefore(delivered, Text)
      /\ \A i \in DOMAIN Text : Text[i] <= Len(lines)
      /\ \A i \in DOMAIN Text : \A k \in 1 .. Text[i] : Handled(k) \/ k \in Range(Text)
      /\ closed # "broken" => \A k \in 1 .. Len(lines) : Handled(k) \/ k \in Range(Text)
  <2>1. \A k : Accounted(k) => Handled(k) \/ k \in Range(Text)
    BY <1>2 DEF Accounted, Range
  <2>. QED
    BY <1>1, <2>1 DEF StreamInv, OrderInv, GapInv
<1>8. OrderInv'
  <2>1. Ascending(delivered)' /\ (\A i \in DOMAIN delivered : i <= delivered[i])'
    BY <1>1 DEF StreamInv, OrderInv, Ascending
  <2>2. Ascending(events') /\ AllBefore(delivered', events')
    BY <1>1, <1>6, <1>7 DEF Ascending, AllBefore
  <2>3. Ascending(Text')
    <3>. SUFFICES ASSUME NEW i \in DOMAIN Text', NEW j \in DOMAIN Text', i < j, Text'[j] > 0
                  PROVE  Text'[i] < Text'[j]
      BY DEF Ascending
    <3>1. off + i < off + j
      BY <1>0
    <3>. QED
      BY <1>6, <1>7, <3>1 DEF Ascending
  <2>4. AllBefore(delivered', Text') /\ AllBefore(events', Text')
    <3>1. \A i \in DOMAIN events', j \in DOMAIN Text' : i < off + j
      BY <1>0
    <3>. QED
      BY <1>1, <1>6, <1>7, <3>1 DEF Ascending, AllBefore
  <2>5. \A i \in DOMAIN Text' : Text'[i] <= Len(lines')
    BY <1>1, <1>6, <1>7
  <2>. QED
    BY <2>1, <2>2, <2>3, <2>4, <2>5 DEF OrderInv
<1>9. \A k \in Range(Text) : k > 0 => k \in Range(events') \/ k \in Range(Text')
  <2>. SUFFICES ASSUME NEW p \in DOMAIN Text, Text[p] > 0
                PROVE  Text[p] \in Range(events') \/ Text[p] \in Range(Text')
    BY DEF Range
  <2>1. CASE p <= c
    <3>1. p \in DOMAIN events' /\ events'[p] = Text[p]
      BY <1>0, <1>6, <2>1
    <3>. QED
      BY <3>1 DEF Range
  <2>2. CASE p > off
    <3>1. p - off \in DOMAIN Text' /\ off + (p - off) = p
      BY <1>0, <2>2
    <3>2. Text'[p - off] = Text[p]
      BY <1>6, <3>1
    <3>. QED
      BY <3>1, <3>2 DEF Range
  <2>3. CASE p = c + 1 /\ c # 0
    BY <1>3, <2>3 DEF Blank, LF
  <2>. QED
    BY <1>0, <2>1, <2>2, <2>3
<1>10. GapInv'
  <2>1. \A k : Handled(k)' <=> Handled(k)
    BY <1>1 DEF Handled, Seen
  <2>2. \A k : (k > 0 /\ (Handled(k) \/ k \in Range(Text))) => Accounted(k)'
    BY <1>9, <2>1 DEF Accounted
  <2>3. \A i \in DOMAIN delivered' : \A k \in 1 .. delivered'[i] : Handled(k)'
    BY <1>1, <2>1 DEF StreamInv, GapInv
  <2>4. ASSUME NEW i \in DOMAIN events', NEW k \in 1 .. events'[i]
        PROVE  Handled(k)' \/ k \in Range(events')
    <3>1. i \in DOMAIN Text /\ i <= c /\ events'[i] = Text[i] /\ Text[i] \in Int /\ i \in Int
      BY <1>5, <1>6
    <3>2. k > 0 /\ k <= Text[i] /\ k \in Int
      BY <2>4, <3>1
    <3>3. Handled(k) \/ k \in Range(Text)
      BY <1>7, <2>4, <3>1
    <3>4. CASE k \in Range(Text)
      <4>1. PICK p \in DOMAIN Text : Text[p] = k
        BY <3>4 DEF Range
      <4>2. ~(i < p)
        BY <1>7, <3>1, <3>2, <4>1 DEF Ascending
      <4>3. p \in DOMAIN events' /\ events'[p] = k
        BY <1>0, <1>6, <3>1, <4>1, <4>2
      <4>. QED
        BY <4>3 DEF Range
    <3>. QED
      BY <2>1, <3>3, <3>4
  <2>5. ASSUME NEW i \in DOMAIN Text', NEW k \in 1 .. Text'[i]
        PROVE  Accounted(k)'
    <3>1. off + i \in DOMAIN Text /\ Text'[i] = Text[off + i] /\ Text[off + i] \in Int
      BY <1>5, <1>6
    <3>2. k > 0 /\ (Handled(k) \/ k \in Range(Text))
      BY <1>7, <2>5, <3>1
    <3>. QED
      BY <2>2, <3>2
  <2>6. closed' # "broken" => \A k \in 1 .. Len(lines') : Accounted(k)'
    <3>1. Len(lines) \in Nat
      BY <1>2, LenProperties DEF StreamTypeOK
    <3>. QED
      BY <1>1, <1>7, <2>2, <3>1
  <2>. QED
    BY <2>3, <2>4, <2>5, <2>6 DEF GapInv
<1>11. BlankInv'
  <2>1. /\ \A i \in DOMAIN Text : Blank(Text, i) => \A j \in 1 .. i : Text[j] <= ended
        /\ lineEnd = "crlf" => \A i \in 1 .. Len(Text) - 1 : Text[i + 1] = LF => Text[i] = CR
        /\ closed # "broken" /\ lineEnd = "lf" =>
              /\ Text # <<>> => Text[Len(Text)] = LF
              /\ \A j \in DOMAIN Text :
                    Text[j] \in 1 .. ended => \E i \in DOMAIN Text : j < i /\ Blank(Text, i)
        /\ \A i \in DOMAIN delivered : delivered[i] <= ended
        /\ lineEnd = "crlf" => delivered = <<>>
    BY <1>1 DEF StreamInv, BlankInv
  <2>2. c # 0 => c \in DOMAIN Text /\ Blank(Text, c)
    BY <1>3, <1>5 DEF Blank
  <2>3. \A i \in DOMAIN events' : events'[i] <= ended'
    BY <1>1, <1>5, <1>6, <2>1, <2>2
  <2>4. lineEnd' = "crlf" => events' = <<>> /\ delivered' = <<>>
    <3>. HAVE lineEnd' = "crlf"
    <3>1. c = 0
      BY <1>1, <2>1, <2>2 DEF Blank, LF, CR
    <3>. QED
      BY <1>1, <1>3, <2>1, <3>1, EmptySeq
  <2>5. \A i \in DOMAIN Text' : Blank(Text', i) <=> Blank(Text, off + i)
    <3>. TAKE i \in DOMAIN Text'
    <3>1. i \in 1 .. Len(Text') - 1 <=> off + i \in 1 .. Len(Text) - 1
      BY <1>0
    <3>2. i \in 1 .. Len(Text') - 1 =>
             Text'[i] = Text[off + i] /\ Text'[i + 1] = Text[(off + i) + 1]
      <4>. HAVE i \in 1 .. Len(Text') - 1
      <4>1. i + 1 \in DOMAIN Text' /\ off + (i + 1) = (off + i) + 1
        <5>1. i \in 1 .. Len(Text') - 1 /\ Len(Text') \in Nat /\ DOMAIN Text' = 1 .. Len(Text')
              /\ off \in Nat
          BY <1>0
        <5>. QED
          BY <5>1
      <4>. QED
        BY <1>6, <4>1
    <3>. QED
      BY <3>1, <3>2 DEF Blank
  <2>6. ASSUME NEW i \in DOMAIN Text', Blank(Text', i), NEW j \in 1 .. i
        PROVE  Text'[j] <= ended'
    <3>1. off + i \in DOMAIN Text /\ Blank(Text, off + i)
      BY <1>6, <2>5, <2>6
    <3>2. j \in DOMAIN Text' /\ off + j \in 1 .. off + i
      BY <1>0, <2>6
    <3>. QED
      BY <1>1, <1>6, <2>1, <3>1, <3>2
  <2>7. ASSUME lineEnd' = "crlf", NEW i \in 1 .. Len(Text') - 1, Text'[i + 1] = LF
        PROVE  Text'[i] = CR
    <3>1. /\ off + i \in 1 .. Len(Text) - 1 /\ i \in DOMAIN Text'
          /\ i + 1 \in DOMAIN Text' /\ off + (i + 1) = (off + i) + 1
      BY <1>0, <2>7
    <3>2. Text[(off + i) + 1] = LF
      BY <1>6, <2>7, <3>1
    <3>. QED
      BY <1>1, <1>6, <2>1, <2>7, <3>1, <3>2
  <2>8. ASSUME closed' # "broken", lineEnd' = "lf"
        PROVE  /\ Text' # <<>> => Text'[Len(Text')] = LF
               /\ \A j \in DOMAIN Text' :
                    Text'[j] \in 1 .. ended' => \E i \in DOMAIN Text' : j < i /\ Blank(Text', i)
    <3>1. ASSUME Text' # <<>> PROVE Text'[Len(Text')] = LF
      <4>1. Text' \in Seq(Token)
        BY <1>3, ConcatProperties DEF Text
      <4>2. Len(Text') # 0
        BY <3>1, <4>1, EmptySeq
      <4>3. Len(Text') \in DOMAIN Text' /\ off + Len(Text') = Len(Text) /\ Len(Text) # 0
        BY <1>0, <4>2
      <4>4. Text # <<>>
        BY <4>3, EmptySeq
      <4>. QED
        BY <1>1, <1>6, <2>1, <2>8, <4>3, <4>4
    <3>2. ASSUME NEW j \in DOMAIN Text', Text'[j] \in 1 .. ended'
          PROVE  \E i \in DOMAIN Text' : j < i /\ Blank(Text', i)
      <4>1. PICK i \in DOMAIN Text : off + j < i /\ Blank(Text, i)
        BY <1>1, <1>6, <2>1, <2>8, <3>2
      <4>2. i - off \in DOMAIN Text' /\ off + (i - off) = i /\ j < i - off
        <5>1. i \in 1 .. Len(Text) /\ j \in 1 .. Len(Text') /\ off + j < i
          BY <1>0, <3>2, <4>1
        <5>2. off \in Nat /\ Len(Text) \in Nat /\ Len(Text') = Len(Text) - off
              /\ DOMAIN Text' = 1 .. Len(Text')
          BY <1>0
        <5>. QED
          BY <5>1, <5>2
      <4>. QED
        BY <2>5, <4>1, <4>2
    <3>. QED
      BY <3>1, <3>2
  <2>. QED
    BY <1>1, <1>3, <2>1, <2>3, <2>4, <2>6, <2>7, <2>8 DEF BlankInv
<1>12. EndInv'
  BY <1>1 DEF StreamInv, EndInv, ReturnsComplete
<1>. QED
  BY <1>4, <1>8, <1>10, <1>11, <1>12 DEF StreamInv

\* What a line that is taken leaves true: of the text nothing changes, and the line is
\* handled afterwards.
LEMMA LineStep ==
    ASSUME StreamInv, TakeLine, UNCHANGED <<buffer, server>>,
           aborted' = "no" => aborted = "no" /\ wire' = wire,
           \/ delivered' = delivered /\ Current = "unreadable"
           \/ delivered' = Append(delivered, events[NextLine])
    PROVE  OrderInv' /\ GapInv' /\ BlankInv'
<1>. DEFINE m == NextLine
            e == events[m]
            l == Len(delivered)
<1>1. StreamTypeOK /\ server' = server
  BY DEF StreamInv
<1>2. /\ m \in 1 .. Len(events) /\ e > 0
      /\ \A i \in 1 .. Len(events) : i < m => ~(events[i] > 0)
      /\ events' \in Seq(Token) /\ Len(events') = Len(events) - m
      /\ \A i \in 1 .. Len(events') : events'[i] = events[m + i]
  BY <1>1, LineTaken
<1>3. /\ DOMAIN events = 1 .. Len(events) /\ Len(events) \in Nat
      /\ DOMAIN events' = 1 .. Len(events') /\ Len(events') \in Nat
      /\ DOMAIN delivered = 1 .. l /\ l \in Nat /\ l <= Len(lines)
      /\ \A i \in DOMAIN events : events[i] \in Int
      /\ \A i \in DOMAIN delivered : delivered[i] \in Int
      /\ ended \in 0 .. Len(lines) /\ Len(lines) \in Nat
  <2>1. /\ events \in Seq(Token) /\ delivered \in Seq(1 .. Len(lines))
        /\ l <= Len(lines) /\ ended \in 0 .. Len(lines) /\ lines \in Seq(Kinds)
    BY <1>1 DEF StreamTypeOK
  <2>2. \A i \in 1 .. l : delivered[i] \in 1 .. Len(lines)
    BY <2>1, ElementOfSeq
  <2>3. /\ DOMAIN events = 1 .. Len(events) /\ Len(events) \in Nat
        /\ DOMAIN events' = 1 .. Len(events') /\ Len(events') \in Nat
        /\ \A i \in 1 .. Len(events) : events[i] \in Int
    BY <1>2, <2>1, TypedText
  <2>4. DOMAIN delivered = 1 .. l /\ l \in Nat /\ Len(lines) \in Nat
    BY <2>1, LenProperties
  <2>. QED
    BY <2>1, <2>2, <2>3, <2>4
<1>4. /\ \A i, j \in DOMAIN delivered : i < j /\ delivered[j] > 0 => delivered[i] < delivered[j]
      /\ \A i, j \in DOMAIN events : i < j /\ events[j] > 0 => events[i] < events[j]
      /\ \A i \in DOMAIN delivered, j \in DOMAIN events :
            events[j] > 0 => delivered[i] < events[j]
      /\ \A i \in DOMAIN delivered : i <= delivered[i]
      /\ \A i \in DOMAIN events : events[i] <= ended
      /\ \A i \in DOMAIN delivered : delivered[i] <= ended
  BY DEF StreamInv, OrderInv, Ascending, AllBefore, BlankInv
<1>5. e \in 1 .. Len(lines) /\ e <= ended /\ m \in DOMAIN events
  <2>1. m \in DOMAIN events
    BY <1>2, <1>3
  <2>2. e \in Int /\ e <= ended
    BY <1>3, <1>4, <2>1
  <2>. QED
    BY <1>2, <1>3, <2>1, <2>2
<1>. HIDE DEF m, l, e
<1>6. \A i \in DOMAIN events' : m + i \in DOMAIN events /\ m + i > m /\ events'[i] = events[m + i]
  <2>1. m \in Nat
    BY <1>2, <1>3
  <2>2. \A i \in DOMAIN events' : m + i \in 1 .. Len(events) /\ m + i > m
    BY <1>2, <1>3, <2>1
  <2>. QED
    BY <1>2, <1>3, <2>2
<1>7. \/ delivered' = delivered /\ lines[e] = "unreadable"
      \/ /\ DOMAIN delivered' = 1 .. l + 1 /\ delivered'[l + 1] = e
         /\ \A i \in DOMAIN delivered : delivered'[i] = delivered[i]
  <2>1. delivered \in Seq(Int)
    <3>1. 1 .. Len(lines) \subseteq Int
      BY <1>3
    <3>. QED
      BY <1>1, <3>1, SeqMonotonic DEF StreamTypeOK
  <2>2. e \in Int
    BY <1>3, <1>5
  <2>3. Append(delivered, e) \in Seq(Int) /\ Len(Append(delivered, e)) = l + 1
        /\ Append(delivered, e)[l + 1] = e
        /\ \A i \in 1 .. l : Append(delivered, e)[i] = delivered[i]
    BY <2>1, <2>2, AppendProperties DEF l
  <2>4. DOMAIN Append(delivered, e) = 1 .. l + 1
    BY <2>3, LenProperties
  <2>. QED
    BY <1>3, <2>3, <2>4 DEF Current, e, m
<1>8. /\ \A i \in DOMAIN delivered : i \in DOMAIN delivered' /\ delivered'[i] = delivered[i]
      /\ \A i \in DOMAIN delivered' : i \in DOMAIN delivered \/ (i = l + 1 /\ delivered'[i] = e)
  BY <1>3, <1>7
<1>9. /\ \A k : Handled(k) => Handled(k)'
      /\ Handled(e) \/ \A k : k = e => Handled(k)'
  <2>1. lines' = lines
    BY <1>1 DEF server
  <2>2. Seen \subseteq Seen'
    BY <1>8 DEF Seen
  <2>3. lines[e] = "unreadable" \/ e \in Seen'
    <3>1. CASE l + 1 \in DOMAIN delivered' /\ delivered'[l + 1] = e
      BY <3>1 DEF Seen
    <3>. QED
      BY <1>3, <1>7, <3>1
  <2>. QED
    BY <2>1, <2>2, <2>3 DEF Handled
<1>10. \A i \in DOMAIN delivered : delivered[i] < e
  BY <1>2, <1>4, <1>5 DEF e
<1>11. \A j \in DOMAIN events' : events'[j] > 0 => e < events'[j]
  BY <1>4, <1>5, <1>6 DEF e
<1>12. ASSUME aborted' = "no"
       PROVE  aborted = "no" /\ wire' = wire /\ buffer' = buffer /\ Text' = Text
  BY <1>12 DEF Text
<1>13. OrderInv'
  <2>1. Ascending(delivered')
    <3>. SUFFICES ASSUME NEW i \in DOMAIN delivered', NEW j \in DOMAIN delivered', i < j,
                         delivered'[j] > 0
                  PROVE  delivered'[i] < delivered'[j]
      BY DEF Ascending
    <3>1. i \in DOMAIN delivered
      <4>1. j \in 1 .. l + 1 /\ i \in 1 .. l + 1
        BY <1>3, <1>7
      <4>. QED
        BY <1>3, <4>1
    <3>2. CASE j \in DOMAIN delivered
      BY <1>4, <1>8, <3>1, <3>2
    <3>. QED
      BY <1>8, <1>10, <3>1, <3>2
  <2>2. Ascending(events')
    <3>. SUFFICES ASSUME NEW i \in DOMAIN events', NEW j \in DOMAIN events', i < j,
                         events'[j] > 0
                  PROVE  events'[i] < events'[j]
      BY DEF Ascending
    <3>1. m + i < m + j
      BY <1>2, <1>3
    <3>. QED
      BY <1>4, <1>6, <3>1
  <2>3. AllBefore(delivered', events')
    BY <1>4, <1>6, <1>8, <1>11 DEF AllBefore
  <2>4. \A i \in DOMAIN delivered' : i <= delivered'[i]
    <3>1. l + 1 <= e
      <4>1. CASE l = 0
        BY <1>5, <4>1
      <4>2. CASE l # 0
        <5>1. l \in DOMAIN delivered
          BY <1>3, <4>2
        <5>. QED
          <6>1. l <= delivered[l] /\ delivered[l] < e /\ delivered[l] \in Int
            BY <1>3, <1>4, <1>10, <5>1
          <6>2. l \in Int /\ e \in Int
            BY <1>3, <1>5
          <6>. QED
            BY <6>1, <6>2
      <4>. QED
        BY <4>1, <4>2
    <3>. QED
      BY <1>4, <1>8, <3>1
  <2>5. ASSUME aborted' = "no"
        PROVE  /\ Ascending(Text)' /\ AllBefore(delivered', Text') /\ AllBefore(events', Text')
               /\ \A i \in DOMAIN Text' : Text'[i] <= Len(lines')
    <3>1. /\ Ascending(Text) /\ AllBefore(delivered, Text) /\ AllBefore(events, Text)
          /\ \A i \in DOMAIN Text : Text[i] <= Len(lines)
      BY <1>12, <2>5 DEF StreamInv, OrderInv
    <3>2. \A j \in DOMAIN Text : Text[j] > 0 => e < Text[j]
      BY <1>5, <3>1 DEF AllBefore, e
    <3>3. AllBefore(delivered', Text)
      BY <1>8, <3>1, <3>2 DEF AllBefore
    <3>4. AllBefore(events', Text)
      BY <1>6, <3>1 DEF AllBefore
    <3>. QED
      BY <1>1, <1>12, <2>5, <3>1, <3>3, <3>4 DEF server, Ascending
  <2>. QED
    BY <2>1, <2>2, <2>3, <2>4, <2>5 DEF OrderInv
<1>14. \A k \in Range(events) : k > 0 => Handled(k)' \/ k \in Range(events')
  <2>. SUFFICES ASSUME NEW p \in DOMAIN events, events[p] > 0
                PROVE  \A k : k = events[p] => Handled(k)' \/ k \in Range(events')
    BY DEF Range
  <2>1. p = m \/ p > m
    BY <1>2, <1>3
  <2>2. CASE p = m
    BY <1>9, <2>2 DEF e
  <2>3. CASE p > m
    <3>1. p - m \in DOMAIN events' /\ m + (p - m) = p
      BY <1>2, <1>3, <2>3
    <3>2. events'[p - m] = events[p]
      BY <1>6, <3>1
    <3>. QED
      BY <3>1, <3>2 DEF Range
  <2>. QED
    BY <2>1, <2>2, <2>3
<1>15. \A k \in 1 .. e : Handled(k)'
  <2>. TAKE k \in 1 .. e
  <2>1. Handled(k) \/ k \in Range(events)
    BY <1>5 DEF StreamInv, GapInv, e
  <2>2. CASE k \in Range(events)
    <3>1. PICK p \in DOMAIN events : events[p] = k
      BY <2>2 DEF Range
    <3>2. k > 0 /\ k <= e /\ k \in Int /\ e \in Int
      BY <1>5
    <3>3. ~(m < p)
      BY <1>4, <1>5, <3>1, <3>2 DEF e
    <3>4. ~(p < m)
      BY <1>2, <1>3, <3>1, <3>2
    <3>5. p = m
      BY <1>2, <1>3, <3>3, <3>4
    <3>. QED
      BY <1>9, <3>1, <3>5 DEF e
  <2>. QED
    BY <1>9, <2>1, <2>2
<1>16. GapInv'
  <2>1. \A i \in DOMAIN delivered' : \A k \in 1 .. delivered'[i] : Handled(k)'
    <3>1. \A i \in DOMAIN delivered : \A k \in 1 .. delivered[i] : Handled(k)
      BY DEF StreamInv, GapInv
    <3>. QED
      BY <1>8, <1>9, <1>15, <3>1
  <2>2. ASSUME NEW i \in DOMAIN events', NEW k \in 1 .. events'[i]
        PROVE  Handled(k)' \/ k \in Range(events')
    <3>1. m + i \in DOMAIN events /\ events'[i] = events[m + i] /\ events[m + i] \in Int
      BY <1>3, <1>6
    <3>2. Handled(k) \/ k \in Range(events)
      BY <2>2, <3>1 DEF StreamInv, GapInv
    <3>3. k > 0
      BY <2>2, <3>1
    <3>. QED
      BY <1>9, <1>14, <3>2, <3>3
  <2>3. \A k : k > 0 /\ Accounted(k) /\ aborted' = "no" => Accounted(k)'
    BY <1>9, <1>12, <1>14 DEF Accounted
  <2>4. ASSUME aborted' = "no", NEW i \in DOMAIN Text', NEW k \in 1 .. Text'[i]
        PROVE  Accounted(k)'
    <3>1. Text \in Seq(Token)
      BY <1>1, TextElements
    <3>2. i \in DOMAIN Text /\ k \in 1 .. Text[i] /\ Text[i] \in Int
      BY <1>12, <2>4, <3>1, TypedText
    <3>3. k > 0
      BY <3>2
    <3>. QED
      BY <1>12, <2>3, <2>4, <3>2, <3>3 DEF StreamInv, GapInv
  <2>5. ASSUME aborted' = "no", closed' # "broken", NEW k \in 1 .. Len(lines')
        PROVE  Accounted(k)'
    <3>1. closed # "broken" /\ k \in 1 .. Len(lines)
      BY <1>1, <2>5 DEF server
    <3>2. k > 0
      BY <1>3, <3>1
    <3>. QED
      BY <1>12, <2>3, <2>5, <3>1, <3>2 DEF StreamInv, GapInv
  <2>. QED
    BY <2>1, <2>2, <2>4, <2>5 DEF GapInv
<1>17. BlankInv'
  <2>1. /\ \A i \in DOMAIN events' : events'[i] <= ended
        /\ \A i \in DOMAIN delivered' : delivered'[i] <= ended
    BY <1>4, <1>5, <1>6, <1>8
  <2>2. lineEnd # "crlf"
    <3>1. events # <<>>
      BY <1>3, <1>5, EmptySeq
    <3>. QED
      BY <3>1 DEF StreamInv, BlankInv
  <2>. QED
    BY <1>1, <1>12, <2>1, <2>2 DEF StreamInv, BlankInv, Blank, server
<1>. QED
  BY <1>13, <1>16, <1>17

LEMMA SkipStep == ASSUME StreamInv, SkipLine PROVE StreamInv'
<1>1. OrderInv' /\ GapInv' /\ BlankInv'
  BY LineStep DEF SkipLine, server
<1>2. StreamTypeOK'
  BY LineTaken DEF SkipLine, StreamInv, StreamTypeOK, server
<1>3. EndInv'
  BY DEF SkipLine, StreamInv, EndInv, ReturnsComplete, server
<1>. QED
  BY <1>1, <1>2, <1>3 DEF StreamInv

\* The callback's two outcomes.
LEMMA CallbackStep ==
    ASSUME StreamInv, Callback, UNCHANGED <<buffer, server, wire>>,
           reader' \in {"handling", "returned"}, aborted' \in {"no", "AbortError", "TimeoutError"},
           aborted' = "no" => aborted = "no",
           \/ thrown' = thrown /\ reader' = IF Current = "terminal" THEN "returned" ELSE "handling"
           \/ thrown' = thrown \cup {events[NextLine]} /\ reader' = "handling"
    PROVE  StreamInv'
<1>. DEFINE e == events[NextLine]
            l == Len(delivered)
<1>1. StreamTypeOK /\ TakeLine /\ reader = "handling" /\ server' = server
      /\ delivered' = Append(delivered, e) /\ Current = lines[e]
  BY DEF StreamInv, Callback, Current
<1>2. OrderInv' /\ GapInv' /\ BlankInv'
  BY <1>1, LineStep
<1>3. /\ e \in 1 .. Len(lines) /\ delivered \in Seq(1 .. Len(lines)) /\ l \in Nat
      /\ events' \in Seq(Token) /\ Len(lines) \in Nat
  <2>1. NextLine \in 1 .. Len(events) /\ e > 0 /\ events' \in Seq(Token) /\ events \in Seq(Token)
    BY <1>1, LineTaken DEF StreamTypeOK
  <2>2. NextLine \in DOMAIN events /\ e \in Int
    BY <2>1, TypedText
  <2>3. e <= ended /\ ended \in 0 .. Len(lines)
    BY <1>1, <2>2 DEF StreamInv, BlankInv, StreamTypeOK
  <2>4. delivered \in Seq(1 .. Len(lines)) /\ l \in Nat /\ Len(lines) \in Nat
    BY <1>1, LenProperties DEF StreamTypeOK
  <2>. QED
    BY <2>1, <2>2, <2>3, <2>4
<1>. HIDE DEF e
<1>4. /\ delivered' \in Seq(1 .. Len(lines)) /\ Len(delivered') = l + 1
      /\ \A i \in 1 .. l : delivered'[i] = delivered[i]
      /\ delivered'[l + 1] = e /\ DOMAIN delivered' = 1 .. l + 1 /\ DOMAIN delivered = 1 .. l
      /\ delivered' # <<>>
  <2>1. DOMAIN Append(delivered, e) = 1 .. Len(Append(delivered, e))
    BY <1>3, AppendProperties, LenProperties
  <2>. QED
    BY <1>1, <1>3, <2>1, AppendProperties, LenProperties
<1>5. Len(delivered') <= Len(lines)
  <2>1. l + 1 <= delivered'[l + 1]
    BY <1>2, <1>3, <1>4 DEF OrderInv
  <2>. QED
    BY <1>3, <1>4, <2>1
<1>6. StreamTypeOK'
  BY <1>1, <1>3, <1>4, <1>5 DEF StreamTypeOK, server, e
<1>7. EndInv'
  <2>1. ASSUME NEW i \in DOMAIN delivered', lines'[delivered'[i]] = "terminal"
        PROVE  delivered'[i] \in thrown' \/ (reader' = "returned" /\ i = Len(delivered'))
    <3>1. CASE i \in DOMAIN delivered
      <4>1. delivered'[i] = delivered[i] /\ lines' = lines
        BY <1>1, <1>4, <3>1 DEF server
      <4>2. delivered[i] \in thrown
        BY <1>1, <2>1, <3>1, <4>1 DEF StreamInv, EndInv
      <4>. QED
        BY <4>1, <4>2
    <3>2. CASE i = l + 1
      <4>1. delivered'[i] = e /\ lines' = lines /\ Current = "terminal"
        BY <1>1, <1>4, <2>1, <3>2 DEF server
      <4>. QED
        BY <1>4, <3>2, <4>1 DEF e
    <3>. QED
      BY <1>3, <1>4, <2>1, <3>1, <3>2
  <2>2. reader' = "returned" => lines'[delivered'[Len(delivered')]] = "terminal"
    BY <1>1, <1>4 DEF server
  <2>3. lineEnd' # "crlf"
    BY <1>2, <1>4 DEF BlankInv
  <2>. QED
    BY <1>4, <2>1, <2>2, <2>3 DEF EndInv, ReturnsComplete
<1>. QED
  BY <1>2, <1>6, <1>7 DEF StreamInv

LEMMA ReadOnStep == ASSUME StreamInv, ReadOn PROVE StreamInv'
<1>1. /\ events' = <<>> /\ reader' = "reading" /\ buffer' = buffer /\ aborted' = aborted
      /\ lineEnd' = lineEnd /\ lines' = lines /\ ended' = ended /\ closed' = closed
      /\ wire' = wire /\ delivered' = delivered /\ thrown' = thrown /\ reader = "handling"
  BY DEF ReadOn, server
<1>2. StreamTypeOK'
  BY <1>1, EmptySeq DEF StreamInv, StreamTypeOK
<1>3. Text' = Text
  BY <1>1 DEF Text
<1>4. OrderInv'
  BY <1>1, <1>3 DEF StreamInv, OrderInv, Ascending, AllBefore
<1>5. \A i \in DOMAIN events : ~(events[i] > 0)
  BY DEF ReadOn, LinesLeft
<1>6. \A k \in Range(events) : ~(k > 0)
  BY <1>5 DEF Range
<1>7. GapInv'
  <2>1. \A k : Handled(k)' <=> Handled(k)
    BY <1>1 DEF Handled, Seen
  <2>2. \A k : k > 0 /\ Accounted(k) => Accounted(k)'
    BY <1>3, <1>6, <2>1 DEF Accounted
  <2>3. ASSUME aborted' = "no", NEW i \in DOMAIN Text', NEW k \in 1 .. Text'[i]
        PROVE  Accounted(k)'
    <3>1. Text \in Seq(Token)
      BY TextElements DEF StreamInv
    <3>2. Text[i] \in Int /\ i \in DOMAIN Text /\ k \in 1 .. Text[i]
      BY <1>3, <2>3, <3>1, TypedText
    <3>3. k > 0
      BY <3>2
    <3>4. Accounted(k)
      BY <1>1, <2>3, <3>2 DEF StreamInv, GapInv
    <3>. QED
      BY <2>2, <3>3, <3>4
  <2>4. ASSUME aborted' = "no", closed' # "broken", NEW k \in 1 .. Len(lines')
        PROVE  Accounted(k)'
    <3>1. k \in 1 .. Len(lines) /\ Len(lines) \in Nat
      BY <1>1, <2>4, LenProperties DEF StreamInv, StreamTypeOK
    <3>2. k > 0
      BY <3>1
    <3>3. Accounted(k)
      BY <1>1, <2>4, <3>1 DEF StreamInv, GapInv
    <3>. QED
      BY <2>2, <3>2, <3>3
  <2>. QED
    BY <1>1, <2>1, <2>3, <2>4 DEF StreamInv, GapInv
<1>8. BlankInv'
  BY <1>1, <1>3 DEF StreamInv, BlankInv, Blank
<1>9. EndInv'
  BY <1>1 DEF StreamInv, EndInv, ReturnsComplete
<1>. QED
  BY <1>2, <1>4, <1>7, <1>8, <1>9 DEF StreamInv

\* At the end of the stream the text is that of the buffer, and no event is complete in it.
LEMMA DoneStep == ASSUME StreamInv, StreamDone PROVE StreamInv'
<1>1. /\ reader = "reading" /\ aborted = "no" /\ wire = <<>> /\ aborted' = aborted /\ wire' = wire
      /\ buffer' = buffer /\ events' = events /\ server' = server /\ delivered' = delivered
      /\ thrown' = thrown /\ reader' = IF closed = "end" THEN "returned" ELSE "threw"
  BY DEF StreamDone, client
<1>2. OrderInv' /\ GapInv' /\ BlankInv'
  BY <1>1, TextUntouched
<1>3. StreamTypeOK'
  BY <1>1 DEF StreamInv, StreamTypeOK, server
<1>4. ASSUME closed = "end", lineEnd # "crlf" PROVE ReadableUpTo(ended) \subseteq Seen
  <2>1. Text = buffer /\ events = <<>>
    BY <1>1, ConcatEmptySeq DEF StreamInv, StreamTypeOK, EndInv, Text
  <2>2. lineEnd = "lf" /\ ended \in 0 .. Len(lines) /\ Len(lines) \in Nat
    BY <1>4, StreamAssumption, LenProperties DEF StreamInv, StreamTypeOK, StreamAssumption
  <2>. SUFFICES ASSUME NEW k \in 1 .. ended, lines[k] # "unreadable" PROVE k \in Seen
    BY DEF ReadableUpTo
  <2>3. Accounted(k)
    BY <1>1, <1>4, <2>2 DEF StreamInv, GapInv
  <2>4. k \notin Range(events)
    BY <2>1 DEF Range
  <2>5. k \notin Range(Text)
    <3>. SUFFICES ASSUME NEW j \in DOMAIN Text, Text[j] = k PROVE FALSE
      BY DEF Range
    <3>1. PICK i \in DOMAIN Text : Blank(Text, i)
      BY <1>1, <1>4, <2>2 DEF StreamInv, BlankInv
    <3>2. i \in 1 .. Len(buffer)
      BY <2>1, <3>1, LenProperties DEF StreamInv, StreamTypeOK
    <3>. QED
      BY <2>1, <3>1, <3>2 DEF StreamInv, BlankInv
  <2>. QED
    BY <2>3, <2>4, <2>5 DEF Accounted, Handled
<1>5. lineEnd = "crlf" => delivered = <<>>
  BY DEF StreamInv, BlankInv
<1>6. ReturnsComplete'
  BY <1>1, <1>4, <1>5 DEF ReturnsComplete, ReadableUpTo, Seen, server
<1>7. EndInv'
  BY <1>1, <1>6 DEF StreamInv, EndInv, server
<1>. QED
  BY <1>2, <1>3, <1>7 DEF StreamInv

LEMMA StreamStep == StreamInv /\ [StreamNext]_streamVars => StreamInv'
<1>. SUFFICES ASSUME StreamInv, [StreamNext]_streamVars PROVE StreamInv'
  OBVIOUS
<1>1. ASSUME NEW outcome \in {"reading", "threw"}, Connected(outcome) PROVE StreamInv'
  <2>1. OrderInv' /\ GapInv' /\ BlankInv'
    BY <1>1, TextUntouched DEF Connected, client
  <2>. QED
    BY <1>1, <2>1 DEF Connected, client, server, StreamInv, StreamTypeOK, EndInv, ReturnsComplete
<1>2. ASSUME NEW reason \in {"AbortError", "TimeoutError"}, Abort(reason) PROVE StreamInv'
  <2>1. OrderInv' /\ GapInv' /\ BlankInv'
    BY <1>2, TextUntouched DEF Abort, client
  <2>. QED
    BY <1>2, <2>1, EmptySeq
       DEF Abort, client, server, StreamInv, StreamTypeOK, EndInv, ReturnsComplete
<1>3. CASE LeaveAborted
  <2>1. OrderInv' /\ GapInv' /\ BlankInv'
    BY <1>3, TextUntouched DEF LeaveAborted, client
  <2>. QED
    BY <1>3, <2>1
       DEF LeaveAborted, client, server, StreamInv, StreamTypeOK, EndInv, ReturnsComplete
<1>4. ASSUME NEW reason \in {"no", "AbortError", "TimeoutError"}, CallbackReturns(reason)
      PROVE  StreamInv'
  BY <1>4, CallbackStep DEF CallbackReturns
<1>5. CASE CallbackThrows
  <2>1. reader' = "handling" /\ aborted' = aborted /\ Callback
    BY <1>5 DEF CallbackThrows, Callback
  <2>2. aborted \in {"no", "AbortError", "TimeoutError"}
    BY DEF StreamInv, StreamTypeOK
  <2>. QED
    BY <1>5, <2>1, <2>2, CallbackStep DEF CallbackThrows
<1>6. CASE UNCHANGED streamVars
  <2>1. OrderInv' /\ GapInv' /\ BlankInv'
    BY <1>6, TextUntouched DEF streamVars
  <2>. QED
    BY <1>6, <2>1 DEF streamVars, server, StreamInv, StreamTypeOK, EndInv, ReturnsComplete, ReadableUpTo, Seen
<1>. QED
  BY <1>1, <1>2, <1>3, <1>4, <1>5, <1>6, WriteStep, EndEventStep, CloseStep, ChunkStep, SkipStep,
     ReadOnStep, DoneStep DEF StreamNext, ClientStep

LEMMA StreamHolds == StreamSpec => []StreamInv
<1>1. StreamInit => StreamInv
  BY StreamInitially
<1>2. StreamInv /\ [StreamNext]_streamVars => StreamInv'
  BY StreamStep
<1>. QED
  BY <1>1, <1>2, PTL DEF StreamSpec

\* The buffers hold text, and no more lines are delivered than were written, whatever the
\* chunks are (streamExecutionStatus).
THEOREM StreamTypeCorrect == StreamSpec => []StreamTypeOK
<1>1. StreamInv => StreamTypeOK
  BY DEF StreamInv
<1>. QED
  BY <1>1, StreamHolds, PTL

\* The callback sees the statuses of complete events in the order they were written,
\* without a gap, and none after a terminal one it took (streamExecutionStatus).
THEOREM StreamKeepsOrder == StreamSpec => []InOrderWithoutGaps
<1>1. StreamInv => InOrderWithoutGaps
  <2>. SUFFICES ASSUME StreamInv PROVE InOrderWithoutGaps
    OBVIOUS
  <2>1. /\ DOMAIN delivered = 1 .. Len(delivered) /\ Len(delivered) \in Nat
        /\ \A i \in DOMAIN delivered : delivered[i] > 0 /\ delivered[i] \in Int
    <3>1. delivered \in Seq(1 .. Len(lines)) /\ Len(lines) \in Nat
      BY LenProperties DEF StreamInv, StreamTypeOK
    <3>2. \A i \in 1 .. Len(delivered) : delivered[i] \in 1 .. Len(lines)
      BY <3>1, ElementOfSeq
    <3>. QED
      BY <3>1, <3>2, LenProperties
  <2>2. \A i, j \in DOMAIN delivered : i < j => delivered[i] < delivered[j]
    BY <2>1 DEF StreamInv, OrderInv, Ascending
  <2>3. ASSUME NEW i \in DOMAIN delivered
        PROVE  /\ delivered[i] <= ended
               /\ ReadableUpTo(delivered[i]) \subseteq Seen
               /\ lines[delivered[i]] = "terminal" /\ i < Len(delivered) =>
                     delivered[i] \in thrown
    <3>1. delivered[i] <= ended
      BY DEF StreamInv, BlankInv
    <3>2. ReadableUpTo(delivered[i]) \subseteq Seen
      BY DEF StreamInv, GapInv, Handled, ReadableUpTo
    <3>3. lines[delivered[i]] = "terminal" /\ i < Len(delivered) => delivered[i] \in thrown
      BY <2>1 DEF StreamInv, EndInv
    <3>. QED
      BY <3>1, <3>2, <3>3
  <2>. QED
    BY <2>2, <2>3 DEF InOrderWithoutGaps
<1>. QED
  BY <1>1, StreamHolds, PTL

\* A call that returns and was not aborted has delivered every status of the complete
\* events, or all up to a terminal one (streamExecutionStatus).
THEOREM StreamCompletes == StreamSpec => []ReturnsComplete
<1>1. StreamInv => ReturnsComplete
  BY DEF StreamInv, EndInv
<1>. QED
  BY <1>1, StreamHolds, PTL

-----------------------------------------------------------------------------
(* What is true of a walk.                                                 *)

\* What the platform has answered so far.
Shown == all \o answer.page
Places(s, p) == {i \in DOMAIN s : s[i] = p}

\* A provider at this place of the registry has had its turn.
Passed(i) == IF walk = "asked" THEN i <= (page - 1) * Served
             ELSE paginates => i <= page * Served

\* The answer on the way ends the walk.
Complete == walk = "answered" /\ IsLast

\* One that did not stand after p was removed.
Missed(p) ==
    \E q \in removed :
        \A i, j \in DOMAIN atStart : atStart[i] = q /\ atStart[j] = p => i < j

\* The registry has no provider twice, and keeps those of the start in their order.
RegistryInv ==
    /\ \A i, j \in DOMAIN providers : providers[i] = providers[j] => i = j
    /\ Walking =>
         /\ \A i, j \in DOMAIN providers, a, b \in DOMAIN atStart :
               i < j /\ providers[i] = atStart[a] /\ providers[j] = atStart[b] => a < b
         /\ \A p \in Throughout : \E i \in DOMAIN providers : providers[i] = p

ProgressInv ==
    /\ walk = "asked" => answer = NoAnswer
    /\ Walking /\ ~paginates => page = 1
    /\ walk = "answered" /\ ~paginates => answer.total = 1

\* A registration may push a provider past the boundary once, a removal may pull it back.
AccountInv ==
    Walking =>
        \A i \in DOMAIN providers : providers[i] \in ToSet(atStart) =>
            /\ Cardinality(Places(Shown, providers[i]))
                  <= inserted + (IF Passed(i) THEN 1 ELSE 0)
            /\ Places(Shown, providers[i]) = {} /\ (Passed(i) \/ Complete)
                  => Missed(providers[i])

\* Without changes it is the registry as far as it has had its turn.
QuietInv ==
    Walking /\ inserted = 0 /\ removed = {} =>
        /\ providers = atStart
        /\ Len(Shown) <= Len(atStart)
        /\ \A i \in 1 .. Len(atStart) : i <= Len(Shown) <=> Passed(i)
        /\ \A i \in 1 .. Len(Shown) : Shown[i] = atStart[i]
        /\ Complete => Len(Shown) = Len(atStart)

WalkInv ==
    /\ WalkTypeOK /\ RegistryInv /\ ProgressInv /\ AccountInv /\ QuietInv
    /\ WalkAccountsForChanges

-----------------------------------------------------------------------------
(* Insertion, removal, pages and listings, element by element.             *)

LEMMA InsertedAt ==
    ASSUME NEW S, NEW s \in Seq(S), NEW i \in 1 .. Len(s) + 1, NEW e \in S
    PROVE  /\ InsertAt(s, i, e) \in Seq(S) /\ Len(InsertAt(s, i, e)) = Len(s) + 1
           /\ \A j \in 1 .. Len(s) + 1 : InsertAt(s, i, e)[j] =
                 IF j < i THEN s[j] ELSE IF j = i THEN e ELSE s[j - 1]
<1>. DEFINE a == SubSeq(s, 1, i - 1)
            b == SubSeq(s, i, Len(s))
            n == Len(s)
<1>1. n \in Nat /\ \A j \in 1 .. n : s[j] \in S
  BY LenProperties, ElementOfSeq
<1>2. a \in Seq(S) /\ Len(a) = i - 1 /\ \A j \in 1 .. i - 1 : a[j] = s[j]
  <2>1. \A j \in 1 .. i - 1 : s[j] \in S
    BY <1>1
  <2>2. 1 \in Int /\ i - 1 \in Int /\ i \in Nat /\ i >= 1
    BY <1>1
  <2>3. /\ a \in Seq(S) /\ Len(a) = IF 1 <= i - 1 THEN (i - 1) - 1 + 1 ELSE 0
        /\ \A j \in 1 .. (i - 1) - 1 + 1 : a[j] = s[1 + j - 1]
    BY <2>1, <2>2, SubSeqProperties
  <2>. QED
    BY <2>2, <2>3
<1>3. b \in Seq(S) /\ Len(b) = n - i + 1 /\ \A j \in 1 .. n - i + 1 : b[j] = s[i + j - 1]
  <2>1. \A j \in i .. n : s[j] \in S
    BY <1>1
  <2>2. /\ b \in Seq(S) /\ Len(b) = IF i <= n THEN n - i + 1 ELSE 0
        /\ \A j \in 1 .. n - i + 1 : b[j] = s[i + j - 1]
    BY <1>1, <2>1, SubSeqProperties
  <2>. QED
    BY <1>1, <2>2
<1>4. <<e>> \in Seq(S) /\ Len(<<e>>) = 1 /\ <<e>>[1] = e
  OBVIOUS
<1>. HIDE DEF a, b
<1>5. /\ a \o <<e>> \in Seq(S) /\ Len(a \o <<e>>) = Len(a) + 1
      /\ \A j \in 1 .. Len(a) + 1 : (a \o <<e>>)[j] = IF j <= Len(a) THEN a[j] ELSE <<e>>[j - Len(a)]
  BY <1>2, <1>4, ConcatProperties
<1>. DEFINE c == a \o <<e>>
<1>6. c \in Seq(S) /\ Len(c) = i /\ \A j \in 1 .. i : c[j] = IF j < i THEN s[j] ELSE e
  <2>1. Len(c) = i
    BY <1>1, <1>2, <1>5
  <2>2. ASSUME NEW j \in 1 .. i PROVE c[j] = IF j < i THEN s[j] ELSE e
    <3>1. CASE j < i
      BY <1>1, <1>2, <1>5, <3>1
    <3>2. CASE j = i
      <4>1. ~(j <= Len(a)) /\ j - Len(a) = 1 /\ j \in 1 .. Len(a) + 1
        BY <1>1, <1>2, <3>2
      <4>. QED
        BY <1>4, <1>5, <3>2, <4>1
    <3>3. j < i \/ j = i
      BY <1>1
    <3>4. j = i => ~(j < i)
      BY <1>1
    <3>. QED
      BY <3>1, <3>2, <3>3, <3>4
  <2>. QED
    BY <1>5, <2>1, <2>2
<1>. HIDE DEF c
<1>7. /\ c \o b \in Seq(S) /\ Len(c \o b) = Len(c) + Len(b)
      /\ \A j \in 1 .. Len(c) + Len(b) : (c \o b)[j] = IF j <= Len(c) THEN c[j] ELSE b[j - Len(c)]
  BY <1>3, <1>6, ConcatProperties
<1>8. InsertAt(s, i, e) = c \o b
  BY DEF InsertAt, a, b, c
<1>9. Len(c) + Len(b) = n + 1
  BY <1>1, <1>3, <1>6
<1>10. ASSUME NEW j \in 1 .. n + 1
       PROVE  (c \o b)[j] = IF j < i THEN s[j] ELSE IF j = i THEN e ELSE s[j - 1]
  <2>1. CASE j <= i
    BY <1>1, <1>6, <1>7, <1>9, <2>1
  <2>2. CASE j > i
    <3>1. (c \o b)[j] = b[j - i] /\ j - i \in 1 .. n - i + 1 /\ i + (j - i) - 1 = j - 1
      BY <1>1, <1>6, <1>7, <1>9, <2>2
    <3>2. b[j - i] = s[i + (j - i) - 1]
      BY <1>3, <3>1
    <3>3. ~(j < i) /\ j # i
      BY <1>1, <2>2
    <3>. QED
      BY <3>1, <3>2, <3>3
  <2>3. j <= i \/ j > i
    BY <1>1
  <2>. QED
    BY <2>1, <2>2, <2>3
<1>. QED
  BY <1>7, <1>8, <1>9, <1>10

LEMMA RemovedAt ==
    ASSUME NEW S, NEW s \in Seq(S), NEW i \in 1 .. Len(s)
    PROVE  /\ RemoveAt(s, i) \in Seq(S) /\ Len(RemoveAt(s, i)) = Len(s) - 1
           /\ \A j \in 1 .. Len(s) - 1 : RemoveAt(s, i)[j] = IF j < i THEN s[j] ELSE s[j + 1]
<1>. DEFINE a == SubSeq(s, 1, i - 1)
            b == SubSeq(s, i + 1, Len(s))
            n == Len(s)
<1>1. n \in Nat /\ \A j \in 1 .. n : s[j] \in S
  BY LenProperties, ElementOfSeq
<1>2. a \in Seq(S) /\ Len(a) = i - 1 /\ \A j \in 1 .. i - 1 : a[j] = s[j]
  <2>1. \A j \in 1 .. i - 1 : s[j] \in S
    BY <1>1
  <2>2. 1 \in Int /\ i - 1 \in Int /\ i \in Nat /\ i >= 1
    BY <1>1
  <2>3. /\ a \in Seq(S) /\ Len(a) = IF 1 <= i - 1 THEN (i - 1) - 1 + 1 ELSE 0
        /\ \A j \in 1 .. (i - 1) - 1 + 1 : a[j] = s[1 + j - 1]
    BY <2>1, <2>2, SubSeqProperties
  <2>. QED
    BY <2>2, <2>3
<1>3. b \in Seq(S) /\ Len(b) = n - i /\ \A j \in 1 .. n - i : b[j] = s[i + j]
  <2>. DEFINE m == i + 1
  <2>1. m \in Int /\ \A j \in m .. n : s[j] \in S
    BY <1>1
  <2>2. /\ b \in Seq(S) /\ Len(b) = IF m <= n THEN n - m + 1 ELSE 0
        /\ \A j \in 1 .. n - m + 1 : b[j] = s[m + j - 1]
    BY <1>1, <2>1, SubSeqProperties
  <2>. QED
    BY <1>1, <2>2
<1>. HIDE DEF a, b
<1>4. /\ a \o b \in Seq(S) /\ Len(a \o b) = Len(a) + Len(b)
      /\ \A j \in 1 .. Len(a) + Len(b) : (a \o b)[j] = IF j <= Len(a) THEN a[j] ELSE b[j - Len(a)]
  BY <1>2, <1>3, ConcatProperties
<1>5. Len(a) + Len(b) = n - 1
  BY <1>1, <1>2, <1>3
<1>6. ASSUME NEW j \in 1 .. n - 1 PROVE (a \o b)[j] = IF j < i THEN s[j] ELSE s[j + 1]
  <2>1. CASE j < i
    BY <1>1, <1>2, <1>4, <1>5, <2>1
  <2>2. CASE ~(j < i)
    <3>1. /\ (a \o b)[j] = b[j - Len(a)] /\ j - Len(a) \in 1 .. n - i
          /\ i + (j - Len(a)) = j + 1
      BY <1>1, <1>2, <1>4, <1>5, <2>2
    <3>. QED
      BY <1>3, <2>2, <3>1
  <2>. QED
    BY <2>1, <2>2
<1>. QED
  BY <1>4, <1>5, <1>6 DEF RemoveAt, a, b

\* A page stands between two boundaries, and the count of pages tells when there is no more.
LEMMA PageListed ==
    ASSUME NEW S, NEW s \in Seq(S), NEW n \in Nat \ {0}, NEW size \in Nat \ {0}
    PROVE  /\ PageOf(s, n, size) \in Seq(S) /\ (n - 1) * size \in Nat
           /\ n * size = (n - 1) * size + size
           /\ Len(PageOf(s, n, size)) =
                 IF Len(s) <= (n - 1) * size THEN 0
                 ELSE IF n * size < Len(s) THEN size ELSE Len(s) - (n - 1) * size
           /\ \A i \in 1 .. Len(PageOf(s, n, size)) :
                 PageOf(s, n, size)[i] = s[(n - 1) * size + i]
           /\ PagesOf(s, size) \in Nat
           /\ PagesOf(s, size) <= n => Len(s) <= n * size
<1>. DEFINE lo == (n - 1) * size
            hi == n * size
            top == IF hi < Len(s) THEN hi ELSE Len(s)
            pages == (Len(s) + size - 1) \div size
<1>1. Len(s) \in Nat /\ \A j \in 1 .. Len(s) : s[j] \in S
  BY LenProperties, ElementOfSeq
<1>2. lo \in Nat /\ hi = lo + size
  OBVIOUS
<1>3. pages \in Nat /\ Len(s) <= pages * size
  BY <1>1
<1>4. pages <= n => pages * size <= hi
  BY <1>3
<1>. HIDE DEF lo, hi, pages
<1>5. lo + 1 \in Int /\ top \in Int /\ \A j \in lo + 1 .. top : s[j] \in S
  BY <1>1, <1>2
<1>6. PageOf(s, n, size) = SubSeq(s, lo + 1, top)
  BY DEF PageOf, lo, hi
<1>7. /\ PageOf(s, n, size) \in Seq(S)
      /\ Len(PageOf(s, n, size)) = IF lo + 1 <= top THEN top - (lo + 1) + 1 ELSE 0
      /\ \A i \in 1 .. top - (lo + 1) + 1 : PageOf(s, n, size)[i] = s[lo + 1 + i - 1]
  <2>. DEFINE m == lo + 1
  <2>. HIDE DEF top, m
  <2>1. m \in Int /\ top \in Int /\ (\A j \in m .. top : s[j] \in S)
        /\ PageOf(s, n, size) = SubSeq(s, m, top)
    BY <1>5, <1>6 DEF m
  <2>2. /\ PageOf(s, n, size) \in Seq(S)
        /\ Len(PageOf(s, n, size)) = IF m <= top THEN top - m + 1 ELSE 0
        /\ \A i \in 1 .. top - m + 1 : PageOf(s, n, size)[i] = s[m + i - 1]
    BY <2>1, SubSeqProperties
  <2>. QED
    BY <2>2 DEF m
<1>8. /\ Len(PageOf(s, n, size)) =
            IF Len(s) <= lo THEN 0 ELSE IF hi < Len(s) THEN size ELSE Len(s) - lo
      /\ \A i \in 1 .. Len(PageOf(s, n, size)) : PageOf(s, n, size)[i] = s[lo + i]
  BY <1>1, <1>2, <1>7
<1>9. PagesOf(s, size) = pages
  BY DEF PagesOf, pages
<1>10. pages <= n => Len(s) <= hi
  <2>1. pages * size \in Int /\ hi \in Int
    BY <1>2, <1>3
  <2>. QED
    BY <1>1, <1>3, <1>4, <2>1
<1>. QED
  BY <1>2, <1>3, <1>7, <1>8, <1>9, <1>10 DEF lo, hi

LEMMA PlacesCounted ==
    ASSUME NEW S, NEW s \in Seq(S), NEW p
    PROVE  IsFiniteSet(Places(s, p)) /\ Cardinality(Places(s, p)) \in Nat
<1>1. DOMAIN s = 1 .. Len(s) /\ 1 \in Int /\ Len(s) \in Int
  BY LenProperties
<1>2. IsFiniteSet(1 .. Len(s))
  BY <1>1, FS_Interval
<1>3. Places(s, p) \in SUBSET (1 .. Len(s))
  BY <1>1 DEF Places
<1>. QED
  BY <1>2, <1>3, FS_Subset, FS_CardinalityType

\* How often something is listed when a page is added that has it once, or not.
LEMMA ListingsAdded ==
    ASSUME NEW S, NEW s \in Seq(S), NEW t \in Seq(S), NEW p,
           \A i, j \in 1 .. Len(t) : t[i] = p /\ t[j] = p => i = j
    PROVE  /\ Cardinality(Places(s, p)) \in Nat
           /\ Cardinality(Places(s \o t, p)) \in Nat
           /\ Cardinality(Places(s \o t, p)) <= Cardinality(Places(s, p)) + 1
           /\ (\A i \in 1 .. Len(t) : t[i] # p) => Places(s \o t, p) = Places(s, p)
           /\ Places(s \o t, p) = {} =>
                 Places(s, p) = {} /\ \A i \in 1 .. Len(t) : t[i] # p
<1>. DEFINE u == s \o t
            P == Places(s, p)
            Q == Places(u, p)
<1>1. /\ Len(s) \in Nat /\ Len(t) \in Nat /\ DOMAIN s = 1 .. Len(s)
      /\ u \in Seq(S) /\ Len(u) = Len(s) + Len(t) /\ DOMAIN u = 1 .. Len(u)
      /\ \A i \in 1 .. Len(s) + Len(t) : u[i] = IF i <= Len(s) THEN s[i] ELSE t[i - Len(s)]
  BY ConcatProperties, LenProperties
<1>. HIDE DEF u
<1>2. P \subseteq Q
  BY <1>1 DEF Places
<1>3. \A i \in 1 .. Len(t) : Len(s) + i \in DOMAIN u /\ u[Len(s) + i] = t[i]
  <2>. TAKE i \in 1 .. Len(t)
  <2>1. Len(s) + i \in 1 .. Len(s) + Len(t) /\ ~(Len(s) + i <= Len(s)) /\ (Len(s) + i) - Len(s) = i
    BY <1>1
  <2>. QED
    BY <1>1, <2>1
<1>4. \A i \in Q : i \in P \/ (i - Len(s) \in 1 .. Len(t) /\ t[i - Len(s)] = p)
  BY <1>1 DEF Places
<1>5. P \subseteq Nat /\ Q \subseteq Nat
  BY <1>1 DEF Places
<1>6. IsFiniteSet(P) /\ IsFiniteSet(Q) /\ Cardinality(P) \in Nat /\ Cardinality(Q) \in Nat
  BY <1>1, PlacesCounted
<1>7. (\A i \in 1 .. Len(t) : t[i] # p) => Q = P
  BY <1>2, <1>4
<1>8. Cardinality(Q) <= Cardinality(P) + 1
  <2>1. CASE \A i \in 1 .. Len(t) : t[i] # p
    BY <1>6, <1>7, <2>1
  <2>2. ASSUME NEW i \in 1 .. Len(t), t[i] = p PROVE Cardinality(Q) <= Cardinality(P) + 1
    <3>. DEFINE x == Len(s) + i
    <3>1. Q \subseteq P \cup {x}
      <4>. SUFFICES ASSUME NEW k \in Q, k \notin P PROVE k = x
        OBVIOUS
      <4>1. k - Len(s) = i /\ k \in Nat
        BY <1>4, <1>5, <2>2
      <4>. QED
        BY <1>1, <4>1
    <3>. HIDE DEF x
    <3>2. IsFiniteSet(P \cup {x}) /\ Cardinality(P \cup {x}) <= Cardinality(P) + 1
      <4>1. /\ IsFiniteSet(P \cup {x})
            /\ Cardinality(P \cup {x}) =
                  IF x \in P THEN Cardinality(P) ELSE Cardinality(P) + 1
        BY <1>6, FS_AddElement
      <4>. HIDE DEF P
      <4>. QED
        BY <1>6, <4>1
    <3>3. Cardinality(Q) <= Cardinality(P \cup {x})
      BY <3>1, <3>2, FS_Subset
    <3>4. Cardinality(P \cup {x}) \in Nat
      BY <3>2, FS_CardinalityType
    <3>. QED
      BY <1>6, <3>2, <3>3, <3>4
  <2>. QED
    BY <2>1, <2>2
<1>9. Q = {} => P = {} /\ \A i \in 1 .. Len(t) : t[i] # p
  BY <1>2, <1>3 DEF Places
<1>. QED
  BY <1>6, <1>7, <1>8, <1>9 DEF u

-----------------------------------------------------------------------------
(* The invariant of the walk.                                              *)

LEMMA WalkInitially == WalkInit => WalkInv
<1>. SUFFICES ASSUME WalkInit PROVE WalkInv
  OBVIOUS
<1>1. PICK S \in SUBSET Provider : providers = SetToSeq(S)
  BY DEF WalkInit
<1>2. IsFiniteSet(S) /\ Cardinality(S) \in Nat /\ ExistsBijection(1 .. Cardinality(S), S)
  BY PagesAssumption, FS_Subset, FS_CardinalityType DEF PagesAssumption
<1>3. \E f \in [1 .. Cardinality(S) -> S] : IsInjective(f)
  BY <1>2 DEF ExistsBijection, Bijection, Injection
<1>4. providers \in [1 .. Cardinality(S) -> S] /\ IsInjective(providers)
  BY <1>1, <1>3 DEF SetToSeq
<1>5. providers \in Seq(Provider)
  BY <1>2, <1>4
<1>6. \A i, j \in DOMAIN providers : providers[i] = providers[j] => i = j
  BY <1>4 DEF IsInjective
<1>7. WalkTypeOK
  BY <1>5, EmptySeq DEF WalkInit, WalkTypeOK, NoAnswer
<1>. QED
  BY <1>6, <1>7 DEF WalkInit, WalkInv, RegistryInv, ProgressInv, AccountInv, QuietInv, Walking,
                    WalkAccountsForChanges

\* The answers so far, and what stays the same while the call waits.
LEMMA WalkTypes ==
    ASSUME WalkTypeOK
    PROVE  /\ Shown \in Seq(Provider) /\ Len(Shown) \in Nat /\ DOMAIN Shown = 1 .. Len(Shown)
           /\ DOMAIN providers = 1 .. Len(providers) /\ Len(providers) \in Nat
           /\ DOMAIN atStart = 1 .. Len(atStart) /\ Len(atStart) \in Nat
           /\ Served \in Nat \ {0} /\ page \in Nat \ {0} /\ inserted \in Nat
<1>1. answer.page \in Seq(Provider) /\ all \in Seq(Provider) /\ providers \in Seq(Provider)
      /\ atStart \in Seq(Provider)
  BY DEF WalkTypeOK
<1>2. Shown \in Seq(Provider)
  BY <1>1, ConcatProperties DEF Shown
<1>3. Served \in Nat \ {0}
  BY PagesAssumption DEF WalkTypeOK, Served, PagesAssumption
<1>. QED
  BY <1>1, <1>2, <1>3, LenProperties DEF WalkTypeOK

LEMMA StartStep ==
    ASSUME WalkInv, NEW size \in PageSizes, listAllProviders(size) PROVE WalkInv'
<1>1. /\ walk' = "asked" /\ pageSize' = size /\ page' = 1 /\ all' = <<>> /\ answer' = NoAnswer
      /\ atStart' = providers /\ inserted' = 0 /\ removed' = {} /\ providers' = providers
      /\ paginates' = paginates
  BY DEF listAllProviders
<1>2. WalkTypeOK /\ (\A i, j \in DOMAIN providers : providers[i] = providers[j] => i = j)
  BY DEF WalkInv, RegistryInv
<1>3. WalkTypeOK'
  BY <1>1, <1>2, EmptySeq DEF WalkTypeOK, NoAnswer
<1>4. Shown' = <<>> /\ Len(Shown') = 0
  BY <1>1 DEF Shown, NoAnswer
<1>5. \A i \in DOMAIN providers' : ~Passed(i)' /\ i \in Nat
  <2>1. (page' - 1) * Served' = 0
    <3>1. Served' \in Nat
      BY <1>1, PagesAssumption DEF Served, PagesAssumption
    <3>2. page' - 1 = 0
      BY <1>1
    <3>3. \A x \in Nat : 0 * x = 0
      OBVIOUS
    <3>. QED
      BY <3>1, <3>2, <3>3, Zenon
  <2>2. DOMAIN providers' = 1 .. Len(providers)
    BY <1>1, <1>2, WalkTypes
  <2>. QED
    BY <1>1, <1>2, <2>1, <2>2, WalkTypes DEF Passed
<1>6. RegistryInv' /\ ProgressInv'
  BY <1>1, <1>2 DEF RegistryInv, ProgressInv, Throughout, ToSet
<1>7. AccountInv'
  <2>1. \A p : Places(Shown', p) = {} /\ Cardinality(Places(Shown', p)) = 0
    BY <1>4, FS_EmptySet DEF Places
  <2>2. ~Complete'
    BY <1>1 DEF Complete
  <2>3. \A i \in DOMAIN providers' :
           /\ Cardinality(Places(Shown', providers'[i])) = 0
           /\ ~(Passed(i)' \/ Complete')
    BY <1>5, <2>1, <2>2
  <2>4. 0 <= inserted' + 0
    BY <1>1
  <2>. QED
    BY <1>5, <2>3, <2>4 DEF AccountInv
<1>8. QuietInv'
  <2>1. DOMAIN providers' = 1 .. Len(providers) /\ Len(providers) \in Nat
    BY <1>1, <1>2, WalkTypes
  <2>. QED
    BY <1>1, <1>4, <1>5, <2>1 DEF QuietInv, Complete
<1>. QED
  BY <1>1, <1>3, <1>6, <1>7, <1>8 DEF WalkInv, WalkAccountsForChanges

\* An answer lists what stands between two boundaries.
LEMMA AnswerListed ==
    ASSUME WalkInv, Answer
    PROVE  \E lo, hi \in Nat :
             /\ lo <= hi /\ answer'.page \in Seq(Provider) /\ answer'.total \in Nat
             /\ Len(answer'.page) =
                   IF Len(providers) <= lo THEN 0
                   ELSE IF hi < Len(providers) THEN hi - lo ELSE Len(providers) - lo
             /\ \A i \in 1 .. Len(answer'.page) : answer'.page[i] = providers[lo + i]
             /\ \A i \in DOMAIN providers : (Passed(i) <=> i <= lo) /\ (Passed(i)' <=> i <= hi)
             /\ Complete' => Len(providers) <= hi
<1>1. /\ walk = "asked" /\ walk' = "answered" /\ providers' = providers
      /\ paginates' = paginates /\ pageSize' = pageSize /\ page' = page
  BY DEF Answer
<1>2. /\ WalkTypeOK /\ providers \in Seq(Provider) /\ Served \in Nat \ {0} /\ Served' = Served
      /\ page \in Nat \ {0} /\ DOMAIN providers = 1 .. Len(providers) /\ Len(providers) \in Nat
  BY <1>1, WalkTypes DEF WalkInv, WalkTypeOK, Served
<1>3. CASE paginates
  <2>. DEFINE lo == (page - 1) * Served
              hi == page * Served
              n == Len(providers)
              t == PageOf(providers, page, Served)
  <2>1. answer' = [page |-> t, total |-> PagesOf(providers, Served)]
    BY <1>3 DEF Answer
  <2>2. /\ t \in Seq(Provider) /\ lo \in Nat /\ hi = lo + Served
        /\ Len(t) = IF n <= lo THEN 0 ELSE IF hi < n THEN Served ELSE n - lo
        /\ \A i \in 1 .. Len(t) : t[i] = providers[lo + i]
        /\ PagesOf(providers, Served) \in Nat /\ (PagesOf(providers, Served) <= page => n <= hi)
    <3>1. /\ t \in Seq(Provider) /\ (page - 1) * Served \in Nat
          /\ page * Served = (page - 1) * Served + Served
          /\ Len(t) = IF Len(providers) <= (page - 1) * Served THEN 0
                      ELSE IF page * Served < Len(providers) THEN Served
                      ELSE Len(providers) - (page - 1) * Served
          /\ \A i \in 1 .. Len(t) : t[i] = providers[(page - 1) * Served + i]
          /\ PagesOf(providers, Served) \in Nat
          /\ PagesOf(providers, Served) <= page => Len(providers) <= page * Served
      BY <1>2, PageListed
    <3>. QED
      BY <3>1
  <2>3. \A i \in DOMAIN providers : (Passed(i) <=> i <= lo) /\ (Passed(i)' <=> i <= hi)
    BY <1>1, <1>2, <1>3 DEF Passed
  <2>. HIDE DEF lo, hi, t
  <2>4. hi \in Nat /\ lo <= hi /\ hi - lo = Served
    <3>1. Served \in Nat /\ lo \in Nat /\ hi = lo + Served
      BY <1>2, <2>2
    <3>. QED
      BY <3>1
  <2>5. ASSUME t = <<>> PROVE n <= lo
    <3>1. Len(t) = 0
      BY <2>5, EmptySeq
    <3>. QED
      <4>1. Served \in Nat \ {0} /\ n \in Nat /\ lo \in Nat
        BY <1>2, <2>2
      <4>2. Len(t) = IF n <= lo THEN 0 ELSE IF hi < n THEN Served ELSE n - lo
        BY <2>2
      <4>. HIDE DEF n
      <4>. QED
        BY <3>1, <4>1, <4>2
  <2>6. Complete' => n <= hi
    <3>1. Complete' => PagesOf(providers, Served) <= page \/ t = <<>>
      BY <1>1, <2>1 DEF Complete, IsLast
    <3>2. n \in Nat /\ lo \in Nat /\ hi \in Nat /\ lo <= hi
      BY <1>2, <2>2, <2>4
    <3>3. PagesOf(providers, Served) <= page => n <= hi
      BY <2>2
    <3>. HIDE DEF n
    <3>. QED
      BY <2>5, <3>1, <3>2, <3>3
  <2>7. Len(t) = IF n <= lo THEN 0 ELSE IF hi < n THEN hi - lo ELSE n - lo
    BY <2>2, <2>4
  <2>. QED
    BY <2>1, <2>2, <2>3, <2>4, <2>6, <2>7
<1>4. CASE ~paginates
  <2>. DEFINE n == Len(providers)
  <2>1. answer'.page = providers /\ answer'.total = 1
    BY <1>4 DEF Answer
  <2>2. page = 1 /\ (page - 1) * Served = 0
    <3>1. page = 1
      BY <1>1, <1>4 DEF WalkInv, ProgressInv, Walking
    <3>. QED
      BY <1>2, <3>1
  <2>3. \A i \in DOMAIN providers : (Passed(i) <=> i <= 0) /\ (Passed(i)' <=> i <= n)
    BY <1>1, <1>2, <1>4, <2>2 DEF Passed
  <2>4. Len(answer'.page) = IF n <= 0 THEN 0 ELSE IF n < n THEN n - 0 ELSE n - 0
    BY <1>2, <2>1
  <2>5. \A i \in 1 .. Len(answer'.page) : answer'.page[i] = providers[0 + i]
    BY <1>2, <2>1
  <2>. HIDE DEF n
  <2>6. n \in Nat /\ n <= n /\ 0 <= n
    BY <1>2 DEF n
  <2>. QED
    BY <1>2, <2>1, <2>3, <2>4, <2>5, <2>6 DEF n
<1>. QED
  BY <1>3, <1>4

LEMMA AnswerStep == ASSUME WalkInv, Answer PROVE WalkInv'
<1>1. /\ walk = "asked" /\ walk' = "answered" /\ providers' = providers /\ all' = all
      /\ paginates' = paginates /\ pageSize' = pageSize /\ page' = page
      /\ atStart' = atStart /\ inserted' = inserted /\ removed' = removed
  BY DEF Answer
<1>2. /\ WalkTypeOK /\ providers \in Seq(Provider) /\ all \in Seq(Provider)
      /\ DOMAIN providers = 1 .. Len(providers) /\ Len(providers) \in Nat
      /\ DOMAIN atStart = 1 .. Len(atStart) /\ inserted \in Nat
  BY WalkTypes DEF WalkInv, WalkTypeOK
<1>. DEFINE t == answer'.page
            n == Len(providers)
<1>3. PICK lo \in Nat, hi \in Nat :
        /\ lo <= hi /\ t \in Seq(Provider) /\ answer'.total \in Nat
        /\ Len(t) = IF n <= lo THEN 0 ELSE IF hi < n THEN hi - lo ELSE n - lo
        /\ \A i \in 1 .. Len(t) : t[i] = providers[lo + i]
        /\ \A i \in DOMAIN providers : (Passed(i) <=> i <= lo) /\ (Passed(i)' <=> i <= hi)
        /\ Complete' => n <= hi
  BY AnswerListed
<1>4. WalkTypeOK'
  <2>1. answer' = [page |-> t, total |-> answer'.total]
    BY DEF Answer
  <2>. HIDE DEF t
  <2>2. answer' \in [page : Seq(Provider), total : Nat]
    BY <1>3, <2>1
  <2>. QED
    BY <1>1, <1>2, <2>2 DEF WalkTypeOK
<1>. HIDE DEF t
<1>5. Shown = all /\ Shown' = all \o t
  <2>1. answer.page = <<>>
    BY <1>1 DEF WalkInv, ProgressInv, NoAnswer
  <2>. QED
    BY <1>1, <1>2, <2>1, ConcatEmptySeq DEF Shown, t
<1>6. /\ Len(t) \in Nat /\ Len(all) \in Nat /\ Len(Shown') = Len(all) + Len(t)
      /\ \A i \in 1 .. Len(all) + Len(t) :
            Shown'[i] = IF i <= Len(all) THEN all[i] ELSE t[i - Len(all)]
  BY <1>2, <1>3, <1>5, ConcatProperties, LenProperties
<1>7. \A i, j \in DOMAIN providers : providers[i] = providers[j] => i = j
  BY DEF WalkInv, RegistryInv
<1>8. \A k \in 1 .. Len(t) : lo + k \in DOMAIN providers /\ lo + k <= hi /\ t[k] = providers[lo + k]
  <2>1. \A k \in 1 .. Len(t) : lo + k \in 1 .. n /\ lo + k <= hi
    BY <1>2, <1>3
  <2>. QED
    BY <1>2, <1>3, <2>1
<1>9. \A i \in DOMAIN providers : lo < i /\ i <= hi => i - lo \in 1 .. Len(t) /\ lo + (i - lo) = i
  <2>1. Len(t) = IF n <= lo THEN 0 ELSE IF hi < n THEN hi - lo ELSE n - lo
    BY <1>3
  <2>2. DOMAIN providers = 1 .. n /\ n \in Nat /\ lo \in Nat /\ hi \in Nat /\ lo <= hi
    BY <1>2, <1>3
  <2>. HIDE DEF n
  <2>. QED
    BY <2>1, <2>2
<1>10. RegistryInv' /\ ProgressInv'
  <2>1. ~paginates => answer'.total = 1
    BY DEF Answer
  <2>. QED
    BY <1>1, <2>1 DEF WalkInv, RegistryInv, ProgressInv, Walking, Throughout
<1>11. AccountInv'
  <2>. SUFFICES ASSUME NEW i \in DOMAIN providers, providers[i] \in ToSet(atStart)
                PROVE  /\ Cardinality(Places(Shown', providers[i]))
                             <= inserted + (IF Passed(i)' THEN 1 ELSE 0)
                       /\ Places(Shown', providers[i]) = {} /\ (Passed(i)' \/ Complete')
                             => Missed(providers[i])
    BY <1>1 DEF AccountInv, Missed
  <2>. DEFINE p == providers[i]
              C == Cardinality(Places(all, p))
              D == Cardinality(Places(all \o t, p))
  <2>1. /\ C <= inserted + (IF Passed(i) THEN 1 ELSE 0)
        /\ Places(all, p) = {} /\ Passed(i) => Missed(p)
    BY <1>1, <1>5 DEF WalkInv, AccountInv, Walking
  <2>2. \A j \in 1 .. Len(t) : t[j] = p <=> lo + j = i
    BY <1>7, <1>8
  <2>3. \A j, k \in 1 .. Len(t) : t[j] = p /\ t[k] = p => j = k
    BY <1>3, <2>2
  <2>4. /\ C \in Nat /\ D \in Nat /\ D <= C + 1
        /\ (\A k \in 1 .. Len(t) : t[k] # p) => Places(all \o t, p) = Places(all, p)
        /\ Places(all \o t, p) = {} =>
              Places(all, p) = {} /\ \A k \in 1 .. Len(t) : t[k] # p
    <3>1. all \in Seq(Provider) /\ t \in Seq(Provider)
      BY <1>2, <1>3
    <3>. HIDE DEF p
    <3>2. /\ Cardinality(Places(all, p)) \in Nat
          /\ Cardinality(Places(all \o t, p)) \in Nat
          /\ Cardinality(Places(all \o t, p)) <= Cardinality(Places(all, p)) + 1
          /\ (\A k \in 1 .. Len(t) : t[k] # p) => Places(all \o t, p) = Places(all, p)
          /\ Places(all \o t, p) = {} =>
                Places(all, p) = {} /\ \A k \in 1 .. Len(t) : t[k] # p
      BY <2>3, <3>1, ListingsAdded
    <3>. QED
      BY <3>2
  <2>5. (Passed(i) <=> i <= lo) /\ (Passed(i)' <=> i <= hi) /\ i \in Nat /\ i <= n /\ n \in Nat
    <3>1. (Passed(i) <=> i <= lo) /\ (Passed(i)' <=> i <= hi)
      BY <1>3
    <3>2. i \in 1 .. n /\ n \in Nat
      BY <1>2
    <3>. QED
      BY <3>1, <3>2
  <2>. HIDE DEF p, C, D
  <2>6. CASE lo < i /\ i <= hi
    <3>1. ~Passed(i) /\ Passed(i)'
      BY <1>3, <2>5, <2>6
    <3>2. D <= inserted + 1
      BY <1>2, <2>1, <2>4, <3>1
    <3>3. i - lo \in 1 .. Len(t) /\ t[i - lo] = p
      BY <1>9, <2>2, <2>6
    <3>4. Places(all \o t, p) # {}
      BY <2>4, <3>3
    <3>. QED
      BY <1>5, <3>1, <3>2, <3>4 DEF D, p
  <2>7. CASE ~(lo < i /\ i <= hi)
    <3>1. \A k \in 1 .. Len(t) : t[k] # p
      <4>1. \A k \in 1 .. Len(t) : lo < lo + k /\ lo + k <= hi
        BY <1>3, <1>8
      <4>. QED
        BY <2>2, <2>7, <4>1
    <3>2. Places(all \o t, p) = Places(all, p)
      BY <2>4, <3>1
    <3>3. D = C
      BY <3>2 DEF C, D
    <3>4. Passed(i) <=> Passed(i)'
      BY <1>3, <2>5, <2>7
    <3>5. Complete' => Passed(i)'
      <4>1. Complete' => n <= hi
        BY <1>3
      <4>2. hi \in Nat
        OBVIOUS
      <4>. HIDE DEF n
      <4>. QED
        BY <2>5, <4>1, <4>2
    <3>. QED
      BY <1>5, <2>1, <3>2, <3>3, <3>4, <3>5 DEF D, C, p
  <2>. QED
    BY <2>6, <2>7
<1>12. QuietInv'
  <2>. SUFFICES ASSUME inserted = 0, removed = {}
                PROVE  /\ providers = atStart
                       /\ Len(Shown') <= n
                       /\ \A i \in 1 .. n : i <= Len(Shown') <=> Passed(i)'
                       /\ \A i \in 1 .. Len(Shown') : Shown'[i] = providers[i]
                       /\ Complete' => Len(Shown') = n
    BY <1>1 DEF QuietInv
  <2>1. /\ providers = atStart /\ Len(all) <= n
        /\ \A i \in 1 .. n : i <= Len(all) <=> Passed(i)
        /\ \A i \in 1 .. Len(all) : all[i] = providers[i]
    BY <1>1, <1>5 DEF WalkInv, QuietInv, Walking
  <2>2. \A i \in 1 .. n : (i <= Len(all) <=> i <= lo) /\ (Passed(i)' <=> i <= hi)
    BY <1>2, <1>3, <2>1
  <2>3. Complete' => n <= hi
    BY <1>3
  <2>4. n \in Nat
    BY <1>2
  <2>. HIDE DEF n
  <2>5. Len(all) = IF n <= lo THEN n ELSE lo
    <3>1. CASE n <= lo
      <4>1. n # 0 => n <= Len(all)
        BY <2>2, <2>4, <3>1
      <4>. QED
        BY <1>6, <2>1, <2>4, <3>1, <4>1
    <3>2. CASE lo < n
      <4>1. lo # 0 => lo <= Len(all)
        BY <1>3, <2>2, <2>4, <3>2
      <4>2. ~(lo + 1 <= Len(all))
        <5>1. lo + 1 \in 1 .. n /\ ~(lo + 1 <= lo)
          BY <1>3, <2>4, <3>2
        <5>. QED
          BY <2>2, <5>1
      <4>. QED
        BY <1>3, <1>6, <2>4, <3>2, <4>1, <4>2
    <3>. QED
      BY <1>3, <2>4, <3>1, <3>2
  <2>6. Len(t) = IF n <= lo THEN 0 ELSE IF hi < n THEN hi - lo ELSE n - lo
    BY <1>3 DEF n
  <2>7. Len(Shown') = IF n <= lo THEN n ELSE IF hi < n THEN hi ELSE n
    BY <1>3, <1>6, <2>4, <2>5, <2>6
  <2>8. Len(Shown') <= n /\ (Complete' => Len(Shown') = n)
    BY <1>3, <2>3, <2>4, <2>7
  <2>9. \A i \in 1 .. n : i <= Len(Shown') <=> i <= hi
    BY <1>3, <2>4, <2>7
  <2>10. ASSUME NEW i \in 1 .. Len(Shown') PROVE Shown'[i] = providers[i]
    <3>1. CASE i <= Len(all)
      BY <1>6, <2>1, <2>10, <3>1
    <3>2. CASE ~(i <= Len(all))
      <4>1. Len(all) = lo /\ i - lo \in 1 .. Len(t) /\ lo + (i - lo) = i
        BY <1>3, <1>6, <2>4, <2>5, <2>6, <2>10, <3>2
      <4>2. Shown'[i] = t[i - lo]
        BY <1>6, <2>10, <3>2, <4>1
      <4>. QED
        BY <1>8, <4>1, <4>2
    <3>. QED
      BY <3>1, <3>2
  <2>. QED
    BY <2>1, <2>2, <2>8, <2>9, <2>10
<1>. QED
  BY <1>1, <1>4, <1>10, <1>11, <1>12 DEF WalkInv, WalkAccountsForChanges

LEMMA CollectStep == ASSUME WalkInv, Collect PROVE WalkInv'
<1>1. /\ walk = "answered" /\ all' = Shown /\ answer' = NoAnswer
      /\ providers' = providers /\ paginates' = paginates /\ pageSize' = pageSize
      /\ atStart' = atStart /\ inserted' = inserted /\ removed' = removed
  BY DEF Collect, Shown
<1>2. /\ WalkTypeOK /\ Shown \in Seq(Provider) /\ page \in Nat \ {0} /\ inserted \in Nat
      /\ DOMAIN Shown = 1 .. Len(Shown) /\ Len(Shown) \in Nat /\ atStart \in Seq(Provider)
  BY WalkTypes DEF WalkInv, WalkTypeOK
<1>3. Shown' = Shown
  <2>1. Shown' = Shown \o <<>>
    BY <1>1 DEF Shown, NoAnswer
  <2>. QED
    BY <1>2, <2>1, ConcatEmptySeq
<1>4. WalkTypeOK'
  <2>1. answer' \in [page : Seq(Provider), total : Nat]
    BY <1>1, EmptySeq DEF NoAnswer
  <2>2. page' \in Nat \ {0} /\ walk' \in {"returned", "asked"}
    BY <1>2 DEF Collect
  <2>. QED
    BY <1>1, <1>2, <2>1, <2>2 DEF WalkTypeOK
<1>5. RegistryInv'
  BY <1>1 DEF WalkInv, RegistryInv, Walking, Throughout
<1>6. CASE IsLast
  <2>1. walk' = "returned" /\ Complete
    BY <1>1, <1>6 DEF Collect, Complete
  <2>2. ASSUME NEW p \in Throughout
        PROVE  /\ Cardinality(Places(Shown, p)) <= 1 + inserted
               /\ Places(Shown, p) = {} => Missed(p)
    <3>1. PICK i \in DOMAIN providers : providers[i] = p
      BY <1>1 DEF WalkInv, RegistryInv, Walking
    <3>2. providers[i] \in ToSet(atStart)
      BY <3>1 DEF Throughout
    <3>3. /\ Cardinality(Places(Shown, p)) <= inserted + (IF Passed(i) THEN 1 ELSE 0)
          /\ Places(Shown, p) = {} => Missed(p)
      BY <1>1, <2>1, <3>1, <3>2 DEF WalkInv, AccountInv, Walking
    <3>4. Cardinality(Places(Shown, p)) \in Nat
      BY <1>2, PlacesCounted
    <3>. QED
      BY <1>2, <3>3, <3>4
  <2>3. ASSUME inserted = 0, removed = {} PROVE Shown = atStart
    <3>1. Len(Shown) = Len(atStart) /\ \A i \in 1 .. Len(Shown) : Shown[i] = atStart[i]
      BY <1>1, <2>1, <2>3 DEF WalkInv, QuietInv, Walking
    <3>. QED
      BY <1>2, <3>1, SeqEqual
  <2>4. WalkAccountsForChanges'
    <3>1. Throughout' = Throughout /\ \A p : Listings(p)' = Places(Shown, p)
      BY <1>1 DEF Throughout, Listings, Places
    <3>2. \A p : Missed(p) <=> \E q \in removed' : \A i, j \in DOMAIN atStart' :
                                   atStart'[i] = q /\ atStart'[j] = p => i < j
      BY <1>1 DEF Missed
    <3>. QED
      BY <1>1, <2>2, <2>3, <3>1, <3>2 DEF WalkAccountsForChanges
  <2>. QED
    BY <1>4, <1>5, <2>1, <2>4
       DEF WalkInv, ProgressInv, AccountInv, QuietInv, Walking
<1>7. CASE ~IsLast
  <2>1. walk' = "asked" /\ page' = page + 1 /\ ~Complete /\ ~Complete'
    BY <1>1, <1>7 DEF Collect, Complete
  <2>2. paginates
    BY <1>1, <1>7 DEF WalkInv, ProgressInv, Walking, IsLast
  <2>3. \A i : Passed(i)' <=> Passed(i)
    <3>1. Served' = Served /\ page' - 1 = page
      BY <1>1, <1>2, <2>1 DEF Served
    <3>. QED
      BY <1>1, <2>1, <2>2, <3>1 DEF Passed
  <2>4. ProgressInv'
    BY <1>1, <2>1, <2>2 DEF ProgressInv
  <2>5. AccountInv'
    BY <1>1, <1>3, <2>1, <2>3 DEF WalkInv, AccountInv, Walking, Missed
  <2>6. QuietInv'
    BY <1>1, <1>3, <2>1, <2>3 DEF WalkInv, QuietInv, Walking
  <2>. QED
    BY <1>4, <1>5, <2>1, <2>4, <2>5, <2>6 DEF WalkInv, WalkAccountsForChanges
<1>. QED
  BY <1>6, <1>7

\* A registration moves what stands after it one place on.
LEMMA RegisterStep ==
    ASSUME WalkInv, NEW p \in Provider, NEW k \in 1 .. Len(providers) + 1, Register(p, k)
    PROVE  WalkInv'
<1>1. /\ Walking /\ Walking' /\ walk' = walk /\ paginates' = paginates /\ pageSize' = pageSize
      /\ page' = page /\ all' = all /\ answer' = answer /\ atStart' = atStart
      /\ removed' = removed /\ inserted' = inserted + 1
      /\ p \notin ToSet(providers) /\ p \notin ToSet(atStart)
  BY DEF Register, Walking
<1>2. /\ WalkTypeOK /\ providers \in Seq(Provider) /\ inserted \in Nat
      /\ DOMAIN providers = 1 .. Len(providers) /\ Len(providers) \in Nat
  BY WalkTypes DEF WalkInv, WalkTypeOK
<1>. DEFINE n == Len(providers)
            old(j) == IF j < k THEN j ELSE j - 1
<1>3. /\ providers' \in Seq(Provider) /\ Len(providers') = n + 1
      /\ \A j \in 1 .. n + 1 : providers'[j] =
            IF j < k THEN providers[j] ELSE IF j = k THEN p ELSE providers[j - 1]
  <2>1. providers' = InsertAt(providers, k, p)
    BY DEF Register
  <2>2. /\ InsertAt(providers, k, p) \in Seq(Provider)
        /\ Len(InsertAt(providers, k, p)) = Len(providers) + 1
        /\ \A j \in 1 .. Len(providers) + 1 : InsertAt(providers, k, p)[j] =
              IF j < k THEN providers[j] ELSE IF j = k THEN p ELSE providers[j - 1]
    BY <1>2, InsertedAt
  <2>. QED
    BY <2>1, <2>2
<1>4. DOMAIN providers' = 1 .. n + 1
  BY <1>3, LenProperties
<1>5. \A j \in DOMAIN providers' :
         \/ j = k /\ providers'[j] = p
         \/ j # k /\ old(j) \in DOMAIN providers /\ providers'[j] = providers[old(j)] /\ old(j) <= j
  <2>. TAKE j \in DOMAIN providers'
  <2>1. j \in 1 .. n + 1 /\ n \in Nat
    BY <1>2, <1>4
  <2>2. CASE j < k
    BY <1>2, <1>3, <2>1, <2>2
  <2>3. CASE j = k
    BY <1>3, <2>1, <2>3
  <2>4. CASE j > k
    BY <1>2, <1>3, <2>1, <2>4
  <2>. QED
    BY <2>1, <2>2, <2>3, <2>4
<1>6. \A i, j \in DOMAIN providers' : i # k /\ j # k =>
         (i < j <=> old(i) < old(j)) /\ (old(i) = old(j) => i = j)
  BY <1>2, <1>4
<1>7. \A i \in DOMAIN providers : \E j \in DOMAIN providers' : providers'[j] = providers[i]
  <2>. TAKE i \in DOMAIN providers
  <2>1. CASE i < k
    BY <1>2, <1>3, <1>4, <2>1
  <2>2. CASE ~(i < k)
    <3>1. i + 1 \in DOMAIN providers' /\ ~(i + 1 < k) /\ i + 1 # k /\ (i + 1) - 1 = i
      BY <1>2, <1>4, <2>2
    <3>. QED
      BY <1>3, <1>4, <3>1
  <2>. QED
    BY <2>1, <2>2
<1>. HIDE DEF n, old
<1>8. \A i \in DOMAIN providers : providers[i] # p
  BY <1>1 DEF ToSet
<1>9. \A a \in DOMAIN atStart : atStart[a] # p
  BY <1>1 DEF ToSet
<1>10. WalkTypeOK'
  <2>1. inserted' \in Nat
    BY <1>1, <1>2
  <2>. QED
    BY <1>1, <1>2, <1>3, <2>1 DEF WalkTypeOK
<1>11. RegistryInv'
  <2>1. \A i, j \in DOMAIN providers' : providers'[i] = providers'[j] => i = j
    BY <1>5, <1>6, <1>8 DEF WalkInv, RegistryInv
  <2>2. ASSUME NEW i \in DOMAIN providers', NEW j \in DOMAIN providers',
               NEW a \in DOMAIN atStart', NEW b \in DOMAIN atStart',
               i < j, providers'[i] = atStart'[a], providers'[j] = atStart'[b]
        PROVE  a < b
    <3>1. i # k /\ j # k
      BY <1>1, <1>5, <1>9, <2>2
    <3>2. old(i) < old(j) /\ old(i) \in DOMAIN providers /\ old(j) \in DOMAIN providers
          /\ providers'[i] = providers[old(i)] /\ providers'[j] = providers[old(j)]
      BY <1>5, <1>6, <2>2, <3>1
    <3>3. \A u, v \in DOMAIN providers :
             u < v /\ providers[u] = atStart[a] /\ providers[v] = atStart[b] => a < b
      BY <1>1, <2>2 DEF WalkInv, RegistryInv
    <3>. QED
      BY <1>1, <2>2, <3>2, <3>3
  <2>3. \A q \in Throughout' : \E i \in DOMAIN providers' : providers'[i] = q
    <3>1. Throughout' = Throughout
      BY <1>1 DEF Throughout
    <3>. QED
      BY <1>1, <1>7, <3>1 DEF WalkInv, RegistryInv
  <2>. QED
    BY <2>1, <2>2, <2>3 DEF RegistryInv
<1>12. ProgressInv'
  BY <1>1 DEF WalkInv, ProgressInv, Walking
<1>13. Shown' = Shown /\ (Complete' <=> Complete) /\ (\A i : Passed(i)' <=> Passed(i))
       /\ (\A q : Missed(q)' <=> Missed(q))
  BY <1>1 DEF Shown, Complete, IsLast, Passed, Served, Missed
<1>14. AccountInv'
  <2>. SUFFICES ASSUME NEW j \in DOMAIN providers', providers'[j] \in ToSet(atStart)
                PROVE  /\ Cardinality(Places(Shown, providers'[j]))
                             <= inserted + 1 + (IF Passed(j) THEN 1 ELSE 0)
                       /\ Places(Shown, providers'[j]) = {} /\ (Passed(j) \/ Complete)
                             => Missed(providers'[j])
    BY <1>1, <1>13 DEF AccountInv
  <2>. DEFINE i == old(j)
              C == Cardinality(Places(Shown, providers'[j]))
  <2>1. i \in DOMAIN providers /\ providers'[j] = providers[i] /\ i <= j
    BY <1>1, <1>5
  <2>2. /\ C <= inserted + (IF Passed(i) THEN 1 ELSE 0)
        /\ Places(Shown, providers'[j]) = {} /\ (Passed(i) \/ Complete)
              => Missed(providers'[j])
    BY <1>1, <2>1 DEF WalkInv, AccountInv
  <2>3. Passed(j) => Passed(i)
    <3>1. i \in Nat /\ j \in Nat /\ i <= j
      BY <1>2, <1>4, <2>1
    <3>2. (page - 1) * Served \in Int /\ page * Served \in Int
      <4>1. page \in Nat /\ Served \in Nat
        BY <1>2, WalkTypes
      <4>. QED
        BY <4>1
    <3>. DEFINE lo == (page - 1) * Served
                hi == page * Served
    <3>. HIDE DEF i
    <3>. QED
      <4>. HIDE DEF lo, hi
      <4>1. Passed(j) <=> IF walk = "asked" THEN j <= lo ELSE paginates => j <= hi
        BY DEF Passed, lo, hi
      <4>2. Passed(i) <=> IF walk = "asked" THEN i <= lo ELSE paginates => i <= hi
        BY DEF Passed, lo, hi
      <4>3. lo \in Int /\ hi \in Int
        BY <3>2 DEF lo, hi
      <4>. QED
        BY <3>1, <4>1, <4>2, <4>3
  <2>4. C \in Nat
    BY <1>2, WalkTypes, PlacesCounted
  <2>. HIDE DEF i, C
  <2>5. C <= inserted + 1 + (IF Passed(j) THEN 1 ELSE 0)
    BY <1>2, <2>2, <2>4
  <2>. QED
    BY <2>2, <2>3, <2>5 DEF C
<1>15. QuietInv'
  BY <1>1, <1>2 DEF QuietInv
<1>. QED
  BY <1>1, <1>10, <1>11, <1>12, <1>14, <1>15 DEF WalkInv, WalkAccountsForChanges, Walking

\* A removal moves what stands after it one place back; what stood after the boundary and
\* no longer does has lost one that stood before it.
LEMMA UnregisterStep ==
    ASSUME WalkInv, NEW k \in 1 .. Len(providers), Unregister(k)
    PROVE  WalkInv'
<1>1. /\ Walking /\ Walking' /\ walk' = walk /\ paginates' = paginates /\ pageSize' = pageSize
      /\ page' = page /\ all' = all /\ answer' = answer /\ atStart' = atStart
      /\ inserted' = inserted /\ removed' = removed \cup {providers[k]}
  BY DEF Unregister, Walking
<1>2. /\ WalkTypeOK /\ providers \in Seq(Provider) /\ inserted \in Nat
      /\ DOMAIN providers = 1 .. Len(providers) /\ Len(providers) \in Nat
      /\ DOMAIN atStart = 1 .. Len(atStart) /\ Shown \in Seq(Provider)
  BY WalkTypes DEF WalkInv, WalkTypeOK
<1>. DEFINE n == Len(providers)
            old(j) == IF j < k THEN j ELSE j + 1
            q == providers[k]
<1>3. /\ providers' \in Seq(Provider) /\ Len(providers') = n - 1
      /\ \A j \in 1 .. n - 1 : providers'[j] = IF j < k THEN providers[j] ELSE providers[j + 1]
  <2>1. providers' = RemoveAt(providers, k)
    BY DEF Unregister
  <2>2. /\ RemoveAt(providers, k) \in Seq(Provider)
        /\ Len(RemoveAt(providers, k)) = Len(providers) - 1
        /\ \A j \in 1 .. Len(providers) - 1 : RemoveAt(providers, k)[j] =
              IF j < k THEN providers[j] ELSE providers[j + 1]
    BY <1>2, RemovedAt
  <2>. QED
    BY <2>1, <2>2
<1>4. DOMAIN providers' = 1 .. n - 1 /\ k \in DOMAIN providers
  BY <1>2, <1>3, LenProperties
<1>5. \A j \in DOMAIN providers' :
         old(j) \in DOMAIN providers /\ old(j) # k /\ providers'[j] = providers[old(j)]
  <2>. TAKE j \in DOMAIN providers'
  <2>1. j \in 1 .. n - 1 /\ n \in Nat
    BY <1>2, <1>4
  <2>2. CASE j < k
    BY <1>2, <1>3, <2>1, <2>2
  <2>3. CASE ~(j < k)
    BY <1>2, <1>3, <2>1, <2>3
  <2>. QED
    BY <2>2, <2>3
<1>6. \A i, j \in DOMAIN providers' :
         (i < j <=> old(i) < old(j)) /\ (old(i) = old(j) => i = j)
  BY <1>2, <1>4
<1>7. \A i \in DOMAIN providers :
         i # k => \E j \in DOMAIN providers' : providers'[j] = providers[i]
  <2>. TAKE i \in DOMAIN providers
  <2>1. CASE i < k
    BY <1>2, <1>3, <1>4, <2>1
  <2>2. CASE i > k
    <3>1. i - 1 \in DOMAIN providers' /\ ~(i - 1 < k) /\ (i - 1) + 1 = i
      BY <1>2, <1>4, <2>2
    <3>. QED
      BY <1>3, <1>4, <3>1
  <2>. QED
    BY <1>2, <2>1, <2>2
<1>8. \A j \in DOMAIN providers' : j \in Nat /\ (old(j) = j \/ (old(j) = j + 1 /\ k < old(j)))
  BY <1>2, <1>4
<1>. HIDE DEF n, old
<1>9. \A i, j \in DOMAIN providers : providers[i] = providers[j] => i = j
  BY DEF WalkInv, RegistryInv
<1>10. WalkTypeOK'
  <2>1. providers[k] \in Provider
    BY <1>2, <1>4, ElementOfSeq
  <2>. QED
    BY <1>1, <1>2, <1>3, <2>1 DEF WalkTypeOK
<1>11. RegistryInv'
  <2>1. \A i, j \in DOMAIN providers' : providers'[i] = providers'[j] => i = j
    BY <1>5, <1>6, <1>9
  <2>2. ASSUME NEW i \in DOMAIN providers', NEW j \in DOMAIN providers',
               NEW a \in DOMAIN atStart', NEW b \in DOMAIN atStart',
               i < j, providers'[i] = atStart'[a], providers'[j] = atStart'[b]
        PROVE  a < b
    <3>1. old(i) < old(j) /\ old(i) \in DOMAIN providers /\ old(j) \in DOMAIN providers
          /\ providers'[i] = providers[old(i)] /\ providers'[j] = providers[old(j)]
      BY <1>5, <1>6, <2>2
    <3>2. \A u, v \in DOMAIN providers :
             u < v /\ providers[u] = atStart[a] /\ providers[v] = atStart[b] => a < b
      BY <1>1, <2>2 DEF WalkInv, RegistryInv
    <3>. QED
      BY <1>1, <2>2, <3>1, <3>2
  <2>3. \A p \in Throughout' : \E i \in DOMAIN providers' : providers'[i] = p
    <3>. TAKE p \in Throughout'
    <3>1. p \in Throughout /\ p # providers[k]
      BY <1>1 DEF Throughout
    <3>2. PICK i \in DOMAIN providers : providers[i] = p
      BY <1>1, <3>1 DEF WalkInv, RegistryInv
    <3>. QED
      BY <1>7, <3>1, <3>2
  <2>. QED
    BY <2>1, <2>2, <2>3 DEF RegistryInv
<1>12. ProgressInv'
  BY <1>1 DEF WalkInv, ProgressInv, Walking
<1>13. Shown' = Shown /\ (Complete' <=> Complete) /\ (\A i : Passed(i)' <=> Passed(i))
  BY <1>1 DEF Shown, Complete, IsLast, Passed, Served
<1>14. \A p : Missed(p) => Missed(p)'
  BY <1>1 DEF Missed
<1>15. AccountInv'
  <2>. SUFFICES ASSUME NEW j \in DOMAIN providers', providers'[j] \in ToSet(atStart)
                PROVE  /\ Cardinality(Places(Shown, providers'[j]))
                             <= inserted + (IF Passed(j) THEN 1 ELSE 0)
                       /\ Places(Shown, providers'[j]) = {} /\ (Passed(j) \/ Complete)
                             => \A p : p = providers'[j] => Missed(p)'
    BY <1>1, <1>13 DEF AccountInv, Missed
  <2>. DEFINE i == old(j)
              C == Cardinality(Places(Shown, providers'[j]))
  <2>1. i \in DOMAIN providers /\ providers'[j] = providers[i] /\ i \in Nat /\ j \in Nat
    BY <1>2, <1>5, <1>8
  <2>2. /\ C <= inserted + (IF Passed(i) THEN 1 ELSE 0)
        /\ Places(Shown, providers'[j]) = {} /\ (Passed(i) \/ Complete)
              => Missed(providers'[j])
    BY <1>1, <2>1 DEF WalkInv, AccountInv
  <2>3. C \in Nat
    BY <1>2, PlacesCounted
  <2>4. CASE i = j
    BY <1>14, <2>2, <2>4
  <2>5. CASE i # j
    <3>1. i = j + 1 /\ k < i
      BY <1>8, <2>5
    <3>2. Passed(i) => Passed(j)
      <4>. DEFINE lo == (page - 1) * Served
                  hi == page * Served
      <4>1. lo \in Int /\ hi \in Int
        <5>1. page \in Nat /\ Served \in Nat
          BY <1>2, WalkTypes
        <5>. QED
          BY <5>1
      <4>2. Passed(j) <=> IF walk = "asked" THEN j <= lo ELSE paginates => j <= hi
        BY DEF Passed
      <4>3. Passed(i) <=> IF walk = "asked" THEN i <= lo ELSE paginates => i <= hi
        BY DEF Passed
      <4>. HIDE DEF lo, hi, i
      <4>. QED
        BY <2>1, <3>1, <4>1, <4>2, <4>3
    <3>3. \A p : p = providers'[j] => Missed(p)'
      <4>1. \A a, b \in DOMAIN atStart : atStart[a] = q /\ atStart[b] = providers[i] => a < b
        <5>1. k \in DOMAIN providers /\ i \in DOMAIN providers /\ k < i
          BY <1>4, <2>1, <3>1
        <5>. HIDE DEF i
        <5>. QED
          BY <1>1, <5>1 DEF WalkInv, RegistryInv
      <4>2. q \in removed'
        BY <1>1
      <4>. HIDE DEF i, q
      <4>. QED
        BY <1>1, <2>1, <4>1, <4>2 DEF Missed
    <3>. HIDE DEF i, C
    <3>4. C <= inserted + (IF Passed(j) THEN 1 ELSE 0)
      BY <1>2, <2>2, <2>3, <3>2
    <3>. QED
      BY <3>3, <3>4 DEF C
  <2>. QED
    BY <2>4, <2>5
<1>16. QuietInv'
  <2>1. removed' # {}
    BY <1>1
  <2>. QED
    BY <2>1 DEF QuietInv
<1>. QED
  BY <1>1, <1>10, <1>11, <1>12, <1>15, <1>16 DEF WalkInv, WalkAccountsForChanges, Walking

LEMMA WalkStep == WalkInv /\ [WalkNext]_walkVars => WalkInv'
<1>. SUFFICES ASSUME WalkInv, [WalkNext]_walkVars PROVE WalkInv'
  OBVIOUS
<1>1. CASE PageFails
  <2>1. WalkTypeOK'
    BY <1>1, EmptySeq DEF PageFails, WalkInv, WalkTypeOK
  <2>. QED
    BY <1>1, <2>1 DEF PageFails, WalkInv, RegistryInv, ProgressInv, AccountInv, QuietInv, Walking,
                      WalkAccountsForChanges
<1>2. CASE WalkOver
  <2>1. WalkTypeOK'
    BY <1>2 DEF WalkOver, WalkInv, WalkTypeOK
  <2>. QED
    BY <1>2, <2>1 DEF WalkOver, WalkInv, RegistryInv, ProgressInv, AccountInv, QuietInv, Walking,
                      WalkAccountsForChanges
<1>3. CASE UNCHANGED walkVars
  <2>1. /\ Shown' = Shown /\ (Complete' <=> Complete) /\ (\A i : Passed(i)' <=> Passed(i))
        /\ (\A p : (Missed(p)' <=> Missed(p)) /\ Listings(p)' = Listings(p))
        /\ Throughout' = Throughout
    BY <1>3 DEF walkVars, Shown, Complete, IsLast, Passed, Served, Missed, Listings, Throughout
  <2>. QED
    BY <1>3, <2>1 DEF walkVars, WalkInv, WalkTypeOK, RegistryInv, ProgressInv, AccountInv,
                      QuietInv, Walking, WalkAccountsForChanges
<1>. QED
  BY <1>1, <1>2, <1>3, StartStep, AnswerStep, CollectStep, RegisterStep, UnregisterStep
     DEF WalkNext

LEMMA WalkHolds == WalkSpec => []WalkInv
BY WalkInitially, WalkStep, PTL DEF WalkSpec

\* The pages stay natural numbers and what is collected stays providers, whatever the
\* page sizes are and however often the registry changes (listAllProviders).
THEOREM WalkTypeCorrect == WalkSpec => []WalkTypeOK
<1>1. WalkInv => WalkTypeOK
  BY DEF WalkInv
<1>. QED
  BY <1>1, WalkHolds, PTL

\* Every provider that stays registered is accounted for: missed only after a removal
\* before it, repeated only by registrations; and a registry that is left alone is listed
\* whole and in its order (listAllProviders).
THEOREM WalkAccounts == WalkSpec => []WalkAccountsForChanges
<1>1. WalkInv => WalkAccountsForChanges
  BY DEF WalkInv
<1>. QED
  BY <1>1, WalkHolds, PTL
=============================================================================

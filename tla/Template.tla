------------------------------- MODULE Template -------------------------------
(***************************************************************************)
(* How a paragraph of a printed form is filled. Word cuts the text of a    *)
(* paragraph into runs anywhere, in the middle of a placeholder too, and   *)
(* writes some characters as entities of several bytes. fillParagraph      *)
(* joins the runs, looks for {{key}} in the unescaped text, maps what it   *)
(* found back to bytes of the escaped text, and edits each run on its own. *)
(*                                                                         *)
(* A byte here is one of: the braces that open or close a placeholder, a   *)
(* key that has a value, and the two halves of an entity: one of the five  *)
(* that unescapeXML knows, or another short enough to be one for           *)
(* escapedOffsets (&#8217;); longer ones are text like any other to both.  *)
(* Braces and keys out of their order are text like any other, and an      *)
(* entity between braces is a placeholder of an unknown key. Offsets count *)
(* bytes, or characters, from 0 as in the code; the value that goes in is  *)
(* one mark.                                                               *)
(***************************************************************************)
EXTENDS Integers, Sequences, FiniteSets, SequencesExt

CONSTANTS
  MaxRuns,    \* bound on the runs of a paragraph
  MaxLength   \* bound on its characters

ASSUME TemplateBounds == MaxRuns \in Nat \ {0} /\ MaxLength \in Nat

VARIABLES
  runs,       \* the text nodes of the paragraph: sequences of bytes
  filled      \* whether it has been filled

templateVars == <<runs, filled>>

\* A character as the reader sees it, and its bytes in the XML.
Char == {"open", "key", "close", "entity", "numeric"}
Bytes(ch) == CASE ch = "entity" -> <<"&", ";">>
               [] ch = "numeric" -> <<"&#", ";">>
               [] OTHER -> <<ch>>
Value == "value"
Byte == {"open", "key", "close", "&", "&#", ";", Value}

Escaped(chars) == FlattenSeq([i \in DOMAIN chars |-> Bytes(chars[i])])

\* Word's paragraphs: the characters, cut into runs at any places (an empty run too).
Cuts(n) == {c \in [0 .. MaxRuns -> 0 .. n] :
              c[0] = 0 /\ c[MaxRuns] = n /\ \A i \in 1 .. MaxRuns : c[i - 1] <= c[i]}

CutAt(chars, c) == [i \in 1 .. MaxRuns |-> SubSeq(chars, c[i - 1] + 1, c[i])]

TemplateTypeOK == /\ runs \in [1 .. MaxRuns -> Seq(Byte)]
                  /\ filled \in BOOLEAN

-----------------------------------------------------------------------------
(* fillParagraph *)

\* paragraphText: the bytes of all runs one after the other, and where each begins.
Text(rs) == FlattenSeq(rs)
Start(rs, i) == Len(FlattenSeq(SubSeq(rs, 1, i - 1)))
End(rs, i) == Start(rs, i) + Len(rs[i])

\* Where characters start, if an entity that begins with one of `first' is one character: its
\* second half disappears, and its first is the character.
Starts(text, first) == {i \in DOMAIN text : ~(text[i] = ";" /\ i > 1 /\ text[i - 1] \in first)}

\* unescapeXML replaces the five named entities; escapedOffsets steps over whatever ends in a
\* semicolon at most six bytes after its ampersand.
PlainStarts(text) == Starts(text, {"&"})
SkipStarts(text) == Starts(text, {"&", "&#"})

\* The k-th of some places.
Nth(places, k) == CHOOSE i \in places : Cardinality({j \in places : j <= i}) = k

Unescape(text) == [k \in 1 .. Cardinality(PlainStarts(text)) |-> text[Nth(PlainStarts(text), k)]]

\* Offsets of the characters at which {{key}} is found, from its first brace to past its last.
Matches(plain) == {m \in 0 .. Len(plain) - 3 :
                     plain[m + 1] = "open" /\ plain[m + 2] = "key" /\ plain[m + 3] = "close"}

\* escapedOffsets: the byte at which it takes the p-th character to start, or the end.
\* Fault: characters are taken for bytes.
MapPosNot(text, p) == p

MapPos(text, p) ==
  IF p >= Cardinality(SkipStarts(text)) THEN Len(text) ELSE Nth(SkipStarts(text), p + 1) - 1

\* What an edit [from, to) means for the run i, within its own bytes; the value goes into
\* the first run that the edit touches.
Larger(a, b) == IF a > b THEN a ELSE b
Smaller(a, b) == IF a < b THEN a ELSE b
Touches(rs, e, i) == End(rs, i) > e.from /\ Start(rs, i) < e.to
SubEdit(rs, e, i) ==
  [lo |-> Larger(e.from, Start(rs, i)) - Start(rs, i),
   hi |-> Smaller(e.to, End(rs, i)) - Start(rs, i),
   value |-> IF \E j \in 1 .. i - 1 : Touches(rs, e, j) THEN <<>> ELSE <<Value>>]

\* The edits of a run are made from the right to the left: after[k] has made those at its
\* last k places, the first of which is its end. No two are at one place.
Spliced(cur, e) == IF e.lo > Len(cur) \/ e.hi > Len(cur) THEN cur
                   ELSE SubSeq(cur, 1, e.lo) \o e.value \o SubSeq(cur, e.hi + 1, Len(cur))
EditRun(run, edits) ==
  LET at(k) == {e \in edits : e.lo = Len(run) + 1 - k}
      after[k \in 0 .. Len(run) + 1] ==
        IF k = 0 THEN run
        ELSE IF at(k) = {} THEN after[k - 1]
        ELSE Spliced(after[k - 1], CHOOSE e \in at(k) : TRUE)
  IN  after[Len(run) + 1]

FillParagraph(rs) ==
  LET text == Text(rs)
      edits == {[from |-> MapPos(text, m), to |-> MapPos(text, m + 3)] : m \in Matches(Unescape(text))}
  IN  [i \in DOMAIN rs |-> EditRun(rs[i], {SubEdit(rs, e, i) : e \in {d \in edits : Touches(rs, d, i)}})]

-----------------------------------------------------------------------------
TemplateInit ==
  /\ \E n \in 0 .. MaxLength : \E chars \in [1 .. n -> Char], c \in Cuts(n) :
       runs = [i \in 1 .. MaxRuns |-> Escaped(CutAt(chars, c)[i])]
  /\ filled = FALSE

Fill == ~filled /\ filled' = TRUE /\ runs' = FillParagraph(runs)

TemplateSpec == TemplateInit /\ [][Fill]_templateVars

-----------------------------------------------------------------------------
\* The reference: each character stays in its run, byte for byte, but for those of a
\* placeholder, of which the first becomes the value, in the run where it stands.
Found(text) == {m \in DOMAIN text : m + 2 \in DOMAIN text
                  /\ text[m] = "open" /\ text[m + 1] = "key" /\ text[m + 2] = "close"}

PlacedBytes(text, first, last) ==
  LET becomes(k) == IF k \in Found(text) THEN <<Value>>
                    ELSE IF k - 1 \in Found(text) \/ k - 2 \in Found(text) THEN <<>> ELSE <<text[k]>>
  IN  FlattenSeq([k \in 1 .. last - first |-> becomes(first + k)])

RunsAreFilled ==
  \A i \in DOMAIN runs : runs'[i] = PlacedBytes(Text(runs), Start(runs, i), End(runs, i))

\* No entity that unescapeXML does not know stands before a placeholder.
KnownBefore(text) == \A i \in DOMAIN text : text[i] = "&#" => \A f \in Found(text) : f < i

\* However a paragraph is cut into runs and wherever it holds the entities unescapeXML knows,
\* filling it puts the value where the placeholder begins and takes the rest of the placeholder
\* out of every run it reached into; all else, unknown keys too, stays as and where it was.
\* Other entities do no harm behind the last placeholder. (docxt.fillParagraph with its spans,
\* escapedOffsets and edits per run.)
FilledAsWritten == [][KnownBefore(Text(runs)) => RunsAreFilled]_runs
=============================================================================

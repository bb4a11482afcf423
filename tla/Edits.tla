------------------------------- MODULE Edits -------------------------------
(***************************************************************************)
(* Text, lines and the spans that replacements apply to (run.go, fix.go),  *)
(* and what several replacements make of a text when all are applied at    *)
(* once.                                                                   *)
(***************************************************************************)
EXTENDS Integers, SequencesExt

CONSTANTS
  Char,   \* the characters
  NL      \* the newline

ASSUME EditsAssumption == NL \in Char

Text == Seq(Char)

\* A span as a check gives it, 0 for what it leaves out, and the replacement.
Edit == [line : Nat, col : Nat, endLine : Nat, endCol : Nat, text : Text]

\* An edit whose fields all have their values.
Positive == Nat \ {0}
FullEdit == [line : Positive, col : Positive, endLine : Positive, endCol : Positive, text : Text]

-----------------------------------------------------------------------------
(* parseSpan                                                               *)

\* parseSpan refuses what is negative, reversed, or given without what it
\* depends on.
ValidSpan(s) ==
  /\ {s.line, s.col, s.endLine, s.endCol} \subseteq Nat
  /\ s.endCol > 0 => s.col > 0
  /\ s.line = 0 => s.endLine = 0 /\ s.col = 0
  /\ s.endLine > 0 => /\ s.endLine >= s.line
                      /\ s.endLine = s.line /\ s.endCol > 0 => s.endCol >= s.col

\* The end is on the first line if only its column is given.
SpanOf(s) ==
  [s EXCEPT !.endLine = IF s.line > 0 /\ s.endLine = 0 /\ s.endCol > 0 THEN s.line ELSE @]

-----------------------------------------------------------------------------
(* strings.SplitAfter(text, "\n") and strings.Join(lines, "")              *)

Newlines(text) == {i \in DOMAIN text : text[i] = NL}

\* How many characters the first k lines have: those with fewer than k newlines
\* before them.
LineEnd(text, k) ==
  Cardinality({i \in DOMAIN text : Cardinality({j \in Newlines(text) : j < i}) < k})

Lines(text) ==
  [k \in 1..Cardinality(Newlines(text)) + 1 |->
     SubSeq(text, LineEnd(text, k - 1) + 1, LineEnd(text, k))]

Join(lines) == FlattenSeq(lines)

-----------------------------------------------------------------------------
(* findingToFix                                                            *)

EndLine(e, lines) ==
  IF e.line = 0 THEN Len(lines) ELSE IF e.endLine = 0 THEN e.line ELSE e.endLine

\* Mutant: a finding without a column keeps it.
NormalizeKeepsColumn(e, lines) ==
  LET last == EndLine(e, lines) IN
  [line    |-> IF e.line = 0 THEN 1 ELSE e.line,
   col     |-> e.col,
   endLine |-> last,
   endCol  |-> IF e.endCol = 0 THEN Len(lines[last]) + 1 ELSE e.endCol,
   text    |-> e.text]

\* The span with its defaults: the whole file, one line, from the first column
\* to the last.
Normalize(e, lines) ==
  LET last == EndLine(e, lines) IN
  [line    |-> IF e.line = 0 THEN 1 ELSE e.line,
   col     |-> IF e.col = 0 THEN 1 ELSE e.col,
   endLine |-> last,
   endCol  |-> IF e.endCol = 0 THEN Len(lines[last]) + 1 ELSE e.endCol,
   text    |-> e.text]

\* Normalizing looks at the last line for the default of endCol.
Normalizable(e, lines) == e.endCol = 0 => EndLine(e, lines) \in DOMAIN lines

\* Slicing by the (full) edit stays within the lines.
Fits(e, lines) ==
  /\ {e.line, e.endLine} \subseteq DOMAIN lines
  /\ e.col - 1 <= Len(lines[e.line])
  /\ e.endCol - 1 <= Len(lines[e.endLine])

\* The text before and after an edit, in its first and its last line.
Before(e, lines) == SubSeq(lines[e.line], 1, e.col - 1)
After(e, lines)  == SubSeq(lines[e.endLine], e.endCol, Len(lines[e.endLine]))

\* One edit: its lines are replaced by those of the replacement, which takes
\* along what the first and the last line keep.
Replace(e, lines) ==
  LET new    == Lines(e.text)
      first  == [new EXCEPT ![1] = Before(e, lines) \o @]
      middle == [first EXCEPT ![Len(new)] = @ \o After(e, lines)]
  IN  SubSeq(lines, 1, e.line - 1) \o middle \o SubSeq(lines, e.endLine + 1, Len(lines))

-----------------------------------------------------------------------------
(* What is promised                                                        *)

ShareLine(d, e) == d.line <= e.endLine /\ e.line <= d.endLine

\* All edits of S at once: each line of the text becomes what replaces it.
AllAtOnce(S, lines) ==
  Join([k \in DOMAIN lines |->
    IF \E e \in S : e.line = k
    THEN LET e == CHOOSE d \in S : d.line = k IN Before(e, lines) \o e.text \o After(e, lines)
    ELSE IF \E e \in S : e.line < k /\ k <= e.endLine THEN <<>> ELSE lines[k]])

\* A choice among edits: no two share a line, and one that is left out shares
\* one with a chosen edit that starts no later.
IsChoice(S, E) ==
  /\ \A d, e \in S : d # e => ~ ShareLine(d, e)
  /\ \A e \in E \ S : \E d \in S : ShareLine(d, e) /\ d.line <= e.line

\* What the wanted edits may make of a text.  None if one is beyond its end.
Results(wanted, text) ==
  LET lines == Lines(text)
      E     == {Normalize(e, lines) : e \in wanted}
  IN  IF \A e \in wanted : Normalizable(e, lines)
      THEN {AllAtOnce(S, lines) : S \in {T \in SUBSET E : IsChoice(T, E) /\ \A e \in T : Fits(e, lines)}}
      ELSE {}
=============================================================================

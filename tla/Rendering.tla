----------------------------- MODULE Rendering -----------------------------
(***************************************************************************)
(* What a finding looks like in a terminal (interactive, reporting.go) and *)
(* in SARIF (sarif.go).                                                    *)
(***************************************************************************)
EXTENDS Edits, FiniteSetsExt

\* bytes.Split(text, "\n"): the lines without their newlines.
SplitLines(text) ==
  LET lines == Lines(text)
  IN [k \in DOMAIN lines |-> IF k < Len(lines) THEN Front(lines[k]) ELSE lines[k]]

-----------------------------------------------------------------------------
(* printHighlightedLines                                                   *)

\* A line of the output: what comes before, in, and after the highlight.
Cut(line, from, to) ==
  [before |-> SubSeq(line, 1, from - 1), marked |-> SubSeq(line, from, to - 1),
   after |-> SubSeq(line, to, Len(line))]

LastOf(s) == IF s.endLine = 0 THEN s.line ELSE s.endLine

\* A column after the end, "silently ignored".
Clipped(col, line) == Min({col, Len(line) + 1})

\* Where the highlight ends in line k, and where it begins.
MarkedTo(s, lines, k) ==
  IF s.endCol > 0 /\ k = s.endLine THEN Clipped(s.endCol, lines[k]) ELSE Len(lines[k]) + 1

MarkedFrom(s, k) == IF k = s.line /\ s.col > 0 THEN s.col ELSE 1

\* The lines that are printed: those of the span and one on each side.
PrintedLines(s, lines) == Max({1, s.line - 1})..Min({LastOf(s) + 1, Len(lines)})

IsPrinted(s, lines) == s.line > 0 /\ s.line < Len(lines)

\* Slicing the first line panics, the others are clipped.
PrintPanics(s, lines) ==
  /\ IsPrinted(s, lines)
  /\ \/ MarkedFrom(s, s.line) - 1 > Len(lines[s.line])
     \/ MarkedTo(s, lines, s.line) < MarkedFrom(s, s.line)

\* The output, when it does not panic.  Nothing of the last line of a file is
\* printed: a file is expected to end with a newline.
Highlighted(s, lines) ==
  IF ~IsPrinted(s, lines) THEN <<>> ELSE
  LET first == Min(PrintedLines(s, lines)) IN
  [i \in 1..Cardinality(PrintedLines(s, lines)) |->
     LET k == first + i - 1 IN
     IF k \in s.line..LastOf(s) THEN Cut(lines[k], MarkedFrom(s, k), MarkedTo(s, lines, k))
     ELSE Cut(lines[k], 1, 1)]

-----------------------------------------------------------------------------
(* splitReplacement                                                        *)

\* The ways to pair equal lines, in order; difflib finds one of them.
Alignments(old, new) ==
  {M \in SUBSET {p \in (DOMAIN old) \X (DOMAIN new) : old[p[1]] = new[p[2]]} :
     \A p, q \in M : p # q => (p[1] < q[1] /\ p[2] < q[2]) \/ (q[1] < p[1] /\ q[2] < p[2])}

\* GetGroupedOpCodes(0): the stretches between lines that are paired, where old
\* and new are given by the lines before them and their last ones.
Groups(M, old, new) ==
  LET stops == M \cup {<<0, 0>>, <<Len(old) + 1, Len(new) + 1>>}
      nextOf(p) == CHOOSE q \in stops :
                     p[1] < q[1] /\ \A r \in stops : p[1] < r[1] => q[1] <= r[1]
      between(p) == [i1 |-> p[1], i2 |-> nextOf(p)[1] - 1, j1 |-> p[2], j2 |-> nextOf(p)[2] - 1]
  IN {g \in {between(p) : p \in stops \ {<<Len(old) + 1, Len(new) + 1>>}} :
        g.i1 < g.i2 \/ g.j1 < g.j2}

\* Mutant: the region of an insertion ends before it begins.
ReplacementUnshifted(g, new) ==
  [line |-> g.i1 + 1, endLine |-> g.i2,
   col |-> IF g.i1 = g.i2 THEN 1 ELSE 0, endCol |-> IF g.i1 = g.i2 THEN 1 ELSE 0,
   text |-> Join(SubSeq(new, g.j1 + 1, g.j2))]

\* replacementsForDiff: whole lines, or none of them and the first column.
Replacement(g, new) ==
  LET inserts == g.i1 = g.i2 IN
  [line |-> g.i1 + 1, endLine |-> IF inserts THEN g.i2 + 1 ELSE g.i2,
   col |-> IF inserts THEN 1 ELSE 0, endCol |-> IF inserts THEN 1 ELSE 0,
   text |-> Join(SubSeq(new, g.j1 + 1, g.j2))]

\* The fix for one suggested text: the edits that replace the regions.  Only what
\* replaces a whole file is split, if the file can be read.
FixOf(s, new, M, text, readable) ==
  IF s.line = 0 /\ readable
    THEN {Replacement(g, Lines(new)) : g \in Groups(M, Lines(text), Lines(new))}
    ELSE {[line |-> s.line, col |-> s.col, endLine |-> s.endLine, endCol |-> s.endCol,
          text |-> new]}
=============================================================================

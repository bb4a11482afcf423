---------------------------- MODULE MCReporters ----------------------------
(***************************************************************************)
(* Instances of Reporters for TLC.                                         *)
(***************************************************************************)
EXTENDS Reporters, TLC

CONSTANTS c1, c2, c3, fmt, lint, vet, x, y, nl

ThreeChecks == {c1, c2, c3}
Names == {fmt, lint, vet}
Characters == {x, y, nl}

\* Names are unique in a shac.star; --recurse may find two shac.star that
\* register a check of the same name.
Unique == c1 :> fmt @@ c2 :> lint @@ c3 :> vet
Shared == c1 :> fmt @@ c2 :> fmt @@ c3 :> vet

-----------------------------------------------------------------------------

TwoLines == <<x, y, nl, y, nl>>

Emits(kind, text, span, replacements) ==
  [kind |-> kind, file |-> kind = "finding", readable |-> TRUE, text |-> text, line |-> span[1],
   col |-> span[2], endLine |-> span[3], endCol |-> span[4], replacements |-> replacements, diffs |-> <<>>,
   props |-> "none"]

Plain == [Emits("finding", TwoLines, <<0, 0, 0, 0>>, <<>>) EXCEPT !.file = FALSE]
OnLine == Emits("finding", TwoLines, <<1, 0, 0, 0>>, <<>>)
Terminal == [github |-> FALSE, terminal |-> TRUE]

\* ResultDB alone, with three checks; one of them finds nothing.
Batches ==
  {[names |-> names, calls |-> c1 :> <<Plain>> @@ c2 :> <<Plain>> @@ c3 :> <<>>, selected |-> Check,
    reporters |-> {}, environment |-> Terminal, broken |-> {}] : names \in {Unique, Shared}}

\* Two checks whose calls succeed or fail, on the three consoles.
Together(names, a, b, environment) ==
  [names |-> names, calls |-> c1 :> a @@ c2 :> b @@ c3 :> <<>>,
   selected |-> {c1, c2}, reporters |-> {"console", "sarif"}, environment |-> environment, broken |-> {}]

Unreadable == [OnLine EXCEPT !.readable = FALSE]
Artifact == Emits("artifact", <<>>, <<0, 0, 0, 0>>, <<>>)

Commit == Emits("commit", TwoLines, <<1, 1, 0, 2>>, <<>>)

Invalid == [Plain EXCEPT !.props = "invalid"]

TwoAtOnce ==
  {Together(Shared, <<OnLine>>, <<Unreadable, Plain>>, Terminal),
   Together(Unique, <<OnLine>>, <<Artifact, Plain>>, [Terminal EXCEPT !.github = TRUE]),
   Together(Unique, <<>>, <<Invalid, Plain>>, [Terminal EXCEPT !.terminal = FALSE])}

\* A check whose findings do not all fit in the summary, or fit exactly, and one
\* with a notice about its tags.
Long ==
  {[names |-> Unique, calls |-> c1 :> calls @@ c2 :> <<>> @@ c3 :> <<>>, selected |-> {c1},
    reporters |-> {}, environment |-> Terminal, broken |-> {}] :
     calls \in {<<Commit, Plain, Plain>>, <<Plain, Artifact, Plain>>, <<[Plain EXCEPT !.props = "valid"]>>}}

Alone(call, reporter) ==
  [names |-> Unique, calls |-> c1 :> <<call>> @@ c2 :> <<>> @@ c3 :> <<>>, selected |-> {c1},
   reporters |-> {reporter}, environment |-> Terminal, broken |-> {}]

\* A disk that is full, or gets full.
Full ==
  {[Alone(call, "console") EXCEPT !.reporters = {"console", "sarif"}, !.broken = broken] :
     call \in {OnLine, Commit}, broken \in {{"overview", "lines", "completed"}, {"lines"}}}

\* Every span that is accepted, in a file that ends with a newline and in one
\* that does not, and in a commit message.
Spans ==
  {[line |-> l, col |-> c, endLine |-> e, endCol |-> d] : l \in 1..3, c \in 0..3, e \in 0..4, d \in 0..3}

Highlights ==
  {Alone(Emits(t[1], t[2], <<s.line, s.col, s.endLine, s.endCol>>, <<>>), "console") :
     t \in {<<"finding", TwoLines>>, <<"finding", <<x, nl, y, y>>>>, <<"commit", <<x, nl, y, nl>>>>},
     s \in {s \in Spans : ValidSpan(s)}}

\* Whole files replaced by others: lines added, removed and changed anywhere,
\* along any pairing of equal lines.
Files == {<<>>, <<x>>, <<x, nl>>, <<x, nl, y, nl>>, <<y, nl, x, nl>>, <<x, nl, y, nl, x, nl>>}

Replaces(old, new, M) ==
  [Emits("finding", old, <<0, 0, 0, 0>>, <<new>>) EXCEPT !.diffs = <<M>>]

Replacements ==
  {Alone(Replaces(old, new, M), "sarif") :
     <<old, new, M>> \in UNION {{<<f, g, M>> : M \in Alignments(Lines(f), Lines(g))} :
                                  f \in Files, g \in Files}}
  \cup {Alone([Replaces(<<x>>, <<y>>, {}) EXCEPT !.readable = FALSE], "sarif")}

AllSetups == Batches \cup TwoAtOnce \cup Long \cup Full \cup Highlights \cup Replacements
=============================================================================

------------------------------- MODULE MCFix -------------------------------
(***************************************************************************)
(* Instances of Fix for TLC.                                               *)
(***************************************************************************)
EXTENDS Fix

CONSTANTS c1, c2, k1, k2, f1, f2, x, y, z

OwnFile == k1 :> f1 @@ k2 :> f2
OneFile == k1 :> f1 @@ k2 :> f1
PathOrder == k1 :> 1 @@ k2 :> 1

Empty     == <<>>
OneLine   == <<x, NL>>
TwoLines  == <<x, y, NL, y, NL>>
NoEnd     == <<x, NL, y, y>>
ThreeLines == <<x, NL, y, y, NL, x, NL>>

On(k, span, replacements) ==
  [typed |-> TRUE, message |-> TRUE, key |-> k, line |-> span[1], col |-> span[2],
   endLine |-> span[3], endCol |-> span[4], replacements |-> replacements]

Quiet == [c \in Check |-> <<>>]

Start(text, calls) ==
  [disk |-> f1 :> text @@ f2 :> OneLine, calls |-> calls, tracked |-> {k1, k2},
   toWriter |-> FALSE, asked |-> {}]

\* One finding, every span (valid or not) on files of different ends.
OneFinding ==
  {Start(text, [Quiet EXCEPT ![c1] = <<On(k1, span, <<new>>)>>]) :
     text \in {Empty, TwoLines, NoEnd}, new \in {Empty, <<z, NL, z>>},
     span \in (-1..3) \X (0..3) \X (0..3) \X (0..3)}

\* Two checks with one finding each on three lines: all pairs of these spans.
Spans == {<<0, 0, 0, 0>>, <<1, 0, 0, 0>>, <<1, 1, 0, 2>>, <<1, 2, 2, 2>>, <<2, 0, 0, 0>>,
          <<2, 2, 2, 3>>, <<2, 3, 3, 1>>, <<3, 1, 0, 1>>, <<3, 2, 0, 1>>, <<3, 0, 4, 0>>, <<5, 1, 5, 2>>}
News  == {Empty, OneLine, <<z, NL, z>>}

TwoFindings(text, new) ==
  {Start(text, c1 :> <<On(k1, s, <<n>>)>> @@ c2 :> <<On(k1, t, <<m>>)>>) :
     s \in Spans, t \in Spans, n \in new, m \in new}

\* Three findings of two checks, on one file and on two, with and without a
\* writer; findings that are refused, or that suggest nothing or too much.
Odd(k) ==
  LET good == On(k, <<1, 0, 0, 0>>, <<Empty>>) IN
  {[good EXCEPT !.message = FALSE], [good EXCEPT !.typed = FALSE],
   [good EXCEPT !.key = NoKey], [good EXCEPT !.replacements = <<>>],
   [good EXCEPT !.replacements = <<Empty, Empty>>],
   [good EXCEPT !.replacements = <<Empty, Empty, Empty>>]}

SeveralFindings ==
  {[Start(ThreeLines, c1 :> <<On(k1, s, <<OneLine>>), a>> @@ c2 :> <<b>>) EXCEPT
      !.toWriter = w, !.asked = asked, !.tracked = tracked] :
     s \in {<<0, 0, 0, 0>>, <<2, 0, 3, 0>>}, a \in Odd(k1) \cup {On(k2, <<1, 0, 0, 0>>, <<Empty>>)},
     b \in Odd(k2) \cup {On(k1, <<1, 0, 2, 0>>, <<Empty>>)}, w \in BOOLEAN,
     asked \in {{}, {f1}}, tracked \in {{k1}, {k1, k2}}}

NoFinding ==
  {[Start(TwoLines, c1 :> a @@ c2 :> <<>>) EXCEPT !.toWriter = w, !.asked = asked] :
     a \in {<<>>, <<On(k1, <<1, 0, 0, 0>>, <<>>)>>}, w \in BOOLEAN, asked \in SUBSET File}

Situations ==
  OneFinding \cup TwoFindings(ThreeLines, News) \cup SeveralFindings \cup NoFinding

\* Two shac.star files apply to one file and name it by different paths.
SharedFile ==
  {Start(ThreeLines, c1 :> <<On(k1, s, <<Empty>>)>> @@ c2 :> <<On(k2, t, <<Empty>>)>>) :
     s \in Spans, t \in Spans}
=============================================================================

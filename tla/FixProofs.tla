----------------------------- MODULE FixProofs -----------------------------
(***************************************************************************)
(* Proofs about Fix, for any files, findings and checks: what the choice   *)
(* among findings keeps, what its edits make of a file, the invariant of   *)
(* Fix, and that Fix implements Rewrite.                                   *)
(***************************************************************************)
EXTENDS Fix, EditsProofs

-----------------------------------------------------------------------------
(* Edits that are applied from the last to the first                       *)

\* The lines up to p are still those of the original, and the others make what
\* the edits of S make of the rest of it.
Applied(S, p, ls, original) ==
  /\ p \in 0..Len(original) /\ p <= Len(ls)
  /\ \A k \in 1..p : ls[k] = original[k]
  /\ \A d \in S : p < d.line
  /\ Part(ls, p, Len(ls)) = Part(AtOnce(S, original), p, Len(original))

\* Before the first edit, at the end: the lines are the original.
LEMMA AppliedStarts ==
  ASSUME NEW original \in Seq(Text)
  PROVE  Applied({}, Len(original), original, original)
<1>. DEFINE n == Len(original)
<1>1. n \in Nat
  BY LinesAre
<1>2. Part(original, n, n) = Part(AtOnce({}, original), n, n)
  BY <1>1, PartEmpty
<1>3. n \in 0..n
  BY <1>1
<1>. QED BY <1>1, <1>2, <1>3 DEF Applied

\* After the last edit, at the start: the lines make the text promised.
LEMMA AppliedEnds ==
  ASSUME NEW original \in Seq(Text), NEW ls \in Seq(Text), NEW S, NEW p,
         GoodEdits(S, original), Applied(S, p, ls, original)
  PROVE  Join(ls) = AllAtOnce(S, original)
<1>. DEFINE A == AtOnce(S, original)
            n == Len(original)
            m == Len(ls)
<1>1. /\ p \in 0..n /\ p <= m /\ n \in Nat /\ m \in Nat
      /\ \A k \in 1..p : ls[k] = original[k]
      /\ \A d \in S : p < d.line
  BY LinesAre DEF Applied
<1>2. A \in Seq(Text) /\ Len(A) = n /\ \A k \in 1..n : A[k] = PieceOf(S, original, k)
  BY AtOnceType, LinesAre DEF AtOnce
<1>3. ASSUME NEW k \in 1..p PROVE A[k] = ls[k]
  <2>1. k \in 1..n
    BY <1>1
  <2>2. \A d \in S : d.line # k /\ ~(d.line < k /\ k <= d.endLine)
    <3>. SUFFICES ASSUME NEW d \in S PROVE d.line # k /\ ~(d.line < k)
      OBVIOUS
    <3>1. d.line \in Nat /\ p < d.line
      BY <1>1, EditIs DEF GoodEdits
    <3>. QED BY <3>1, <1>1
  <2>. QED BY <2>1, <2>2, <1>1, <1>2, PieceKept
<1>. HIDE DEF A, n, m
<1>4. p \in Nat /\ 0 <= p /\ p <= n
  BY <1>1
<1>5. Part(A, 0, p) = Part(ls, 0, p)
  <2>1. \A k \in 0 + 1..p : A[k] = ls[k]
    BY <1>3, <1>4
  <2>2. p <= Len(A) /\ p <= Len(ls)
    BY <1>1, <1>2, <1>4 DEF m
  <2>. QED BY <2>1, <2>2, <1>2, <1>4, PartSame
<1>6. Part(ls, 0, m) = Cat(Part(ls, 0, p), Part(ls, p, m))
  <2>1. m <= Len(ls)
    BY <1>1 DEF m
  <2>. QED BY <2>1, <1>1, <1>4, PartSplit
<1>7. Part(A, 0, n) = Cat(Part(A, 0, p), Part(A, p, n))
  <2>1. n <= Len(A)
    BY <1>1, <1>2
  <2>. QED BY <2>1, <1>1, <1>2, <1>4, PartSplit
<1>8. Part(ls, p, m) = Part(A, p, n) /\ Part(ls, 0, m) = Join(ls) /\ Part(A, 0, n) = Join(A)
  BY <1>2, PartAll DEF Applied, A, n, m
<1>9. Join(ls) = Join(A)
  BY <1>4, <1>5, <1>6, <1>7, <1>8
<1>. QED BY <1>9, AllAtOnceJoins DEF A

\* One more edit, before all the others: it finds its lines as they were.
LEMMA AppliedStep ==
  ASSUME NEW original \in Seq(Text), NEW ls \in Seq(Text), NEW S, NEW p,
         GoodEdits(S, original), Applied(S, p, ls, original),
         NEW e \in FullEdit, Fits(e, ls), e.line <= e.endLine, e.endLine <= p
  PROVE  /\ Fits(e, original)
         /\ GoodEdits(S \cup {e}, original)
         /\ Applied(S \cup {e}, e.line - 1, Replace(e, ls), original)
<1>. DEFINE lo == e.line
            hi == e.endLine
            n  == Len(original)
            m  == Len(ls)
            T  == S \cup {e}
            A  == AtOnce(S, original)
            B  == AtOnce(T, original)
            new == Replace(e, ls)
<1>1. /\ n \in Nat /\ m \in Nat /\ p \in 0..n /\ p <= m
      /\ lo \in Nat /\ lo > 0 /\ hi \in Nat /\ lo <= hi /\ hi <= p
  BY LinesAre, EditIs DEF Applied
<1>2. /\ \A k \in 1..p : ls[k] = original[k]
      /\ \A d \in S : p < d.line
      /\ Part(ls, p, m) = Part(A, p, n)
  BY DEF Applied
<1>3. ls[lo] = original[lo] /\ ls[hi] = original[hi]
  BY <1>1, <1>2
<1>4. Fits(e, original)
  <2>1. lo \in DOMAIN original /\ hi \in DOMAIN original
    BY <1>1, LinesAre
  <2>. QED BY <2>1, <1>3 DEF Fits
<1>5. NewText(e, original) = NewText(e, ls)
  BY <1>3 DEF NewText, Before, After
<1>6. ASSUME NEW d \in S
      PROVE  /\ d.line \in Nat /\ d.endLine \in Nat /\ d.line <= d.endLine /\ d \in FullEdit
             /\ Fits(d, original) /\ p < d.line
  BY <1>2, EditIs DEF GoodEdits
<1>7. GoodEdits(T, original)
  <2>1. ASSUME NEW d \in T PROVE d \in FullEdit /\ Fits(d, original) /\ d.line <= d.endLine
    BY <1>4, <1>6
  <2>2. ASSUME NEW d \in T, NEW f \in T, d # f PROVE ~ShareLine(d, f)
    <3>1. ASSUME NEW x \in S PROVE ~ShareLine(x, e) /\ ~ShareLine(e, x)
      <4>1. ~(x.line <= e.endLine)
        BY <1>1, <1>6
      <4>. QED BY <4>1 DEF ShareLine
    <3>. QED BY <2>2, <3>1 DEF GoodEdits
  <2>. QED BY <2>1, <2>2 DEF GoodEdits
<1>8. /\ A \in Seq(Text) /\ Len(A) = n /\ \A k \in 1..n : A[k] = PieceOf(S, original, k)
      /\ B \in Seq(Text) /\ Len(B) = n /\ \A k \in 1..n : B[k] = PieceOf(T, original, k)
  BY <1>7, AtOnceType, LinesAre DEF AtOnce
<1>9. B[lo] = NewText(e, ls)
  <2>1. lo \in 1..n
    BY <1>1
  <2>2. \A d \in T : d.line = e.line => d = e
    BY <1>7, NoCommonStart
  <2>3. PieceOf(T, original, e.line) = NewText(e, original)
    BY <2>2, PieceStarts
  <2>. QED BY <2>1, <2>3, <1>5, <1>8
<1>10. ASSUME NEW k \in lo + 1..hi PROVE B[k] = Nothing
  <2>1. k \in 1..n /\ k \in Nat /\ lo < k /\ k <= hi /\ k <= p
    BY <1>1
  <2>2. ASSUME NEW d \in T PROVE d.line # k
    <3>1. CASE d \in S
      BY <3>1, <2>1, <1>1, <1>6
    <3>2. CASE d = e
      BY <3>2, <2>1, <1>1
    <3>. QED BY <3>1, <3>2
  <2>3. PieceOf(T, original, k) = Nothing
    BY <2>1, <2>2, PieceCovered
  <2>. QED BY <2>1, <2>3, <1>8
<1>11. ASSUME NEW k \in hi + 1..p PROVE B[k] = ls[k]
  <2>1. k \in 1..n /\ k \in 1..p /\ k \in Nat /\ lo < k /\ hi < k /\ k <= p
    BY <1>1
  <2>2. ASSUME NEW d \in T PROVE d.line # k /\ ~(d.line < k /\ k <= d.endLine)
    <3>1. CASE d \in S
      BY <3>1, <2>1, <1>1, <1>6
    <3>2. CASE d = e
      BY <3>2, <2>1, <1>1
    <3>. QED BY <3>1, <3>2
  <2>3. PieceOf(T, original, k) = original[k]
    BY <2>2, PieceKept
  <2>. QED BY <2>1, <2>3, <1>2, <1>8
<1>12. ASSUME NEW k \in p + 1..n PROVE B[k] = A[k]
  <2>1. k \in 1..n /\ k \in Nat /\ lo < k /\ hi < k /\ p < k
    BY <1>1
  <2>2. e.line # k /\ ~(e.line < k /\ k <= e.endLine)
    BY <2>1, <1>1
  <2>3. CASE \E d \in S : d.line = k
    <3>1. PICK d \in S : d.line = k
      BY <2>3
    <3>2. PieceOf(S, original, k) = NewText(d, original)
      BY <3>1, NoCommonStart, PieceStarts
    <3>3. PieceOf(T, original, k) = NewText(d, original)
      BY <3>1, <1>7, NoCommonStart, PieceStarts
    <3>. QED BY <2>1, <3>2, <3>3, <1>8
  <2>4. CASE (\A d \in S : d.line # k) /\ \E d \in S : d.line < k /\ k <= d.endLine
    <3>1. PICK d \in S : d.line < k /\ k <= d.endLine
      BY <2>4
    <3>2. PieceOf(S, original, k) = Nothing
      BY <2>4, <3>1, PieceCovered
    <3>3. PieceOf(T, original, k) = Nothing
      BY <2>2, <2>4, <3>1, PieceCovered
    <3>. QED BY <2>1, <3>2, <3>3, <1>8
  <2>5. CASE \A d \in S : d.line # k /\ ~(d.line < k /\ k <= d.endLine)
    <3>1. PieceOf(S, original, k) = original[k]
      BY <2>5, PieceKept
    <3>2. PieceOf(T, original, k) = original[k]
      BY <2>2, <2>5, PieceKept
    <3>. QED BY <2>1, <3>1, <3>2, <1>8
  <2>. QED BY <2>3, <2>4, <2>5
<1>. HIDE DEF n, m, A, B, new
<1>13. /\ lo - 1 \in Nat /\ p \in Nat /\ (lo - 1) + 1 = lo /\ lo - 1 <= lo /\ lo - 1 < Len(B)
       /\ hi <= Len(B) /\ p <= Len(B) /\ n <= Len(B) /\ p <= n /\ lo <= n /\ hi <= n
       /\ p <= Len(ls) /\ m <= Len(ls) /\ n <= Len(A)
  BY <1>1, <1>8 DEF m
<1>14. Part(B, lo, hi) = Nothing
  BY <1>1, <1>8, <1>10, <1>13, PartNone
<1>15. NewText(e, ls) \in Text /\ Part(B, lo - 1, lo) = NewText(e, ls)
  <2>1. Part(B, lo - 1, (lo - 1) + 1) = B[(lo - 1) + 1]
    BY <1>8, <1>13, PartOne
  <2>. QED BY <2>1, <1>9, <1>13, NewTextType
<1>16. Part(B, hi, p) = Part(ls, hi, p)
  <2>1. \A k \in hi + 1..p : B[k] = ls[k]
    BY <1>11
  <2>2. hi \in Nat /\ p \in Nat /\ hi <= p /\ p <= Len(B) /\ p <= Len(ls)
    BY <1>1, <1>13
  <2>3. B \in Seq(Text)
    BY <1>8
  <2>. QED BY <2>1, <2>2, <2>3, PartSame
<1>17. Part(B, p, n) = Part(A, p, n)
  <2>1. \A k \in p + 1..n : B[k] = A[k]
    BY <1>12
  <2>2. p \in Nat /\ n \in Nat /\ p <= n /\ n <= Len(A) /\ n <= Len(B)
    BY <1>1, <1>13
  <2>3. A \in Seq(Text) /\ B \in Seq(Text)
    BY <1>8
  <2>. QED BY <2>1, <2>2, <2>3, PartSame
<1>18. Part(B, lo - 1, n) = Cat(Part(B, lo - 1, lo), Part(B, lo, n))
  BY <1>1, <1>8, <1>13, PartSplit
<1>19. Part(B, lo, n) = Cat(Part(B, lo, hi), Part(B, hi, n))
  BY <1>1, <1>8, <1>13, PartSplit
<1>20. Part(B, hi, n) = Cat(Part(B, hi, p), Part(B, p, n))
  BY <1>1, <1>8, <1>13, PartSplit
<1>21. Part(ls, hi, m) = Cat(Part(ls, hi, p), Part(ls, p, m))
  BY <1>1, <1>13, PartSplit
<1>22. Part(B, hi, n) = Part(ls, hi, m)
  BY <1>2, <1>16, <1>17, <1>20, <1>21
<1>23. Part(B, hi, n) \in Text
  BY <1>1, <1>8, <1>13, PartType
<1>24. Part(B, lo - 1, n) = Cat(NewText(e, ls), Part(ls, hi, m))
  <2>1. Cat(Nothing, Part(B, hi, n)) = Part(B, hi, n)
    BY <1>23, CatProperties
  <2>. QED BY <2>1, <1>14, <1>15, <1>18, <1>19, <1>22
<1>25. /\ new \in Seq(Text) /\ lo - 1 <= Len(new) /\ (\A k \in 1..lo - 1 : new[k] = ls[k])
       /\ Part(new, lo - 1, Len(new)) = Cat(NewText(e, ls), Part(ls, hi, m))
  BY ReplaceJoins DEF new, m
<1>26. Applied(T, lo - 1, new, original)
  <2>1. lo - 1 \in 0..n /\ lo - 1 + 1 = lo
    BY <1>1
  <2>2. \A k \in 1..lo - 1 : new[k] = original[k]
    <3>1. ASSUME NEW k \in 1..lo - 1 PROVE k \in 1..p
      BY <1>1
    <3>. QED BY <3>1, <1>2, <1>25
  <2>3. ASSUME NEW d \in T PROVE lo - 1 < d.line
    <3>1. CASE d \in S
      BY <3>1, <1>1, <1>6
    <3>2. CASE d = e
      BY <3>2, <1>1
    <3>. QED BY <3>1, <3>2
  <2>4. Part(new, lo - 1, Len(new)) = Part(B, lo - 1, n)
    BY <1>24, <1>25
  <2>. QED BY <2>1, <2>2, <2>3, <2>4, <1>25 DEF Applied, n, B
<1>. QED BY <1>4, <1>7, <1>26 DEF new

-----------------------------------------------------------------------------
(* The choice among the findings of a file                                 *)

\* What parseSpan leaves of a span.
ValidEdit(e) ==
  /\ e.line = 0 => e.endLine = 0 /\ e.col = 0
  /\ e.endLine > 0 => e.line <= e.endLine

FirstLine(e) == IF e.line = 0 THEN 1 ELSE e.line

\* The edits follow each other, and the last line of the last.
Ordered(cs) ==
  /\ \A i, j \in DOMAIN cs : i < j => cs[i].endLine < cs[j].line
  /\ \A i \in DOMAIN cs : cs[i].line <= cs[i].endLine

EndOf(cs) == IF Len(cs) = 0 THEN 0 ELSE cs[Len(cs)].endLine

\* One of the edits shares a line with e and starts no later.
Covered(e, cs) == \E j \in DOMAIN cs : ShareLine(cs[j], e) /\ cs[j].line <= e.line

IsOneOf(e, fs, rest, original) == \E i \in DOMAIN fs \ rest : e = Normalize(fs[i], original)

\* What was chosen when the findings of rest are left: every other is covered,
\* and those left start no earlier.
Choice(fs, rest, cs, original) ==
  /\ rest \subseteq DOMAIN fs
  /\ \A i \in DOMAIN fs \ rest : Normalizable(fs[i], original) /\ Covered(Normalize(fs[i], original), cs)
  /\ \A j \in DOMAIN cs : IsOneOf(cs[j], fs, rest, original)
  /\ \A j \in DOMAIN cs : \A i \in rest : cs[j].line <= FirstLine(fs[i])

\* A normalized finding is a full edit that ends no earlier than it starts.
LEMMA NormalizeIs ==
  ASSUME NEW ls \in Seq(Text), Len(ls) > 0, NEW e \in Edit, ValidEdit(e), Normalizable(e, ls)
  PROVE  /\ Normalize(e, ls) \in FullEdit
         /\ Normalize(e, ls).line = FirstLine(e)
         /\ Normalize(e, ls).line <= Normalize(e, ls).endLine
<1>. DEFINE last == EndLine(e, ls)
            n    == Normalize(e, ls)
<1>1. /\ e.line \in Nat /\ e.col \in Nat /\ e.endLine \in Nat /\ e.endCol \in Nat /\ e.text \in Text
      /\ Len(ls) \in Nat /\ Len(ls) > 0
  BY LinesAre DEF Edit
<1>2. last \in Nat /\ last > 0 /\ FirstLine(e) \in Nat /\ FirstLine(e) > 0 /\ FirstLine(e) <= last
  BY <1>1 DEF EndLine, FirstLine, ValidEdit
<1>3. e.endCol = 0 => Len(ls[last]) \in Nat
  <2>1. e.endCol = 0 => ls[last] \in Seq(Char)
    BY LinesAre DEF Normalizable, Text
  <2>. QED BY <2>1, LenProperties
<1>. DEFINE col == IF e.col = 0 THEN 1 ELSE e.col
            endCol == IF e.endCol = 0 THEN Len(ls[last]) + 1 ELSE e.endCol
<1>4. col \in Positive /\ endCol \in Positive /\ FirstLine(e) \in Positive /\ last \in Positive
  BY <1>1, <1>2, <1>3 DEF Positive
<1>5. n = [line |-> FirstLine(e), col |-> col, endLine |-> last, endCol |-> endCol, text |-> e.text]
  BY DEF Normalize, FirstLine
<1>. HIDE DEF n, col, endCol, last
<1>6. n \in FullEdit /\ n.line = FirstLine(e) /\ n.endLine = last
  BY <1>1, <1>4, <1>5 DEF FullEdit
<1>. QED BY <1>2, <1>6 DEF n

LEMMA EditsAre ==
  ASSUME NEW cs \in Seq(FullEdit)
  PROVE  /\ Len(cs) \in Nat /\ DOMAIN cs = 1..Len(cs)
         /\ \A i \in 1..Len(cs) : /\ cs[i] \in FullEdit
                                  /\ cs[i].line \in Nat /\ cs[i].line > 0
                                  /\ cs[i].endLine \in Nat /\ cs[i].endLine > 0
<1>1. Len(cs) \in Nat /\ DOMAIN cs = 1..Len(cs) /\ \A i \in 1..Len(cs) : cs[i] \in FullEdit
  BY LenProperties, ElementOfSeq
<1>. QED BY <1>1, EditIs

\* No edit ends after the last.
LEMMA EndOfIs ==
  ASSUME NEW cs \in Seq(FullEdit), Ordered(cs)
  PROVE  EndOf(cs) \in Nat /\ \A i \in DOMAIN cs : cs[i].endLine <= EndOf(cs)
<1>1. /\ Len(cs) \in Nat /\ DOMAIN cs = 1..Len(cs)
      /\ \A i \in 1..Len(cs) : cs[i].line \in Nat /\ cs[i].endLine \in Nat
  BY EditsAre
<1>2. EndOf(cs) \in Nat
  BY <1>1 DEF EndOf
<1>3. ASSUME NEW i \in 1..Len(cs) PROVE cs[i].endLine <= EndOf(cs)
  <2>1. Len(cs) \in 1..Len(cs) /\ EndOf(cs) = cs[Len(cs)].endLine
    BY <1>1 DEF EndOf
  <2>2. CASE i = Len(cs)
    BY <2>1, <2>2, <1>1
  <2>3. CASE i # Len(cs)
    <3>1. cs[i].endLine < cs[Len(cs)].line /\ cs[Len(cs)].line <= cs[Len(cs)].endLine
      <4>. DEFINE n == Len(cs)
      <4>1. i \in DOMAIN cs /\ n \in DOMAIN cs /\ i < n
        <5>1. i \in DOMAIN cs /\ n \in DOMAIN cs
          BY <2>1, <1>1
        <5>2. i \in 1..n /\ n \in Nat /\ i # n
          BY <2>3, <1>1
        <5>3. i < n
          <6>. HIDE DEF n
          <6>. QED BY <5>2
        <5>. QED BY <5>1, <5>3
      <4>. HIDE DEF n
      <4>2. cs[i].endLine < cs[n].line /\ cs[n].line <= cs[n].endLine
        BY <4>1 DEF Ordered
      <4>. QED BY <4>2 DEF n
    <3>. QED BY <2>1, <3>1, <1>1
  <2>. QED BY <2>2, <2>3
<1>. QED BY <1>1, <1>2, <1>3

\* Nothing is chosen at the start.
LEMMA ChoiceStarts ==
  ASSUME NEW fs, NEW original
  PROVE  Ordered(<<>>) /\ EndOf(<<>>) = 0 /\ Choice(fs, DOMAIN fs, <<>>, original)
<1>1. DOMAIN <<>> = {} /\ Len(<<>>) = 0
  OBVIOUS
<1>. QED BY <1>1 DEF Ordered, EndOf, Choice

\* The edit e of the i-th finding is chosen after cs.
MayChoose(fs, rest, i, e, cs, original) ==
  /\ original \in Seq(Text) /\ Len(original) > 0
  /\ fs \in Seq(Edit) /\ \A j \in DOMAIN fs : ValidEdit(fs[j])
  /\ cs \in Seq(FullEdit) /\ Ordered(cs) /\ Choice(fs, rest, cs, original)
  /\ i \in rest /\ \A j \in rest : fs[i].line <= fs[j].line
  /\ Normalizable(fs[i], original)
  /\ e = Normalize(fs[i], original) /\ e.line > EndOf(cs)

IsChosen(fs, rest, i, e, cs, original) ==
  /\ Append(cs, e) \in Seq(FullEdit)
  /\ Ordered(Append(cs, e))
  /\ Choice(fs, rest \ {i}, Append(cs, e), original)
  /\ EndOf(Append(cs, e)) = IF e.endLine > EndOf(cs) THEN e.endLine ELSE EndOf(cs)

\* A finding that starts after the last chosen edit may follow it.
LEMMA ChooseKeeps ==
  ASSUME NEW fs, NEW rest, NEW i, NEW e, NEW cs, NEW original,
         MayChoose(fs, rest, i, e, cs, original)
  PROVE  IsChosen(fs, rest, i, e, cs, original)
<1>. DEFINE new == Append(cs, e)
            n   == Len(cs)
<1>. /\ original \in Seq(Text) /\ Len(original) > 0
     /\ fs \in Seq(Edit) /\ \A j \in DOMAIN fs : ValidEdit(fs[j])
     /\ cs \in Seq(FullEdit) /\ Ordered(cs) /\ Choice(fs, rest, cs, original)
     /\ i \in rest /\ \A j \in rest : fs[i].line <= fs[j].line
     /\ Normalizable(fs[i], original)
     /\ e = Normalize(fs[i], original) /\ e.line > EndOf(cs)
  BY DEF MayChoose
<1>1. \A j \in DOMAIN fs : fs[j] \in Edit /\ fs[j].line \in Nat
  <2>1. \A j \in DOMAIN fs : fs[j] \in Edit
    BY LenProperties, ElementOfSeq
  <2>. QED BY <2>1 DEF Edit
<1>2. rest \subseteq DOMAIN fs
  BY DEF Choice
<1>3. e \in FullEdit /\ e.line = FirstLine(fs[i]) /\ e.line <= e.endLine
  BY <1>1, <1>2, NormalizeIs
<1>4. e.line \in Nat /\ e.endLine \in Nat
  BY <1>3, EditIs
<1>5. /\ n \in Nat /\ DOMAIN cs = 1..n
      /\ \A j \in 1..n : cs[j].line \in Nat /\ cs[j].endLine \in Nat
  BY EditsAre
<1>6. EndOf(cs) \in Nat /\ \A j \in 1..n : cs[j].endLine <= EndOf(cs)
  BY <1>5, EndOfIs
<1>7. /\ new \in Seq(FullEdit) /\ Len(new) = n + 1
      /\ (\A j \in 1..n : new[j] = cs[j]) /\ new[n + 1] = e
  BY <1>3, AppendProperties
<1>8. DOMAIN new = 1..n + 1
  BY <1>7, LenProperties
<1>. HIDE DEF new, n
<1>9. Ordered(new)
  <2>1. ASSUME NEW j \in 1..n + 1, NEW k \in 1..n + 1, j < k PROVE new[j].endLine < new[k].line
    <3>1. j \in 1..n /\ new[j] = cs[j]
      BY <2>1, <1>5, <1>7
    <3>2. CASE k = n + 1
      BY <3>1, <3>2, <1>4, <1>5, <1>6, <1>7
    <3>3. CASE k # n + 1
      <4>1. k \in 1..n /\ new[k] = cs[k]
        BY <3>3, <1>5, <1>7
      <4>. QED BY <2>1, <3>1, <4>1, <1>5 DEF Ordered
    <3>. QED BY <3>2, <3>3
  <2>2. ASSUME NEW j \in 1..n + 1 PROVE new[j].line <= new[j].endLine
    <3>1. CASE j = n + 1
      BY <3>1, <1>3, <1>7
    <3>2. CASE j # n + 1
      <4>1. j \in 1..n /\ new[j] = cs[j]
        BY <3>2, <1>5, <1>7
      <4>. QED BY <4>1, <1>5 DEF Ordered
    <3>. QED BY <3>1, <3>2
  <2>. QED BY <2>1, <2>2, <1>8 DEF Ordered
<1>10. ASSUME NEW f, Covered(f, cs) PROVE Covered(f, new)
  <2>1. PICK j \in DOMAIN cs : ShareLine(cs[j], f) /\ cs[j].line <= f.line
    BY <1>10 DEF Covered
  <2>2. j \in DOMAIN new /\ new[j] = cs[j]
    BY <1>5, <1>7, <1>8
  <2>. QED BY <2>1, <2>2 DEF Covered
<1>11. Covered(e, new)
  <2>1. n + 1 \in DOMAIN new /\ new[n + 1] = e
    BY <1>5, <1>7, <1>8
  <2>2. ShareLine(e, e) /\ e.line <= e.line
    BY <1>3, <1>4 DEF ShareLine
  <2>. QED BY <2>1, <2>2 DEF Covered
<1>12. \A j \in DOMAIN fs \ (rest \ {i}) : Normalizable(fs[j], original) /\ Covered(Normalize(fs[j], original), new)
  <2>. SUFFICES ASSUME NEW j \in DOMAIN fs \ (rest \ {i})
                PROVE  Normalizable(fs[j], original) /\ Covered(Normalize(fs[j], original), new)
    OBVIOUS
  <2>1. CASE j = i
    BY <2>1, <1>11
  <2>2. CASE j # i
    <3>1. j \in DOMAIN fs \ rest
      BY <2>2
    <3>2. Normalizable(fs[j], original) /\ Covered(Normalize(fs[j], original), cs)
      BY <3>1 DEF Choice
    <3>. QED BY <3>2, <1>10
  <2>. QED BY <2>1, <2>2
<1>13. ASSUME NEW f, IsOneOf(f, fs, rest, original) PROVE IsOneOf(f, fs, rest \ {i}, original)
  BY <1>13 DEF IsOneOf
<1>14. IsOneOf(e, fs, rest \ {i}, original)
  BY <1>2 DEF IsOneOf
<1>15. ASSUME NEW j \in DOMAIN new PROVE IsOneOf(new[j], fs, rest \ {i}, original)
  <2>1. CASE j = n + 1
    BY <2>1, <1>7, <1>14
  <2>2. CASE j # n + 1
    <3>1. j \in DOMAIN cs /\ new[j] = cs[j]
      BY <2>2, <1>5, <1>7, <1>8
    <3>. QED BY <3>1, <1>13 DEF Choice
  <2>. QED BY <2>1, <2>2
<1>16. ASSUME NEW j \in DOMAIN new, NEW k \in rest \ {i} PROVE new[j].line <= FirstLine(fs[k])
  <2>1. CASE j = n + 1
    <3>1. fs[i].line \in Nat /\ fs[k].line \in Nat /\ fs[i].line <= fs[k].line
      BY <1>1, <1>2
    <3>2. FirstLine(fs[i]) <= FirstLine(fs[k])
      BY <3>1 DEF FirstLine
    <3>. QED BY <2>1, <3>2, <1>3, <1>7
  <2>2. CASE j # n + 1
    <3>1. j \in DOMAIN cs /\ new[j] = cs[j]
      BY <2>2, <1>5, <1>7, <1>8
    <3>. QED BY <3>1 DEF Choice
  <2>. QED BY <2>1, <2>2
<1>17. Choice(fs, rest \ {i}, new, original)
  BY <1>2, <1>12, <1>15, <1>16 DEF Choice
<1>18. EndOf(new) = IF e.endLine > EndOf(cs) THEN e.endLine ELSE EndOf(cs)
  <2>1. EndOf(new) = e.endLine
    BY <1>5, <1>7 DEF EndOf
  <2>2. e.endLine > EndOf(cs)
    BY <1>3, <1>4, <1>6
  <2>. QED BY <2>1, <2>2
<1>. QED BY <1>7, <1>9, <1>17, <1>18 DEF IsChosen, new

\* One that does not shares a line with a chosen edit that starts no later.
LEMMA SkipKeeps ==
  ASSUME NEW original \in Seq(Text), Len(original) > 0,
         NEW fs \in Seq(Edit), \A i \in DOMAIN fs : ValidEdit(fs[i]),
         NEW cs \in Seq(FullEdit), Ordered(cs), NEW rest, Choice(fs, rest, cs, original),
         NEW i \in rest, Normalizable(fs[i], original),
         Normalize(fs[i], original).line <= EndOf(cs)
  PROVE  Choice(fs, rest \ {i}, cs, original)
<1>. DEFINE e == Normalize(fs[i], original)
<1>1. i \in DOMAIN fs /\ fs[i] \in Edit /\ rest \subseteq DOMAIN fs
  BY LenProperties, ElementOfSeq DEF Choice
<1>2. e \in FullEdit /\ e.line = FirstLine(fs[i]) /\ e.line <= e.endLine
  BY <1>1, NormalizeIs
<1>3. e.line \in Nat /\ e.line > 0 /\ e.endLine \in Nat /\ e.line <= EndOf(cs)
  BY <1>2, EditIs
<1>. HIDE DEF e
<1>4. Covered(e, cs)
  <2>1. /\ Len(cs) \in Nat /\ DOMAIN cs = 1..Len(cs)
        /\ \A j \in 1..Len(cs) : cs[j].line \in Nat /\ cs[j].endLine \in Nat
    BY EditsAre
  <2>2. Len(cs) # 0
    BY <1>3 DEF EndOf
  <2>. DEFINE d == cs[Len(cs)]
  <2>3. Len(cs) \in DOMAIN cs /\ d.endLine = EndOf(cs) /\ d.line \in Nat /\ d.endLine \in Nat
    BY <2>1, <2>2 DEF EndOf
  <2>4. d.line <= e.line
    BY <2>3, <1>2 DEF Choice
  <2>5. ShareLine(d, e)
    BY <2>3, <2>4, <1>2, <1>3 DEF ShareLine
  <2>. QED BY <2>3, <2>4, <2>5 DEF Covered
<1>5. \A j \in DOMAIN fs \ (rest \ {i}) : Normalizable(fs[j], original) /\ Covered(Normalize(fs[j], original), cs)
  BY <1>4 DEF Choice, e
<1>6. ASSUME NEW f, IsOneOf(f, fs, rest, original) PROVE IsOneOf(f, fs, rest \ {i}, original)
  BY <1>6 DEF IsOneOf
<1>7. \A j \in DOMAIN cs : IsOneOf(cs[j], fs, rest \ {i}, original)
  BY <1>6 DEF Choice
<1>. QED BY <1>1, <1>5, <1>7 DEF Choice

\* What was chosen when nothing is left is one of the choices that are promised.
LEMMA ChoiceIsPromised ==
  ASSUME NEW original \in Seq(Text), NEW fs, NEW cs \in Seq(FullEdit), Ordered(cs),
         Choice(fs, {}, cs, original)
  PROVE  LET S == {cs[j] : j \in DOMAIN cs}
             E == {Normalize(fs[i], original) : i \in DOMAIN fs} IN
         S \subseteq E /\ IsChoice(S, E)
<1>. DEFINE S == {cs[j] : j \in DOMAIN cs}
            E == {Normalize(fs[i], original) : i \in DOMAIN fs}
<1>1. S \subseteq E
  BY DEF Choice, IsOneOf
<1>2. ASSUME NEW d \in S, NEW e \in S, d # e PROVE ~ShareLine(d, e)
  <2>1. PICK i \in DOMAIN cs, j \in DOMAIN cs : d = cs[i] /\ e = cs[j]
    OBVIOUS
  <2>2. i \in Nat /\ j \in Nat /\ i # j
    BY <1>2, <2>1, EditsAre
  <2>3. d.line \in Nat /\ d.endLine \in Nat /\ e.line \in Nat /\ e.endLine \in Nat
    BY <2>1, EditsAre
  <2>4. CASE i < j
    <3>1. d.endLine < e.line
      BY <2>1, <2>4 DEF Ordered
    <3>. QED BY <3>1, <2>3 DEF ShareLine
  <2>5. CASE j < i
    <3>1. e.endLine < d.line
      BY <2>1, <2>5 DEF Ordered
    <3>. QED BY <3>1, <2>3 DEF ShareLine
  <2>. QED BY <2>2, <2>4, <2>5
<1>3. ASSUME NEW e \in E \ S PROVE \E d \in S : ShareLine(d, e) /\ d.line <= e.line
  <2>1. Covered(e, cs)
    BY DEF Choice
  <2>. QED BY <2>1 DEF Covered
<1>. QED BY <1>1, <1>2, <1>3 DEF IsChoice

-----------------------------------------------------------------------------
(* Applying what was chosen, from the last edit to the first               *)

From(cs, n) == {cs[j] : j \in n + 1..Len(cs)}

\* The first line that the edits after the n-th leave to those before.
Bound(cs, n, original) == IF n = Len(cs) THEN Len(original) ELSE cs[n + 1].line - 1

\* The edits after the n-th were applied.
AppliedSome(cs, n, ls, original) ==
  /\ GoodEdits(From(cs, n), original)
  /\ Applied(From(cs, n), Bound(cs, n, original), ls, original)
  /\ n = Len(cs) => ls = original

\* All edits are still to apply at the start.
LEMMA ApplyingStarts ==
  ASSUME NEW original \in Seq(Text), NEW cs \in Seq(FullEdit)
  PROVE  AppliedSome(cs, Len(cs), original, original)
<1>. DEFINE n == Len(cs)
<1>1. n \in Nat
  BY EditsAre
<1>. HIDE DEF n
<1>2. n + 1..n = {}
  BY <1>1
<1>3. From(cs, n) = {}
  BY <1>2 DEF From, n
<1>4. GoodEdits({}, original)
  BY DEF GoodEdits
<1>5. Bound(cs, n, original) = Len(original)
  BY DEF Bound, n
<1>. QED BY <1>3, <1>4, <1>5, AppliedStarts DEF AppliedSome, n

\* An edit ends where it may, if it fits into the lines or into the original.
LEMMA ApplyingBound ==
  ASSUME NEW original \in Seq(Text), NEW ls \in Seq(Text), NEW cs \in Seq(FullEdit), Ordered(cs),
         NEW n \in 1..Len(cs), AppliedSome(cs, n, ls, original),
         Fits(cs[n], ls) \/ Fits(cs[n], original)
  PROVE  cs[n].endLine <= Bound(cs, n, original)
<1>1. /\ Len(cs) \in Nat /\ DOMAIN cs = 1..Len(cs)
      /\ \A i \in 1..Len(cs) : cs[i].line \in Nat /\ cs[i].endLine \in Nat
  BY EditsAre
<1>2. CASE n = Len(cs)
  <2>1. ls = original /\ Bound(cs, n, original) = Len(original)
    BY <1>2 DEF AppliedSome, Bound
  <2>2. cs[n].endLine \in DOMAIN original
    BY <2>1 DEF Fits
  <2>. QED BY <2>1, <2>2, LinesAre
<1>3. CASE n # Len(cs)
  <2>. DEFINE m == n + 1
  <2>1. m \in DOMAIN cs /\ n \in DOMAIN cs /\ n < m /\ m \in 1..Len(cs)
    <3>. DEFINE k == Len(cs)
    <3>1. k \in Nat /\ n \in 1..k /\ n # k /\ DOMAIN cs = 1..k
      BY <1>1, <1>3
    <3>. HIDE DEF k
    <3>2. n \in Nat /\ n + 1 \in 1..k /\ n < n + 1
      BY <3>1
    <3>. QED BY <3>1, <3>2 DEF k
  <2>2. Bound(cs, n, original) = cs[m].line - 1
    BY <1>3 DEF Bound
  <2>. HIDE DEF m
  <2>3. cs[n].endLine < cs[m].line
    BY <2>1 DEF Ordered
  <2>4. cs[n].endLine \in Nat /\ cs[m].line \in Nat
    BY <1>1, <2>1
  <2>. QED BY <2>2, <2>3, <2>4
<1>. QED BY <1>2, <1>3

LEMMA ApplyingFits ==
  ASSUME NEW original \in Seq(Text), NEW ls \in Seq(Text), NEW cs \in Seq(FullEdit), Ordered(cs),
         NEW n \in 1..Len(cs), AppliedSome(cs, n, ls, original), Fits(cs[n], original)
  PROVE  Fits(cs[n], ls)
<1>. DEFINE e == cs[n]
            p == Bound(cs, n, original)
<1>1. e \in FullEdit /\ e.line <= e.endLine /\ e.endLine <= p
  BY ApplyingBound, EditsAre DEF Ordered
<1>2. p \in 0..Len(original) /\ p <= Len(ls) /\ \A k \in 1..p : ls[k] = original[k]
  BY DEF AppliedSome, Applied
<1>3. e.line \in Nat /\ e.line > 0 /\ e.endLine \in Nat /\ Len(ls) \in Nat /\ Len(original) \in Nat
      /\ DOMAIN ls = 1..Len(ls)
  BY <1>1, EditIs, LinesAre
<1>. HIDE DEF e, p
<1>4. e.line \in 1..p /\ e.endLine \in 1..p
  BY <1>1, <1>2, <1>3
<1>5. e.line \in DOMAIN ls /\ e.endLine \in DOMAIN ls
  BY <1>2, <1>3, <1>4
<1>6. ls[e.line] = original[e.line] /\ ls[e.endLine] = original[e.endLine]
  BY <1>2, <1>4
<1>7. Fits(e, original)
  BY DEF e
<1>8. Fits(e, ls)
  BY <1>5, <1>6, <1>7 DEF Fits
<1>. QED BY <1>8 DEF e

\* Applying the last of those that are left.
LEMMA ApplyingStep ==
  ASSUME NEW original \in Seq(Text), NEW ls \in Seq(Text), NEW cs \in Seq(FullEdit), Ordered(cs),
         NEW n \in 1..Len(cs), AppliedSome(cs, n, ls, original), Fits(cs[n], ls)
  PROVE  /\ Replace(cs[n], ls) \in Seq(Text)
         /\ AppliedSome(cs, n - 1, Replace(cs[n], ls), original)
<1>. DEFINE e == cs[n]
            S == From(cs, n)
            p == Bound(cs, n, original)
<1>1. n \in Nat /\ Len(cs) \in Nat /\ n \in DOMAIN cs /\ n <= Len(cs) /\ n >= 1
  BY EditsAre
<1>2. e \in FullEdit /\ e.line <= e.endLine /\ e.endLine <= p /\ Fits(e, ls)
  BY <1>1, ApplyingBound, EditsAre DEF Ordered
<1>3. GoodEdits(S, original) /\ Applied(S, p, ls, original)
  BY DEF AppliedSome
<1>4. From(cs, n - 1) = S \cup {e}
  <2>1. (n - 1) + 1..Len(cs) = (n + 1..Len(cs)) \cup {n}
    BY <1>1
  <2>. QED BY <2>1 DEF From
<1>5. Bound(cs, n - 1, original) = e.line - 1
  <2>1. n - 1 # Len(cs) /\ (n - 1) + 1 = n
    BY <1>1
  <2>. QED BY <2>1 DEF Bound
<1>. HIDE DEF e, S, p
<1>6. GoodEdits(S \cup {e}, original) /\ Applied(S \cup {e}, e.line - 1, Replace(e, ls), original)
  BY <1>2, <1>3, AppliedStep
<1>7. Replace(e, ls) \in Seq(Text)
  BY <1>2, ReplaceJoins
<1>8. n - 1 # Len(cs)
  BY <1>1
<1>. QED BY <1>4, <1>5, <1>6, <1>7, <1>8 DEF AppliedSome, e

\* When none is left, all were applied at once.
LEMMA ApplyingEnds ==
  ASSUME NEW original \in Seq(Text), NEW ls \in Seq(Text), NEW cs \in Seq(FullEdit),
         AppliedSome(cs, 0, ls, original)
  PROVE  LET S == {cs[j] : j \in DOMAIN cs} IN
         (\A e \in S : Fits(e, original)) /\ Join(ls) = AllAtOnce(S, original)
<1>1. From(cs, 0) = {cs[j] : j \in DOMAIN cs}
  <2>1. 0 + 1..Len(cs) = DOMAIN cs
    BY EditsAre
  <2>. QED BY <2>1 DEF From
<1>2. \A e \in From(cs, 0) : Fits(e, original)
  BY DEF AppliedSome, GoodEdits
<1>3. Join(ls) = AllAtOnce(From(cs, 0), original)
  BY AppliedEnds DEF AppliedSome
<1>. QED BY <1>1, <1>2, <1>3

\* Applying the chosen edits one by one, from the last to the first, gives one of
\* the results that are promised: what a choice among the findings makes of the
\* text at once (fix.go:112-153).
THEOREM ResultIsPromised ==
  ASSUME NEW text \in Text, NEW fs, NEW cs \in Seq(FullEdit), Ordered(cs),
         Choice(fs, {}, cs, Lines(text)), NEW ls \in Seq(Text), AppliedSome(cs, 0, ls, Lines(text)),
         NEW wanted, wanted = {fs[i] : i \in DOMAIN fs}
  PROVE  Join(ls) \in Results(wanted, text)
<1>. DEFINE original == Lines(text)
            S == {cs[j] : j \in DOMAIN cs}
            E == {Normalize(e, original) : e \in wanted}
<1>1. original \in Seq(Text)
  BY LinesProperties
<1>2. E = {Normalize(fs[i], original) : i \in DOMAIN fs}
  OBVIOUS
<1>3. S \subseteq E /\ IsChoice(S, E)
  <2>. DEFINE D == {Normalize(fs[i], original) : i \in DOMAIN fs}
  <2>1. S \subseteq D /\ IsChoice(S, D)
    <3>. HIDE DEF original
    <3>1. Choice(fs, {}, cs, original)
      BY DEF original
    <3>. QED BY <1>1, <3>1, ChoiceIsPromised
  <2>2. D = E
    BY <1>2
  <2>. HIDE DEF D, E, S
  <2>. QED BY <2>1, <2>2
<1>4. (\A e \in S : Fits(e, original)) /\ Join(ls) = AllAtOnce(S, original)
  BY <1>1, ApplyingEnds
<1>5. \A e \in wanted : Normalizable(e, original)
  BY DEF Choice
<1>6. Results(wanted, text) = {AllAtOnce(T, original) : T \in {U \in SUBSET E : IsChoice(U, E) /\ \A e \in U : Fits(e, original)}}
  BY <1>5 DEF Results
<1>. HIDE DEF S, E, original
<1>. QED BY <1>3, <1>4, <1>6

-----------------------------------------------------------------------------
(* The inductive invariant                                                 *)

Types ==
  /\ setup \in Setup
  /\ at \in [Check -> Nat]
  /\ \A c \in Check : at[c] <= Len(setup.calls[c])
  /\ ended \in [Check -> {"no", "completed", "failed"}]
  /\ findings \in [Key -> Seq(Edit)]
  /\ pc \in {"checks", "files", "choose", "apply", "done", "failed", "panic"}
  /\ keys \subseteq Found
  /\ key \in Key \cup {NoKey}
  /\ lines \in Seq(Text)
  /\ chosen \in Seq(FullEdit)
  /\ left \in Nat /\ left <= Len(chosen)
  /\ disk \in [File -> Text]
  /\ printed \in Text

\* Which file Fix is at, and that it only got there when all checks completed.
PhaseInv ==
  /\ pc \in {"checks", "files"} => key = NoKey
  /\ pc = "checks" => keys = {}
  /\ pc # "checks" => \A c \in Check : ended[c] # "no"
  /\ pc \notin {"checks", "failed"} => AllCompleted
  /\ pc \in {"choose", "apply", "panic"} => key \in Found \ keys

\* Nothing is printed before the first file.
PrintedInv == pc \notin {"done", "failed"} /\ (pc = "checks" \/ Found = {}) => printed = <<>>

\* The collector holds exactly the findings with one replacement.
Given(calls, done, k, e) ==
  \E c \in Check : \E i \in 1..done[c] :
     Len(calls[c][i].replacements) = 1 /\ calls[c][i].key = k /\ e = CollectedEdit(calls[c][i])

FindingsInv ==
  /\ \A k \in Key : \A i \in DOMAIN findings[k] :
        ValidEdit(findings[k][i]) /\ Given(setup.calls, at, k, findings[k][i])
  /\ \A c \in Check : \A i \in 1..at[c] :
        LET call == setup.calls[c][i] IN
        Len(call.replacements) = 1 =>
          call.key \in Key /\ \E j \in DOMAIN findings[call.key] : findings[call.key][j] = CollectedEdit(call)

Original == Lines(disk[FileOf[key]])

ChosenInv ==
  /\ Ordered(chosen)
  /\ maxLine = EndOf(chosen)
  /\ pc \in {"choose", "apply"} => Choice(findings[key], todo, chosen, Original)
  /\ pc = "choose" => lines = Original
  /\ pc = "apply" => todo = {} /\ AppliedSome(chosen, left, lines, Original)

PanicInv ==
  pc = "panic" =>
    \E i \in DOMAIN findings[key] :
       Normalizable(findings[key][i], Original) => ~Fits(Normalize(findings[key][i], Original), Original)

FixInv == Types /\ PhaseInv /\ PrintedInv /\ FindingsInv /\ ChosenInv /\ PanicInv

-----------------------------------------------------------------------------
(* ctx.emit.finding and the collector                                      *)

\* The fields of a setup.
LEMMA SetupIs ==
  ASSUME setup \in Setup
  PROVE  /\ setup.disk \in [File -> Text]
         /\ setup.calls \in [Check -> Seq(Call)]
         /\ setup.tracked \subseteq Key
         /\ setup.toWriter \in BOOLEAN
         /\ setup.asked \subseteq File
BY DEF Setup

LEMMA NextCallIs ==
  ASSUME Types, NEW c \in Check, MayEmit(c)
  PROVE  /\ NextCall(c) \in Call
         /\ at[c] \in Nat /\ at[c] + 1 \in 1..Len(setup.calls[c]) /\ Len(setup.calls[c]) \in Nat
<1>1. setup.calls[c] \in Seq(Call) /\ at[c] \in Nat
  BY SetupIs DEF Types
<1>2. Len(setup.calls[c]) \in Nat
  BY <1>1, LenProperties
<1>3. at[c] + 1 \in 1..Len(setup.calls[c])
  BY <1>1, <1>2 DEF MayEmit
<1>4. NextCall(c) \in Call
  BY <1>1, <1>3, ElementOfSeq DEF NextCall
<1>. QED BY <1>1, <1>2, <1>3, <1>4

\* What the collector keeps is an edit as parseSpan leaves it.
LEMMA CollectedIs ==
  ASSUME NEW call \in Call, NEW c \in Check, Accepts(c, call), Len(call.replacements) = 1
  PROVE  CollectedEdit(call) \in Edit /\ ValidEdit(CollectedEdit(call)) /\ call.key \in Key
<1>1. /\ call.replacements \in Seq(Text) /\ call.key \in Key \cup {NoKey}
      /\ call.line \in Nat /\ call.col \in Nat /\ call.endLine \in Nat /\ call.endCol \in Nat
      /\ call \in [typed : BOOLEAN, message : BOOLEAN, key : Key \cup {NoKey}, line : Int, col : Int,
                   endLine : Int, endCol : Int, replacements : Seq(Text)]
  BY DEF Call, Accepts, ValidSpan
<1>2. call.replacements[1] \in Text
  BY <1>1, LinesAre
<1>. DEFINE last == IF call.line > 0 /\ call.endLine = 0 /\ call.endCol > 0 THEN call.line ELSE call.endLine
            e    == CollectedEdit(call)
<1>3. /\ SpanOf(call).line = call.line /\ SpanOf(call).col = call.col
      /\ SpanOf(call).endLine = last /\ SpanOf(call).endCol = call.endCol
  BY <1>1 DEF SpanOf
<1>4. last \in Nat
  BY <1>1
<1>5. e = [line |-> call.line, col |-> call.col, endLine |-> last, endCol |-> call.endCol,
           text |-> call.replacements[1]]
  BY <1>3 DEF CollectedEdit
<1>6. e \in Edit /\ e.line = call.line /\ e.endLine = last /\ e.col = call.col
  <2>. HIDE DEF e, last
  <2>. QED BY <1>1, <1>2, <1>4, <1>5 DEF Edit
<1>7. /\ call.line = 0 => call.endLine = 0 /\ call.col = 0
      /\ call.endLine > 0 => call.endLine >= call.line
  BY DEF Accepts, ValidSpan
<1>8. /\ call.line = 0 => last = 0
      /\ last > 0 => call.line <= last
  BY <1>1, <1>7
<1>9. ValidEdit(e)
  <2>. HIDE DEF e, last
  <2>. QED BY <1>6, <1>7, <1>8 DEF ValidEdit
<1>10. call.key # NoKey
  <2>1. call.replacements # <<>>
    <3>. SUFFICES ASSUME call.replacements = <<>> PROVE FALSE
      OBVIOUS
    <3>1. Len(<<>>) = 0
      OBVIOUS
    <3>. QED BY <3>1
  <2>. QED BY <2>1 DEF Accepts
<1>. QED BY <1>1, <1>6, <1>9, <1>10

LEMMA PrefixType ==
  ASSUME NEW text \in Text, NEW part \in Prefixes(text)
  PROVE  part \in Text
<1>1. PICK n \in 0..Len(text) : part = SubSeq(text, 1, n)
  BY DEF Prefixes
<1>2. Len(text) \in Nat /\ \A i \in 1..Len(text) : text[i] \in Char
  BY LenProperties, ElementOfSeq DEF Text
<1>3. n \in Int /\ \A i \in 1..n : text[i] \in Char
  BY <1>2
<1>4. SubSeq(text, 1, n) \in Seq(Char)
  BY <1>3, SubSeqProperties
<1>. QED BY <1>1, <1>4 DEF Text

\* The file being fixed, as it was read.
LEMMA OriginalIs ==
  ASSUME Types, PhaseInv, pc \in {"choose", "apply", "panic"}
  PROVE  /\ key \in Key /\ FileOf[key] \in File /\ disk[FileOf[key]] \in Text
         /\ Original \in Seq(Text) /\ Len(Original) > 0
         /\ findings[key] \in Seq(Edit)
<1>1. key \in Key
  BY DEF PhaseInv, Found
<1>2. FileOf[key] \in File /\ disk[FileOf[key]] \in Text /\ findings[key] \in Seq(Edit)
  BY <1>1, FixAssumption DEF Types
<1>. QED BY <1>1, <1>2, LinesProperties DEF Original

\* What choosing one more leaves.
LEMMA ChosenStep ==
  ASSUME Types, PhaseInv, FindingsInv, ChosenInv, NEW i \in todo, Choose(i)
  PROVE  /\ chosen' \in Seq(FullEdit) /\ Len(chosen') = Len(chosen) + 1
         /\ Ordered(chosen') /\ maxLine' = EndOf(chosen')
         /\ Choice(findings[key], todo', chosen', Original)
<1>. DEFINE fs == findings[key]
            e  == Normalize(fs[i], Original)
<1>1. /\ pc = "choose" /\ lines = Original /\ chosen \in Seq(FullEdit) /\ Ordered(chosen) /\ maxLine = EndOf(chosen)
      /\ Choice(fs, todo, chosen, Original)
  BY DEF Choose, ChosenInv, Types
<1>2. Original \in Seq(Text) /\ Len(Original) > 0 /\ fs \in Seq(Edit) /\ key \in Key
  BY <1>1, OriginalIs
<1>3. \A j \in DOMAIN fs : ValidEdit(fs[j])
  BY <1>2 DEF FindingsInv
<1>4. /\ Considered(i) = e /\ Normalizable(fs[i], Original) /\ e.line > EndOf(chosen)
      /\ \A j \in todo : fs[i].line <= fs[j].line
      /\ chosen' = Append(chosen, e) /\ todo' = todo \ {i}
      /\ maxLine' = IF e.endLine > EndOf(chosen) THEN e.endLine ELSE EndOf(chosen)
  BY <1>1 DEF Choose, Considered, IsFirst
<1>. HIDE DEF fs, e
<1>5. e = Normalize(fs[i], Original)
  BY DEF e
<1>6. IsChosen(fs, todo, i, e, chosen, Original)
  <2>1. MayChoose(fs, todo, i, e, chosen, Original)
    BY <1>1, <1>2, <1>3, <1>4, <1>5 DEF MayChoose
  <2>. QED BY <2>1, ChooseKeeps
<1>7. Len(Append(chosen, e)) = Len(chosen) + 1
  BY <1>1
<1>. QED BY <1>4, <1>6, <1>7 DEF IsChosen, fs

\* What applying one edit leaves.
LEMMA LinesStep ==
  ASSUME Types, PhaseInv, ChosenInv, Apply
  PROVE  lines' \in Seq(Text) /\ AppliedSome(chosen, left - 1, lines', Original)
<1>1. /\ pc = "apply" /\ left > 0 /\ lines' = Replace(chosen[left], lines) /\ Fits(chosen[left], lines)
      /\ lines \in Seq(Text) /\ chosen \in Seq(FullEdit) /\ Ordered(chosen)
      /\ AppliedSome(chosen, left, lines, Original)
  BY DEF Apply, NextEdit, ChosenInv, Types
<1>2. Original \in Seq(Text)
  BY <1>1, OriginalIs
<1>3. left \in 1..Len(chosen)
  BY <1>1, LenProperties DEF Types
<1>. QED BY <1>1, <1>2, <1>3, ApplyingStep

\* Types, by action.
LEMMA TypesInductive ==
  ASSUME Types, PhaseInv, FindingsInv, ChosenInv, Next
  PROVE  Types'
<1>. USE FixAssumption
<1>1. ASSUME NEW c \in Check, Emit(c) PROVE Types'
  <2>. DEFINE call == NextCall(c)
  <2>1. /\ call \in Call /\ Accepts(c, call)
        /\ at[c] \in Nat /\ at[c] + 1 \in 1..Len(setup.calls[c])
    BY <1>1, NextCallIs DEF Emit
  <2>2. findings' \in [Key -> Seq(Edit)]
    <3>1. CASE Len(call.replacements) = 1
      <4>1. CollectedEdit(call) \in Edit /\ call.key \in Key
        BY <2>1, <3>1, CollectedIs
      <4>2. findings' = [findings EXCEPT ![call.key] = Append(@, CollectedEdit(call))]
        BY <1>1, <3>1 DEF Emit
      <4>3. findings[call.key] \in Seq(Edit)
        BY <4>1 DEF Types
      <4>4. Append(findings[call.key], CollectedEdit(call)) \in Seq(Edit)
        BY <4>1, <4>3, AppendProperties
      <4>. HIDE DEF call
      <4>. QED BY <4>2, <4>4 DEF Types
    <3>2. CASE Len(call.replacements) # 1
      BY <1>1, <3>2 DEF Emit, Types
    <3>. QED BY <3>1, <3>2
  <2>3. at' \in [Check -> Nat] /\ \A d \in Check : at'[d] <= Len(setup'.calls[d])
    <3>1. at' = [at EXCEPT ![c] = at[c] + 1] /\ setup' = setup
      BY <1>1 DEF Emit
    <3>2. at[c] + 1 <= Len(setup.calls[c])
      BY <2>1
    <3>. QED BY <2>1, <3>1, <3>2 DEF Types
  <2>4. keys' = {}
    BY <1>1 DEF Emit, MayEmit, PhaseInv
  <2>. QED BY <1>1, <2>2, <2>3, <2>4 DEF Emit, Types, work
<1>2. ASSUME NEW c \in Check, EmitRefused(c) \/ Completes(c) \/ Fails(c) PROVE Types'
  <2>1. PICK how \in {"completed", "failed"} : CheckEnds(c, how)
    BY <1>2 DEF EmitRefused, Completes, Fails
  <2>. QED BY <2>1 DEF CheckEnds, Types, work, Found
<1>3. CASE RunReturns \/ Finish
  <2>1. keys' \in {Found, keys} /\ pc' \in {"files", "failed", "done"} /\ UNCHANGED <<setup, run, key, work, disk, printed>>
    BY <1>3 DEF RunReturns, Finish
  <2>. QED BY <2>1 DEF Types, work, run, Found
<1>4. CASE Echo
  <2>1. PICK f \in setup.asked : printed' = disk[f] \/ printed' \in Prefixes(disk[f])
    BY <1>4 DEF Echo
  <2>2. disk[f] \in Text
    BY SetupIs DEF Types
  <2>3. ASSUME NEW text \in Text, NEW part \in Prefixes(text) PROVE part \in Text
    BY <2>3, PrefixType
  <2>4. printed' \in Text
    BY <2>1, <2>2, <2>3
  <2>5. pc' \in {"done", "failed"} /\ UNCHANGED <<setup, run, keys, key, work, disk>>
    BY <1>4 DEF Echo
  <2>. QED BY <2>4, <2>5 DEF Types, work, run, Found
<1>5. ASSUME NEW k \in Key, NextFile(k) PROVE Types'
  <2>1. disk[FileOf[k]] \in Text
    BY DEF Types
  <2>2. lines' \in Seq(Text)
    BY <1>5, <2>1, LinesProperties DEF NextFile
  <2>3. chosen' \in Seq(FullEdit) /\ left' \in Nat /\ left' <= Len(chosen')
    BY <1>5 DEF NextFile
  <2>4. pc' = "choose" /\ keys' \subseteq keys /\ key' \in Key /\ UNCHANGED <<setup, run, disk, printed>>
    BY <1>5 DEF NextFile
  <2>. QED BY <2>2, <2>3, <2>4 DEF Types, run, Found
<1>6. ASSUME NEW k \in Key, ReadFails(k) PROVE Types'
  BY <1>6 DEF ReadFails, Types, work, run, Found
<1>7. ASSUME NEW i \in todo, Choose(i) PROVE Types'
  <2>1. chosen' \in Seq(FullEdit)
    BY <1>7, ChosenStep
  <2>2. chosen' = Append(chosen, Considered(i)) /\ left' = left
    BY <1>7 DEF Choose
  <2>3. Len(chosen') = Len(chosen) + 1
    BY <2>2, <1>7, ChosenStep
  <2>4. Len(chosen) \in Nat /\ left \in Nat /\ left <= Len(chosen)
    BY LenProperties DEF Types
  <2>5. left' \in Nat /\ left' <= Len(chosen')
    BY <2>2, <2>3, <2>4
  <2>. QED BY <1>7, <2>1, <2>5 DEF Choose, Types, run, Found
<1>8. ASSUME NEW i \in todo, Skip(i) PROVE Types'
  BY <1>8 DEF Skip, Types, run, Found
<1>9. CASE ApplyPanics \/ \E i \in todo : NormalizePanics(i)
  <2>1. Panic
    BY <1>9 DEF ApplyPanics, NormalizePanics
  <2>. QED BY <2>1 DEF Panic, Types, run, work, Found
<1>10. CASE StartApplying
  <2>1. left' \in Nat /\ left' <= Len(chosen')
    <3>1. left' = Len(chosen) /\ chosen' = chosen
      BY <1>10 DEF StartApplying
    <3>2. Len(chosen) \in Nat
      BY LenProperties DEF Types
    <3>. QED BY <3>1, <3>2
  <2>. QED BY <1>10, <2>1 DEF StartApplying, Types, run, Found
<1>11. CASE Apply
  <2>1. lines' \in Seq(Text)
    BY <1>11, LinesStep
  <2>2. left' \in Nat /\ left' <= Len(chosen')
    <3>1. left' = left - 1 /\ left > 0 /\ chosen' = chosen
      BY <1>11 DEF Apply
    <3>2. Len(chosen) \in Nat /\ left \in Nat /\ left <= Len(chosen)
      BY LenProperties DEF Types
    <3>. QED BY <3>1, <3>2
  <2>. QED BY <1>11, <2>1, <2>2 DEF Apply, Types, run, Found
<1>12. ASSUME NEW text \in Text, Deliver(text), key \in Key PROVE disk' \in [File -> Text] /\ printed' \in Text
  <2>1. printed \o text \in Text
    BY <1>12, ConcatProperties DEF Types, Text
  <2>. QED BY <1>12, <2>1 DEF Deliver, Types
<1>13. CASE Write
  <2>1. Join(lines) \in Text /\ key \in Key
    BY <1>13, JoinType DEF Types, PhaseInv, Write, Found
  <2>2. disk' \in [File -> Text] /\ printed' \in Text
    BY <1>12, <1>13, <2>1 DEF Write
  <2>. QED BY <1>13, <2>2 DEF Write, Types, run, work, Found
<1>14. CASE WriteFails
  <2>1. Join(lines) \in Text /\ key \in Key
    BY <1>14, JoinType DEF Types, PhaseInv, WriteFails, Found
  <2>2. disk' \in [File -> Text] /\ printed' \in Text
    <3>1. CASE UNCHANGED <<disk, printed>>
      BY <3>1 DEF Types
    <3>2. CASE \E part \in Prefixes(Join(lines)) : Deliver(part)
      <4>1. PICK part \in Prefixes(Join(lines)) : Deliver(part)
        BY <3>2
      <4>2. part \in Text
        BY <2>1, PrefixType
      <4>. QED BY <1>12, <2>1, <4>1, <4>2
    <3>. QED BY <1>14, <3>1, <3>2 DEF WriteFails
  <2>. QED BY <1>14, <2>2 DEF WriteFails, Types, run, work, Found
<1>15. CASE Over
  BY <1>15 DEF Over, vars, Types, run, work, Found
<1>. QED BY <1>1, <1>2, <1>3, <1>4, <1>5, <1>6, <1>7, <1>8, <1>9, <1>10, <1>11, <1>13, <1>14, <1>15 DEF Next

\* Where Fix is, by action.
LEMMA PhaseInductive ==
  ASSUME Types, PhaseInv, PrintedInv, Next
  PROVE  PhaseInv' /\ PrintedInv'
<1>. USE FixAssumption DEF PhaseInv, PrintedInv, AllCompleted, Found
<1>1. ASSUME NEW c \in Check, Emit(c) PROVE PhaseInv' /\ PrintedInv'
  <2>1. pc = "checks" /\ pc' = pc /\ keys' = keys /\ key' = key /\ ended' = ended /\ printed' = printed
    BY <1>1 DEF Emit, MayEmit
  <2>. QED BY <2>1
<1>2. ASSUME NEW c \in Check, EmitRefused(c) \/ Completes(c) \/ Fails(c) PROVE PhaseInv' /\ PrintedInv'
  <2>1. pc = "checks" /\ UNCHANGED <<pc, keys, key, printed, findings>>
    BY <1>2 DEF EmitRefused, MayEmit, Completes, Fails, CheckEnds
  <2>. QED BY <2>1
<1>3. CASE RunReturns
  <2>1. /\ pc = "checks" /\ \A c \in Check : ended[c] # "no"
        /\ UNCHANGED <<ended, findings, key, printed>>
        /\ \/ (\A c \in Check : ended[c] = "completed") /\ pc' = "files"
           \/ pc' = "failed" /\ keys' = keys
    BY <1>3 DEF RunReturns, run
  <2>. QED BY <2>1
<1>4. CASE Echo \/ Finish
  <2>1. /\ pc = "files" /\ pc' \in {"done", "failed"}
        /\ UNCHANGED <<ended, findings, keys, key>>
    BY <1>4 DEF Echo, Finish, run
  <2>. QED BY <2>1
<1>5. ASSUME NEW k \in Key, NextFile(k) PROVE PhaseInv' /\ PrintedInv'
  <2>1. /\ pc = "files" /\ pc' = "choose" /\ k \in keys /\ keys' = keys \ {k} /\ key' = k
        /\ UNCHANGED <<ended, findings, printed>>
    BY <1>5 DEF NextFile, IsNext, run
  <2>. QED BY <2>1 DEF Types
<1>6. ASSUME NEW k \in Key, ReadFails(k) PROVE PhaseInv' /\ PrintedInv'
  <2>1. pc = "files" /\ pc' = "failed" /\ UNCHANGED <<ended, findings, keys, key>>
    BY <1>6 DEF ReadFails, run
  <2>. QED BY <2>1
<1>7. ASSUME \/ StartApplying \/ Apply \/ ApplyPanics
             \/ \E i \in todo : Choose(i) \/ Skip(i) \/ NormalizePanics(i)
      PROVE  PhaseInv' /\ PrintedInv'
  <2>1. /\ pc \in {"choose", "apply"} /\ pc' \in {"choose", "apply", "panic"}
        /\ UNCHANGED <<ended, findings, keys, key, printed>>
    BY <1>7 DEF StartApplying, Apply, ApplyPanics, Choose, Skip, NormalizePanics, Panic, run
  <2>. QED BY <2>1
<1>8. CASE Write \/ WriteFails
  <2>1. /\ pc = "apply" /\ UNCHANGED <<ended, findings, keys>>
        /\ \/ pc' = "files" /\ key' = NoKey
           \/ pc' = "failed"
    BY <1>8 DEF Write, WriteFails, run
  <2>2. Found # {}
    BY <2>1
  <2>. QED BY <2>1, <2>2
<1>9. CASE Over
  BY <1>9 DEF Over, vars, run
<1>. QED BY <1>1, <1>2, <1>3, <1>4, <1>5, <1>6, <1>7, <1>8, <1>9 DEF Next

\* The collector, by action: only an accepted finding changes it.
LEMMA FindingsInductive ==
  ASSUME Types, FindingsInv, Next
  PROVE  FindingsInv'
<1>1. ASSUME NEW c \in Check, Emit(c) PROVE FindingsInv'
  <2>. DEFINE call == NextCall(c)
              n    == at[c] + 1
  <2>1. /\ call \in Call /\ Accepts(c, call) /\ MayEmit(c)
        /\ at[c] \in Nat /\ n \in Nat /\ call = setup.calls[c][n]
        /\ setup' = setup /\ at' = [at EXCEPT ![c] = n] /\ at \in [Check -> Nat]
        /\ findings \in [Key -> Seq(Edit)]
    BY <1>1, NextCallIs DEF Emit, Types, NextCall
  <2>. HIDE DEF n, call
  <2>2. /\ \A d \in Check : \A i \in 1..at[d] : i \in 1..at'[d]
        /\ n \in 1..at'[c]
        /\ \A d \in Check : \A i \in 1..at'[d] : i \in 1..at[d] \/ (d = c /\ i = n)
    BY <2>1 DEF n
  <2>3. ASSUME NEW k, NEW e, Given(setup.calls, at, k, e) PROVE Given(setup'.calls, at', k, e)
    BY <2>1, <2>2, <2>3 DEF Given
  <2>4. CASE Len(call.replacements) = 1
    <3>. DEFINE e == CollectedEdit(call)
                k == call.key
                f == findings[k]
    <3>1. e \in Edit /\ ValidEdit(e) /\ k \in Key
      BY <2>1, <2>4, CollectedIs
    <3>2. findings' = [findings EXCEPT ![k] = Append(f, e)]
      BY <1>1, <2>4 DEF Emit, call
    <3>3. f \in Seq(Edit)
      BY <2>1, <3>1
    <3>4. Given(setup'.calls, at', k, e)
      BY <2>1, <2>2, <2>4 DEF Given
    <3>5. /\ Len(f) \in Nat /\ DOMAIN f = 1..Len(f) /\ DOMAIN Append(f, e) = 1..Len(f) + 1
          /\ (\A i \in 1..Len(f) : Append(f, e)[i] = f[i]) /\ Append(f, e)[Len(f) + 1] = e
      BY <3>1, <3>3, AppendProperties, LenProperties
    <3>6. /\ \A i \in DOMAIN Append(f, e) : (i \in DOMAIN f /\ Append(f, e)[i] = f[i]) \/ Append(f, e)[i] = e
          /\ \A i \in DOMAIN f : i \in DOMAIN Append(f, e) /\ Append(f, e)[i] = f[i]
          /\ \E i \in DOMAIN Append(f, e) : Append(f, e)[i] = e
      BY <3>5
    <3>7. /\ \A j \in Key : j # k => findings'[j] = findings[j]
          /\ findings'[k] = Append(f, e)
      BY <2>1, <3>1, <3>2
    <3>. HIDE DEF e, k, f
    <3>8. ASSUME NEW j \in Key, NEW i \in DOMAIN findings'[j]
          PROVE  ValidEdit(findings'[j][i]) /\ Given(setup'.calls, at', j, findings'[j][i])
      <4>1. CASE j = k
        <5>1. CASE i \in DOMAIN f /\ Append(f, e)[i] = f[i]
          <6>1. ValidEdit(f[i]) /\ Given(setup.calls, at, k, f[i])
            BY <5>1, <3>1 DEF FindingsInv, f
          <6>. QED BY <4>1, <5>1, <6>1, <2>3, <3>7
        <5>2. CASE Append(f, e)[i] = e
          BY <4>1, <5>2, <3>1, <3>4, <3>7
        <5>. QED BY <4>1, <5>1, <5>2, <3>6, <3>7
      <4>2. CASE j # k
        BY <4>2, <2>3, <3>7 DEF FindingsInv
      <4>. QED BY <4>1, <4>2
    <3>9. ASSUME NEW d \in Check, NEW i \in 1..at'[d], Len(setup'.calls[d][i].replacements) = 1
          PROVE  /\ setup'.calls[d][i].key \in Key
                 /\ \E j \in DOMAIN findings'[setup'.calls[d][i].key] :
                       findings'[setup'.calls[d][i].key][j] = CollectedEdit(setup'.calls[d][i])
      <4>. DEFINE x == setup.calls[d][i]
      <4>1. CASE i \in 1..at[d]
        <5>1. x.key \in Key /\ \E j \in DOMAIN findings[x.key] : findings[x.key][j] = CollectedEdit(x)
          BY <3>9, <4>1, <2>1 DEF FindingsInv
        <5>2. CASE x.key = k
          BY <5>1, <5>2, <2>1, <3>6, <3>7 DEF f
        <5>3. CASE x.key # k
          BY <5>1, <5>3, <2>1, <3>7
        <5>. QED BY <5>2, <5>3
      <4>2. CASE d = c /\ i = n
        <5>1. x = call
          BY <4>2, <2>1
        <5>2. \E j \in DOMAIN findings'[k] : findings'[k][j] = e
          BY <3>6, <3>7
        <5>. QED BY <5>1, <5>2, <2>1, <3>1 DEF e, k
      <4>. QED BY <4>1, <4>2, <2>2
    <3>. QED BY <3>8, <3>9 DEF FindingsInv
  <2>5. CASE Len(call.replacements) # 1
    <3>1. findings' = findings
      BY <1>1, <2>5 DEF Emit, call
    <3>2. ASSUME NEW d \in Check, NEW i \in 1..at'[d], Len(setup'.calls[d][i].replacements) = 1
          PROVE  i \in 1..at[d]
      BY <3>2, <2>1, <2>2, <2>5
    <3>. QED BY <2>1, <2>3, <3>1, <3>2 DEF FindingsInv
  <2>. QED BY <2>4, <2>5
<1>2. ASSUME UNCHANGED <<setup, at, findings>> PROVE FindingsInv'
  BY <1>2 DEF FindingsInv
<1>3. ASSUME NEW c \in Check, EmitRefused(c) \/ Completes(c) \/ Fails(c) PROVE FindingsInv'
  BY <1>2, <1>3 DEF EmitRefused, Completes, Fails, CheckEnds
<1>4. CASE RunReturns \/ Echo \/ Finish
  BY <1>2, <1>4 DEF RunReturns, Echo, Finish, run
<1>5. ASSUME NEW k \in Key, NextFile(k) \/ ReadFails(k) PROVE FindingsInv'
  BY <1>2, <1>5 DEF NextFile, ReadFails, run
<1>6. ASSUME NEW i \in todo, Choose(i) \/ Skip(i) \/ NormalizePanics(i) PROVE FindingsInv'
  BY <1>2, <1>6 DEF Choose, Skip, NormalizePanics, Panic, run
<1>7. CASE StartApplying \/ Apply \/ ApplyPanics \/ Write \/ WriteFails
  BY <1>2, <1>7 DEF StartApplying, Apply, ApplyPanics, Panic, Write, WriteFails, run
<1>8. CASE Over
  BY <1>2, <1>8 DEF Over, vars, run
<1>. QED BY <1>1, <1>3, <1>4, <1>5, <1>6, <1>7, <1>8 DEF Next

\* The chosen edits and the lines, by action.
LEMMA ChosenInductive ==
  ASSUME Types, PhaseInv, FindingsInv, ChosenInv, Next
  PROVE  ChosenInv'
<1>1. ASSUME UNCHANGED <<chosen, maxLine>>, pc' \notin {"choose", "apply"} PROVE ChosenInv'
  BY <1>1 DEF ChosenInv
<1>2. ASSUME NEW c \in Check, Emit(c) \/ EmitRefused(c) \/ Completes(c) \/ Fails(c) PROVE ChosenInv'
  BY <1>1, <1>2 DEF Emit, EmitRefused, MayEmit, Completes, Fails, CheckEnds, work
<1>3. CASE RunReturns \/ Echo \/ Finish
  BY <1>1, <1>3 DEF RunReturns, Echo, Finish, work
<1>4. ASSUME NEW k \in Key, ReadFails(k) PROVE ChosenInv'
  BY <1>1, <1>4 DEF ReadFails, work
<1>5. ASSUME NEW k \in Key, NextFile(k) PROVE ChosenInv'
  <2>1. /\ pc' = "choose" /\ key' = k /\ lines' = Lines(disk[FileOf[k]]) /\ disk' = disk /\ findings' = findings
        /\ todo' = DOMAIN findings[k] /\ maxLine' = 0 /\ chosen' = <<>>
    BY <1>5 DEF NextFile, run
  <2>2. /\ Ordered(chosen') /\ EndOf(chosen') = 0
        /\ Choice(findings[k], DOMAIN findings[k], chosen', Lines(disk[FileOf[k]]))
    BY <2>1, ChoiceStarts
  <2>. QED BY <2>1, <2>2 DEF ChosenInv, Original
<1>6. ASSUME NEW i \in todo, Choose(i) PROVE ChosenInv'
  <2>1. pc = "choose" /\ UNCHANGED <<pc, key, disk, findings, lines>>
    BY <1>6 DEF Choose, run
  <2>2. Ordered(chosen') /\ maxLine' = EndOf(chosen') /\ Choice(findings[key], todo', chosen', Original)
    BY <1>6, ChosenStep
  <2>. QED BY <2>1, <2>2 DEF ChosenInv, Original
<1>7. ASSUME NEW i \in todo, Skip(i) PROVE ChosenInv'
  <2>1. /\ pc = "choose" /\ UNCHANGED <<pc, key, disk, findings, lines, chosen, maxLine>>
        /\ todo' = todo \ {i} /\ lines = Original /\ maxLine = EndOf(chosen) /\ Ordered(chosen)
        /\ Choice(findings[key], todo, chosen, Original) /\ chosen \in Seq(FullEdit)
        /\ Normalizable(findings[key][i], Original)
        /\ Normalize(findings[key][i], Original).line <= EndOf(chosen)
    BY <1>7 DEF Skip, ChosenInv, Considered, Types, run
  <2>2. Original \in Seq(Text) /\ Len(Original) > 0 /\ findings[key] \in Seq(Edit)
        /\ \A j \in DOMAIN findings[key] : ValidEdit(findings[key][j])
    BY <2>1, OriginalIs DEF FindingsInv
  <2>3. Choice(findings[key], todo \ {i}, chosen, Original)
    BY <2>1, <2>2, SkipKeeps
  <2>. QED BY <2>1, <2>3 DEF ChosenInv, Original
<1>8. CASE StartApplying
  <2>1. /\ pc = "choose" /\ pc' = "apply" /\ todo = {} /\ left' = Len(chosen)
        /\ UNCHANGED <<key, disk, findings, lines, chosen, maxLine, todo>> /\ lines = Original
        /\ chosen \in Seq(FullEdit)
    BY <1>8 DEF StartApplying, ChosenInv, Types, run
  <2>2. AppliedSome(chosen, Len(chosen), Original, Original)
    BY <2>1, OriginalIs, ApplyingStarts
  <2>. QED BY <2>1, <2>2 DEF ChosenInv, Original
<1>9. CASE Apply
  <2>1. /\ pc = "apply" /\ left' = left - 1 /\ UNCHANGED <<pc, key, disk, findings, chosen, maxLine, todo>>
    BY <1>9 DEF Apply, run
  <2>2. AppliedSome(chosen, left - 1, lines', Original)
    BY <1>9, LinesStep
  <2>. QED BY <2>1, <2>2 DEF ChosenInv, Original
<1>10. CASE ApplyPanics \/ \E i \in todo : NormalizePanics(i)
  BY <1>1, <1>10 DEF ApplyPanics, NormalizePanics, Panic, work
<1>11. CASE Write \/ WriteFails
  BY <1>1, <1>11 DEF Write, WriteFails, work
<1>12. CASE Over
  BY <1>1, <1>12 DEF Over, vars, work
<1>. QED BY <1>2, <1>3, <1>4, <1>5, <1>6, <1>7, <1>8, <1>9, <1>10, <1>11, <1>12 DEF Next

\* Panics, by action: the two that panic, and the rest that leave it so.
LEMMA PanicInductive ==
  ASSUME Types, PhaseInv, ChosenInv, PanicInv, Next
  PROVE  PanicInv'
<1>1. ASSUME pc' # "panic" PROVE PanicInv'
  BY <1>1 DEF PanicInv
<1>2. ASSUME NEW i \in todo, NormalizePanics(i) PROVE PanicInv'
  <2>1. /\ pc = "choose" /\ ~Normalizable(findings[key][i], Original) /\ UNCHANGED <<findings, key, disk>>
        /\ i \in DOMAIN findings[key]
    BY <1>2 DEF NormalizePanics, Panic, ChosenInv, Choice, run
  <2>. QED BY <2>1 DEF PanicInv, Original
<1>3. CASE ApplyPanics
  <2>. DEFINE e == chosen[left]
  <2>1. /\ pc = "apply" /\ ~Fits(e, lines) /\ UNCHANGED <<findings, key, disk>>
        /\ left > 0 /\ lines \in Seq(Text) /\ chosen \in Seq(FullEdit) /\ Ordered(chosen)
        /\ AppliedSome(chosen, left, lines, Original) /\ Choice(findings[key], todo, chosen, Original)
    BY <1>3 DEF ApplyPanics, NextEdit, Panic, ChosenInv, Types, run
  <2>2. left \in 1..Len(chosen) /\ left \in DOMAIN chosen
    BY <2>1, LenProperties DEF Types
  <2>3. ~Fits(e, Original)
    BY <2>1, <2>2, OriginalIs, ApplyingFits
  <2>4. IsOneOf(e, findings[key], todo, Original)
    BY <2>1, <2>2 DEF Choice
  <2>5. PICK i \in DOMAIN findings[key] : e = Normalize(findings[key][i], Original)
    BY <2>4 DEF IsOneOf
  <2>. QED BY <2>1, <2>3, <2>5 DEF PanicInv, Original
<1>4. ASSUME NEW c \in Check, Emit(c) \/ EmitRefused(c) \/ Completes(c) \/ Fails(c) PROVE PanicInv'
  BY <1>1, <1>4 DEF Emit, EmitRefused, MayEmit, Completes, Fails, CheckEnds
<1>5. CASE RunReturns \/ Echo \/ Finish
  BY <1>1, <1>5 DEF RunReturns, Echo, Finish
<1>6. ASSUME NEW k \in Key, NextFile(k) \/ ReadFails(k) PROVE PanicInv'
  BY <1>1, <1>6 DEF NextFile, ReadFails
<1>7. ASSUME NEW i \in todo, Choose(i) \/ Skip(i) PROVE PanicInv'
  BY <1>1, <1>7 DEF Choose, Skip
<1>8. CASE StartApplying \/ Apply \/ Write \/ WriteFails
  BY <1>1, <1>8 DEF StartApplying, Apply, Write, WriteFails
<1>9. CASE Over
  BY <1>9 DEF Over, vars, run, PanicInv, Original
<1>. QED BY <1>2, <1>3, <1>4, <1>5, <1>6, <1>7, <1>8, <1>9 DEF Next

-----------------------------------------------------------------------------
(* The invariant holds                                                     *)

LEMMA FixStarts ==
  ASSUME Init
  PROVE  FixInv
<1>. USE FixAssumption DEF Init
<1>1. setup \in Setup
  OBVIOUS
<1>2. Types
  <2>1. \A c \in Check : Len(setup.calls[c]) \in Nat
    BY <1>1, SetupIs, LenProperties
  <2>2. setup.disk \in [File -> Text]
    BY <1>1, SetupIs
  <2>3. <<>> \in Seq(Text) /\ <<>> \in Seq(FullEdit) /\ <<>> \in Text /\ <<>> \in Seq(Edit) /\ Len(<<>>) = 0
    BY DEF Text
  <2>4. at \in [Check -> Nat] /\ \A c \in Check : at[c] <= Len(setup.calls[c])
    BY <2>1
  <2>. QED BY <1>1, <2>2, <2>3, <2>4 DEF Types, Found
<1>3. PhaseInv /\ PrintedInv /\ PanicInv
  BY DEF PhaseInv, PrintedInv, PanicInv
<1>4. FindingsInv
  BY DEF FindingsInv
<1>5. ChosenInv
  <2>1. Ordered(<<>>) /\ EndOf(<<>>) = 0
    BY ChoiceStarts
  <2>. QED BY <2>1 DEF ChosenInv
<1>. QED BY <1>2, <1>3, <1>4, <1>5 DEF FixInv

LEMMA FixInductive ==
  ASSUME FixInv, [Next]_vars
  PROVE  FixInv'
<1>1. CASE Next
  BY <1>1, TypesInductive, PhaseInductive, FindingsInductive, ChosenInductive, PanicInductive DEF FixInv
<1>2. CASE UNCHANGED vars
  <2>1. Types'
    BY <1>2 DEF FixInv, Types, Found, vars, run, work
  <2>2. PhaseInv' /\ PrintedInv'
    BY <1>2 DEF FixInv, PhaseInv, PrintedInv, AllCompleted, Found, vars, run, work
  <2>3. FindingsInv'
    BY <1>2 DEF FixInv, FindingsInv, vars, run
  <2>4. ChosenInv' /\ PanicInv'
    BY <1>2 DEF FixInv, ChosenInv, PanicInv, Original, vars, run, work
  <2>. QED BY <2>1, <2>2, <2>3, <2>4 DEF FixInv
<1>. QED BY <1>1, <1>2

\* The inductive invariant of Fix: which file it is at, that the collector
\* holds what was asked for, that the chosen edits cover what was considered,
\* and that the lines are what the edits applied so far make of the file
\* (fix.go:44-146, runtime_ctx_emit.go:69-160).
THEOREM FixInvariance == Spec => []FixInv
<1>1. Init => FixInv
  BY FixStarts
<1>2. FixInv /\ [Next]_vars => FixInv'
  BY FixInductive
<1>. QED BY <1>1, <1>2, PTL DEF Spec

\* Every variable keeps its type, and the edits still to apply are always the
\* first of the chosen ones (fix.go:104-146).
THEOREM TypeCorrect == Spec => []TypeOK
<1>1. ASSUME FixInv PROVE TypeOK
  <2>1. Types /\ PhaseInv /\ ChosenInv
    BY <1>1 DEF FixInv
  <2>2. \A c \in Check : at[c] \in 0..Len(setup.calls[c])
    <3>1. ASSUME NEW c \in Check PROVE Len(setup.calls[c]) \in Nat
      BY <2>1, SetupIs, LenProperties DEF Types
    <3>. QED BY <2>1, <3>1 DEF Types
  <2>3. left \in 0..Len(chosen)
    <3>1. Len(chosen) \in Nat
      BY <2>1, LenProperties DEF Types
    <3>. QED BY <2>1, <3>1 DEF Types
  <2>4. maxLine \in Nat
    BY <2>1, EndOfIs DEF Types, ChosenInv
  <2>5. pc = "choose" => todo \subseteq DOMAIN findings[key]
    BY <2>1 DEF ChosenInv, Choice
  <2>. QED BY <2>1, <2>2, <2>3, <2>4, <2>5 DEF TypeOK, Types, PhaseInv
<1>. QED BY <1>1, FixInvariance, PTL

\* The chosen edits follow each other without sharing a line, and no finding is
\* passed over unless a chosen one shares a line with it: the two comparisons
\* with maxLine do what the comment on overlapping findings says
\* (fix.go:112-126).
THEOREM ChoosesDisjoint == Spec => []ChosenDisjoint
<1>1. ASSUME FixInv PROVE ChosenDisjoint
  <2>1. Types /\ ChosenInv
    BY <1>1 DEF FixInv
  <2>2. Ordered(chosen) /\ \A i \in DOMAIN chosen : chosen[i].endLine <= maxLine
    BY <2>1, EndOfIs DEF Types, ChosenInv
  <2>3. ASSUME pc = "choose", NEW i \in Passed
        PROVE  \E j \in DOMAIN chosen : ShareLine(chosen[j], Considered(i))
    <3>1. lines = Original /\ Choice(findings[key], todo, chosen, Original) /\ i \in DOMAIN findings[key] \ todo
      BY <2>1, <2>3 DEF ChosenInv, Passed
    <3>. QED BY <3>1 DEF Choice, Covered, Considered
  <2>. QED BY <2>2, <2>3 DEF ChosenDisjoint, Ordered
<1>. QED BY <1>1, FixInvariance, PTL

\* Slicing panics only over a finding that is beyond the end of the file as it
\* was read: the edits applied before, from the last to the first, never move
\* the lines of those that are left (fix.go:109-110, 130-146).
THEOREM PanicsOnlyBeyondTheEnd == Spec => []ValidSpansNeverPanic
<1>1. ASSUME FixInv PROVE ValidSpansNeverPanic
  BY <1>1 DEF FixInv, PanicInv, ValidSpansNeverPanic, Original
<1>. QED BY <1>1, FixInvariance, PTL

-----------------------------------------------------------------------------
(* What Fix promises                                                       *)

\* No two (root, path) pairs name the same file.
OneNameEach == \A j, k \in Key : FileOf[j] = FileOf[k] => j = k

\* The state that is promised.
PhaseIs    == IF Failed THEN "over" ELSE IF pc = "checks" THEN "checks" ELSE "files"
AllWanted  == [f \in File |-> Wanted(f)]
FixedFiles == {FileOf[k] : k \in Fixed}

\* Wanted, with what the checks emitted as parameters.
WantedOf(calls, done, f) ==
  UNION {{CollectedEdit(calls[c][i]) :
            i \in {j \in 1..done[c] : LET call == calls[c][j] IN
                     Len(call.replacements) = 1 /\ FileOf[call.key] = f}} : c \in Check}

AskedFor(calls, done, f, e) ==
  \E c \in Check : \E i \in 1..done[c] :
     /\ Len(calls[c][i].replacements) = 1 /\ FileOf[calls[c][i].key] = f
     /\ e = CollectedEdit(calls[c][i])

\* Wanted without its nested sets.
LEMMA WantedOfHas ==
  ASSUME NEW calls, NEW done, NEW f, NEW e
  PROVE  e \in WantedOf(calls, done, f) <=> AskedFor(calls, done, f, e)
<1>. DEFINE Good(c) == {j \in 1..done[c] : /\ Len(calls[c][j].replacements) = 1
                                          /\ FileOf[calls[c][j].key] = f}
            Edits(c) == {CollectedEdit(calls[c][i]) : i \in Good(c)}
<1>1. WantedOf(calls, done, f) = UNION {Edits(c) : c \in Check}
  BY DEF WantedOf
<1>2. \A c \in Check : e \in Edits(c) <=> \E i \in Good(c) : e = CollectedEdit(calls[c][i])
  OBVIOUS
<1>3. e \in WantedOf(calls, done, f) <=> \E c \in Check : e \in Edits(c)
  <2>. HIDE DEF Edits
  <2>. QED BY <1>1
<1>4. \A c \in Check : \A i : i \in Good(c) <=> /\ i \in 1..done[c]
                                                /\ Len(calls[c][i].replacements) = 1
                                                /\ FileOf[calls[c][i].key] = f
  OBVIOUS
<1>. HIDE DEF Good, Edits
<1>. QED BY <1>2, <1>3, <1>4, Zenon DEF AskedFor

LEMMA WantedHas ==
  ASSUME NEW f, NEW e
  PROVE  e \in Wanted(f) <=> AskedFor(setup.calls, at, f, e)
<1>1. Wanted(f) = WantedOf(setup.calls, at, f)
  BY DEF Wanted, WantedOf
<1>. QED BY <1>1, WantedOfHas

\* What is wanted in a file is what the collector has for its keys.
LEMMA WantedIs ==
  ASSUME Types, FindingsInv, NEW f
  PROVE  /\ \A e \in Wanted(f) : \E k \in Key : \E i \in DOMAIN findings[k] : FileOf[k] = f /\ e = findings[k][i]
         /\ \A k \in Key : FileOf[k] = f => \A i \in DOMAIN findings[k] : findings[k][i] \in Wanted(f)
         /\ Wanted(f) \subseteq Edit
<1>1. ASSUME NEW e \in Wanted(f)
      PROVE  \E k \in Key : \E i \in DOMAIN findings[k] : FileOf[k] = f /\ e = findings[k][i]
  <2>1. PICK c \in Check : \E i \in 1..at[c] :
              /\ Len(setup.calls[c][i].replacements) = 1
              /\ FileOf[setup.calls[c][i].key] = f
              /\ e = CollectedEdit(setup.calls[c][i])
    BY <1>1, WantedHas DEF AskedFor
  <2>2. PICK i \in 1..at[c] :
              /\ Len(setup.calls[c][i].replacements) = 1
              /\ FileOf[setup.calls[c][i].key] = f
              /\ e = CollectedEdit(setup.calls[c][i])
    BY <2>1
  <2>3. /\ setup.calls[c][i].key \in Key
        /\ \E j \in DOMAIN findings[setup.calls[c][i].key] :
              findings[setup.calls[c][i].key][j] = CollectedEdit(setup.calls[c][i])
    BY <2>2 DEF FindingsInv
  <2>. QED BY <2>2, <2>3
<1>2. ASSUME NEW k \in Key, FileOf[k] = f, NEW i \in DOMAIN findings[k]
      PROVE  findings[k][i] \in Wanted(f)
  <2>1. Given(setup.calls, at, k, findings[k][i])
    BY DEF FindingsInv
  <2>2. AskedFor(setup.calls, at, f, findings[k][i])
    BY <1>2, <2>1 DEF Given, AskedFor
  <2>. QED BY <2>2, WantedHas
<1>3. \A k \in Key : \A i \in DOMAIN findings[k] : findings[k][i] \in Edit
  <2>1. ASSUME NEW k \in Key, NEW i \in DOMAIN findings[k] PROVE findings[k][i] \in Edit
    <3>1. findings[k] \in Seq(Edit)
      BY DEF Types
    <3>2. i \in 1..Len(findings[k])
      BY <3>1, LenProperties
    <3>. QED BY <3>1, <3>2, ElementOfSeq
  <2>. QED BY <2>1
<1>. QED BY <1>1, <1>2, <1>3

LEMMA NothingWanted ==
  ASSUME Types, FindingsInv, Found = {}, NEW f
  PROVE  Wanted(f) = {}
<1>1. ASSUME NEW k \in Key PROVE DOMAIN findings[k] = {}
  <2>1. findings[k] = <<>>
    BY DEF Found
  <2>. QED BY <2>1
<1>. QED BY <1>1, WantedIs

LEMMA AllWantedType ==
  ASSUME Types, FindingsInv
  PROVE  AllWanted \in [File -> SUBSET Edit]
BY WantedIs DEF AllWanted

\* What is delivered for the file that is being fixed, and where it stands.
LEMMA FixingIs ==
  ASSUME FixInv, OneNameEach, pc = "apply", left = 0
  PROVE  /\ FileOf[key] \in File /\ PhaseIs = "files" /\ FileOf[key] \notin FixedFiles
         /\ AllWanted[FileOf[key]] # {}
         /\ Join(lines) \in Results(AllWanted[FileOf[key]], disk[FileOf[key]])
<1>1. /\ Types /\ PhaseInv /\ FindingsInv /\ ChosenInv /\ AllCompleted
      /\ key \in Key /\ key \in Found /\ key \notin keys
  BY DEF FixInv, PhaseInv, Found
<1>. DEFINE fs == findings[key]
            f  == FileOf[key]
<1>2. f \in File /\ disk[f] \in Text /\ fs \in Seq(Edit)
  BY <1>1, OriginalIs
<1>3. PhaseIs = "files"
  BY <1>1 DEF PhaseIs, Failed, AllCompleted
<1>4. f \notin FixedFiles
  BY <1>1 DEF FixedFiles, Fixed, OneNameEach, Found
<1>5. Wanted(f) = {fs[i] : i \in DOMAIN fs}
  <2>. DEFINE W == Wanted(f)
              D == {fs[i] : i \in DOMAIN fs}
  <2>1. ASSUME NEW e \in W PROVE e \in D
    <3>1. PICK k \in Key : \E i \in DOMAIN findings[k] : FileOf[k] = f /\ e = findings[k][i]
      BY <1>1, WantedIs
    <3>2. k = key
      BY <1>1, <3>1 DEF OneNameEach
    <3>. QED BY <3>1, <3>2
  <2>2. ASSUME NEW e \in D PROVE e \in W
    BY <1>1, <2>2, WantedIs
  <2>. HIDE DEF W, D
  <2>3. W = D
    BY <2>1, <2>2
  <2>. QED BY <2>3 DEF W, D
<1>6. AllWanted[f] = Wanted(f)
  BY <1>2 DEF AllWanted
<1>7. Wanted(f) # {}
  <2>1. fs # <<>>
    BY <1>1 DEF Found
  <2>2. DOMAIN fs # {}
    <3>1. Len(fs) \in Nat /\ Len(fs) # 0
      BY <1>2, <2>1, EmptySeq, LenProperties
    <3>2. 1 \in 1..Len(fs)
      BY <3>1
    <3>. QED BY <1>2, <3>2, LenProperties
  <2>. HIDE DEF f
  <2>. QED BY <1>5, <2>2
<1>8. Join(lines) \in Results(Wanted(f), disk[f])
  <2>1. /\ Ordered(chosen) /\ Choice(fs, {}, chosen, Lines(disk[f]))
        /\ AppliedSome(chosen, 0, lines, Lines(disk[f]))
        /\ chosen \in Seq(FullEdit) /\ lines \in Seq(Text)
    BY <1>1 DEF ChosenInv, Original, Types
  <2>2. Wanted(f) = {fs[i] : i \in DOMAIN fs}
    BY <1>5
  <2>. HIDE DEF f, fs
  <2>. QED BY <1>2, <2>1, <2>2, ResultIsPromised
<1>. QED BY <1>2, <1>3, <1>4, <1>6, <1>7, <1>8

\* The promise speaks of text, lines and edits as Fix does.
LEMMA SameWords ==
  /\ Promise!Text = Text
  /\ Promise!Edit = Edit
  /\ \A text : Promise!Prefixes(text) = Prefixes(text)
  /\ \A wanted, text : Promise!Results(wanted, text) = Results(wanted, text)
<1>1. Promise!Text = Text
  BY DEF Promise!Text, Text
<1>2. Promise!Edit = Edit
  BY <1>1 DEF Promise!Edit, Edit
<1>3. \A text : Promise!Prefixes(text) = Prefixes(text)
  BY DEF Promise!Prefixes, Prefixes
<1>4. \A text : Promise!Newlines(text) = Newlines(text)
  BY DEF Promise!Newlines, Newlines
<1>5. \A S : Promise!Cardinality(S) = Cardinality(S)
  BY DEF Promise!Cardinality, Cardinality
<1>6. \A text, k : Promise!LineEnd(text, k) = LineEnd(text, k)
  BY <1>4, <1>5, Zenon DEF Promise!LineEnd, LineEnd
<1>7. \A text : Promise!Lines(text) = Lines(text)
  BY <1>4, <1>6, <1>5 DEF Promise!Lines, Lines
<1>8. \A ls : Promise!Join(ls) = Join(ls)
  BY DEF Promise!Join, Join, Promise!FlattenSeq, FlattenSeq
<1>9. \A e, ls : Promise!EndLine(e, ls) = EndLine(e, ls)
  BY DEF Promise!EndLine, EndLine
<1>10. \A e, ls : Promise!Normalize(e, ls) = Normalize(e, ls) /\ Promise!Normalizable(e, ls) = Normalizable(e, ls)
  BY <1>9 DEF Promise!Normalize, Normalize, Promise!Normalizable, Normalizable
<1>11. \A e, ls : Promise!Fits(e, ls) = Fits(e, ls)
  BY DEF Promise!Fits, Fits
<1>12. \A e, ls : Promise!Before(e, ls) = Before(e, ls) /\ Promise!After(e, ls) = After(e, ls)
  BY DEF Promise!Before, Before, Promise!After, After
<1>13. \A S, ls : Promise!AllAtOnce(S, ls) = AllAtOnce(S, ls)
  BY <1>8, <1>12 DEF Promise!AllAtOnce, AllAtOnce
<1>14. \A S, E : Promise!IsChoice(S, E) = IsChoice(S, E)
  BY DEF Promise!IsChoice, IsChoice, Promise!ShareLine, ShareLine
<1>15. \A wanted, text : Promise!Results(wanted, text) = Results(wanted, text)
  BY <1>7, <1>10, <1>11, <1>13, <1>14 DEF Promise!Results, Results
<1>. QED BY <1>1, <1>2, <1>3, <1>15

\* The initial states are promised.
LEMMA PromiseStarts ==
  ASSUME Init
  PROVE  Promise!Init
<1>1. setup \in Setup
  BY FixAssumption DEF Init
<1>2. setup.toWriter \in BOOLEAN /\ disk \in [File -> Text] /\ printed = <<>> /\ PhaseIs = "checks" /\ Fixed = {}
  BY <1>1, SetupIs DEF Init, PhaseIs, Failed, Fixed
<1>3. AllWanted = [f \in File |-> {}]
  <2>1. ASSUME NEW f \in File PROVE Wanted(f) = {}
    <3>1. ASSUME NEW e \in Wanted(f) PROVE FALSE
      BY <3>1, WantedHas DEF Init, AskedFor
    <3>. QED BY <3>1
  <2>. QED BY <2>1 DEF AllWanted
<1>4. {FileOf[k] : k \in Fixed} = {}
  BY <1>2
<1>. QED BY <1>2, <1>3, <1>4, SameWords DEF Promise!Init, PhaseIs, AllWanted, Init

\* The steps of the promise, in these words.
PromiseIs == <<setup.toWriter, PhaseIs, AllWanted, disk, printed, FixedFiles>>

Ends == PhaseIs' = "over" /\ UNCHANGED <<setup, AllWanted, disk, printed, FixedFiles>>

Collects ==
  /\ PhaseIs # "files" /\ AllWanted' \in [File -> SUBSET Edit]
  /\ \A f \in File : AllWanted[f] \subseteq AllWanted'[f]
  /\ UNCHANGED <<setup, PhaseIs, disk, printed, FixedFiles>>

GoesOn ==
  /\ PhaseIs = "checks" /\ PhaseIs' = "files"
  /\ UNCHANGED <<setup, AllWanted, disk, printed, FixedFiles>>

MayRewrite(f) == PhaseIs = "files" /\ f \notin FixedFiles /\ AllWanted[f] # {}

Rewrites(f) ==
  /\ MayRewrite(f) /\ \E text \in Results(AllWanted[f], disk[f]) : Promise!Deliver(f, text)
  /\ FixedFiles' = FixedFiles \cup {f}
  /\ UNCHANGED <<setup, PhaseIs, AllWanted>>

Damages(f) ==
  /\ MayRewrite(f)
  /\ \E text \in Results(AllWanted[f], disk[f]) : \E part \in Prefixes(text) : Promise!Deliver(f, part)
  /\ PhaseIs' = "over"
  /\ UNCHANGED <<setup, AllWanted, FixedFiles>>

Echoes(f) ==
  /\ PhaseIs = "files" /\ setup.toWriter /\ \A g \in File : AllWanted[g] = {}
  /\ \E text \in Prefixes(disk[f]) : Promise!Deliver(f, text)
  /\ PhaseIs' = "over"
  /\ UNCHANGED <<setup, AllWanted, FixedFiles>>

Promised ==
  \/ Ends \/ Collects \/ GoesOn \/ UNCHANGED PromiseIs
  \/ \E f \in File : Rewrites(f) \/ Damages(f) \/ Echoes(f)

\* Each of these is a step of the promise.
LEMMA PromiseStep ==
  ASSUME Promised
  PROVE  [Promise!Next]_(Promise!vars)
<1>. USE SameWords DEF PhaseIs, AllWanted, FixedFiles
<1>1. CASE Ends
  BY <1>1 DEF Ends, Promise!Next, Promise!End
<1>2. CASE Collects
  BY <1>2 DEF Collects, Promise!Next, Promise!Collect
<1>3. CASE GoesOn
  BY <1>3 DEF GoesOn, Promise!Next, Promise!AllComplete
<1>4. CASE UNCHANGED PromiseIs
  BY <1>4 DEF PromiseIs, Promise!vars
<1>5. ASSUME NEW f \in File, Rewrites(f) PROVE Promise!Next
  BY <1>5 DEF Rewrites, MayRewrite, Promise!Next, Promise!Rewrite
<1>6. ASSUME NEW f \in File, Damages(f) PROVE Promise!Next
  BY <1>6 DEF Damages, MayRewrite, Promise!Next, Promise!Damage
<1>7. ASSUME NEW f \in File, Echoes(f) PROVE Promise!Next
  BY <1>7 DEF Echoes, Promise!Next, Promise!Echo
<1>. QED BY <1>1, <1>2, <1>3, <1>4, <1>5, <1>6, <1>7 DEF Promised

\* What a step does not change in what is promised.
LEMMA WantedStays ==
  ASSUME UNCHANGED <<setup, at>>
  PROVE  AllWanted' = AllWanted
BY DEF AllWanted, Wanted

\* Files stay fixed, and no other is, unless Write says so.
LEMMA FixedStays ==
  ASSUME \/ pc = "checks" /\ pc' = "checks"
         \/ pc = "checks" /\ keys' = Found /\ findings' = findings
         \/ pc = "checks" /\ ~AllCompleted'
         \/ /\ pc # "checks" /\ pc' # "checks" /\ UNCHANGED <<ended, findings>>
            /\ Found \ (keys' \cup {key'}) = Found \ (keys \cup {key})
  PROVE  FixedFiles' = FixedFiles
<1>. USE DEF Fixed, AllCompleted, Found
<1>1. Fixed' = Fixed
  OBVIOUS
<1>. QED BY <1>1 DEF FixedFiles

\* Write adds the file it wrote.
LEMMA WriteFixes ==
  ASSUME PhaseInv, Write
  PROVE  FixedFiles' = FixedFiles \cup {FileOf[key]}
<1>1. pc = "apply" /\ pc' = "files" /\ key' = NoKey /\ UNCHANGED <<ended, findings, keys>>
  BY DEF Write, run
<1>2. key \in Found /\ key \notin keys /\ Found \subseteq Key /\ AllCompleted /\ AllCompleted' /\ Found' = Found
  BY <1>1 DEF PhaseInv, Found, AllCompleted
<1>3. Fixed = Found \ (keys \cup {key}) /\ Fixed' = Found \ (keys \cup {NoKey})
  BY <1>1, <1>2 DEF Fixed
<1>4. Fixed' = Fixed \cup {key}
  BY <1>2, <1>3, FixAssumption
<1>. QED BY <1>4 DEF FixedFiles

\* Every step of Fix is one of them, by action.
LEMMA StepKeepsPromise ==
  ASSUME FixInv, AllWanted' \in [File -> SUBSET Edit], OneNameEach, [Next]_vars
  PROVE  Promised
<1>. USE DEF PromiseIs, Promised
<1>1. Types /\ PhaseInv /\ PrintedInv /\ FindingsInv
  BY DEF FixInv
<1>2. ASSUME NEW c \in Check, Emit(c) PROVE Promised
  <2>1. /\ pc = "checks" /\ UNCHANGED <<setup, ended, pc, disk, printed>>
        /\ at' = [at EXCEPT ![c] = @ + 1]
    BY <1>2 DEF Emit, MayEmit
  <2>2. AllWanted' \in [File -> SUBSET Edit]
    OBVIOUS
  <2>3. \A d \in Check : \A i \in 1..at[d] : i \in 1..at'[d]
    <3>1. at \in [Check -> Nat]
      BY <1>1 DEF Types
    <3>. QED BY <2>1, <3>1
  <2>4. ASSUME NEW f \in File, NEW e \in Wanted(f) PROVE e \in Wanted(f)'
    <3>1. AskedFor(setup.calls, at, f, e)
      BY <2>4, WantedHas
    <3>2. AskedFor(setup'.calls, at', f, e)
      BY <2>1, <2>3, <3>1 DEF AskedFor
    <3>3. Wanted(f)' = WantedOf(setup'.calls, at', f)
      BY DEF Wanted, WantedOf
    <3>. QED BY <3>2, <3>3, WantedOfHas
  <2>5. \A f \in File : AllWanted[f] \subseteq AllWanted'[f]
    BY <2>4 DEF AllWanted
  <2>6. PhaseIs # "files" /\ PhaseIs' = PhaseIs
    BY <2>1 DEF PhaseIs, Failed
  <2>7. FixedFiles' = FixedFiles
    BY <2>1, FixedStays
  <2>. QED BY <2>1, <2>2, <2>5, <2>6, <2>7 DEF Collects
<1>3. ASSUME NEW c \in Check, EmitRefused(c) \/ Fails(c) PROVE Promised
  <2>1. pc = "checks" /\ ended' = [ended EXCEPT ![c] = "failed"] /\ UNCHANGED <<setup, at, pc, disk, printed>>
    BY <1>3 DEF EmitRefused, MayEmit, Fails, CheckEnds
  <2>2. ended'[c] = "failed"
    BY <1>1, <2>1 DEF Types
  <2>. QED BY <2>1, <2>2, WantedStays, FixedStays DEF Ends, PhaseIs, Failed
<1>4. ASSUME NEW c \in Check, Completes(c) PROVE Promised
  <2>1. /\ pc = "checks" /\ ended[c] = "no" /\ ended' = [ended EXCEPT ![c] = "completed"]
        /\ UNCHANGED <<setup, at, pc, disk, printed>>
    BY <1>4 DEF Completes, CheckEnds
  <2>2. PhaseIs' = PhaseIs
    BY <1>1, <2>1 DEF PhaseIs, Failed, Types
  <2>. QED BY <2>1, <2>2, WantedStays, FixedStays
<1>5. CASE RunReturns
  <2>1. pc = "checks" /\ UNCHANGED <<setup, at, ended, findings, disk, printed>>
    BY <1>5 DEF RunReturns, run
  <2>2. CASE AllCompleted
    <3>1. pc' = "files" /\ keys' = Found
      BY <1>5, <2>2 DEF RunReturns
    <3>2. PhaseIs = "checks" /\ PhaseIs' = "files"
      BY <2>1, <2>2, <3>1 DEF PhaseIs, Failed, AllCompleted
    <3>. QED BY <2>1, <3>1, <3>2, WantedStays, FixedStays DEF GoesOn
  <2>3. CASE ~AllCompleted
    <3>1. pc' = "failed" /\ ~AllCompleted'
      BY <1>5, <2>1, <2>3 DEF RunReturns, AllCompleted
    <3>. QED BY <2>1, <3>1, WantedStays, FixedStays DEF Ends, PhaseIs, Failed
  <2>. QED BY <2>2, <2>3
<1>6. ASSUME Finish \/ Panic \/ (\E k \in Key : ReadFails(k)), pc # "checks" PROVE Promised
  <2>1. /\ pc' \in {"done", "failed", "panic"}
        /\ UNCHANGED <<setup, at, ended, findings, keys, key, disk, printed>>
    BY <1>6 DEF Finish, Panic, ReadFails, run
  <2>. QED BY <1>6, <2>1, WantedStays, FixedStays DEF Ends, PhaseIs, Failed
<1>7. ASSUME NEW k \in Key, NextFile(k) PROVE Promised
  <2>1. /\ pc = "files" /\ pc' = "choose" /\ k \in keys /\ keys' = keys \ {k} /\ key' = k /\ key = NoKey
        /\ UNCHANGED <<setup, at, ended, findings, disk, printed>>
    BY <1>1, <1>7 DEF NextFile, IsNext, run, PhaseInv
  <2>2. Found \ (keys' \cup {key'}) = Found \ (keys \cup {key})
    BY <2>1, FixAssumption DEF Found
  <2>3. PhaseIs' = PhaseIs
    BY <2>1 DEF PhaseIs, Failed
  <2>. QED BY <2>1, <2>2, <2>3, WantedStays, FixedStays
<1>8. ASSUME StartApplying \/ Apply \/ \E i \in todo : Choose(i) \/ Skip(i) PROVE Promised
  <2>1. /\ pc \in {"choose", "apply"} /\ pc' \in {"choose", "apply"}
        /\ UNCHANGED <<setup, at, ended, findings, keys, key, disk, printed>>
    BY <1>8 DEF StartApplying, Apply, Choose, Skip, run
  <2>2. PhaseIs' = PhaseIs
    BY <2>1 DEF PhaseIs, Failed
  <2>. QED BY <2>1, <2>2, WantedStays, FixedStays
<1>9. ASSUME NEW text, Deliver(text), UNCHANGED setup PROVE Promise!Deliver(FileOf[key], text)
  BY <1>9 DEF Deliver, Promise!Deliver
<1>10. CASE Write
  <2>1. /\ pc = "apply" /\ left = 0 /\ pc' = "files" /\ key' = NoKey /\ Deliver(Join(lines))
        /\ UNCHANGED <<setup, at, ended, findings, keys>>
    BY <1>10 DEF Write, run
  <2>2. /\ FileOf[key] \in File /\ MayRewrite(FileOf[key])
        /\ Join(lines) \in Results(AllWanted[FileOf[key]], disk[FileOf[key]])
    BY <2>1, FixingIs DEF MayRewrite
  <2>3. FixedFiles' = FixedFiles \cup {FileOf[key]}
    BY <1>1, <1>10, WriteFixes
  <2>4. PhaseIs' = PhaseIs
    BY <2>1 DEF PhaseIs, Failed
  <2>5. Rewrites(FileOf[key])
    BY <1>9, <2>1, <2>2, <2>3, <2>4, WantedStays DEF Rewrites
  <2>. QED BY <2>2, <2>5
<1>11. CASE WriteFails
  <2>1. /\ pc = "apply" /\ left = 0 /\ pc' = "failed"
        /\ UNCHANGED <<setup, at, ended, findings, keys, key>>
        /\ \/ UNCHANGED <<disk, printed>>
           \/ \E part \in Prefixes(Join(lines)) : Deliver(part)
    BY <1>11 DEF WriteFails, run
  <2>2. PhaseIs' = "over" /\ FixedFiles' = FixedFiles /\ AllWanted' = AllWanted
    BY <2>1, WantedStays, FixedStays DEF PhaseIs, Failed
  <2>3. CASE UNCHANGED <<disk, printed>>
    BY <2>1, <2>2, <2>3 DEF Ends
  <2>4. CASE \E part \in Prefixes(Join(lines)) : Deliver(part)
    <3>1. /\ FileOf[key] \in File /\ MayRewrite(FileOf[key])
          /\ Join(lines) \in Results(AllWanted[FileOf[key]], disk[FileOf[key]])
      BY <2>1, FixingIs DEF MayRewrite
    <3>2. Damages(FileOf[key])
      BY <1>9, <2>1, <2>2, <2>4, <3>1 DEF Damages
    <3>. QED BY <3>1, <3>2
  <2>. QED BY <2>1, <2>3, <2>4
<1>12. CASE Echo
  <2>1. PICK f \in setup.asked : printed' = disk[f] \/ printed' \in Prefixes(disk[f])
    BY <1>12 DEF Echo
  <2>2. /\ pc = "files" /\ pc' \in {"done", "failed"} /\ Found = {} /\ setup.toWriter
        /\ UNCHANGED <<setup, at, ended, findings, keys, key, disk>>
    BY <1>12 DEF Echo, EchoesFile, run
  <2>3. f \in File /\ disk[f] \in Text /\ printed = <<>>
    BY <1>1, <2>2, SetupIs DEF Types, PrintedInv
  <2>4. PhaseIs = "files" /\ PhaseIs' = "over" /\ FixedFiles' = FixedFiles /\ AllWanted' = AllWanted
    BY <1>1, <2>2, WantedStays, FixedStays DEF PhaseIs, Failed, PhaseInv, AllCompleted
  <2>5. printed' \in Prefixes(disk[f])
    <3>1. Len(disk[f]) \in 0..Len(disk[f]) /\ disk[f] = SubSeq(disk[f], 1, Len(disk[f]))
      BY <2>3, LenProperties, SubSeqFull DEF Text
    <3>2. disk[f] \in Prefixes(disk[f])
      BY <3>1 DEF Prefixes
    <3>. QED BY <2>1, <3>2
  <2>6. printed \o printed' = printed' /\ printed' \in Text
    BY <2>3, <2>5, PrefixType, ConcatEmptySeq DEF Text
  <2>7. \A g \in File : AllWanted[g] = {}
    BY <1>1, <2>2, NothingWanted DEF AllWanted
  <2>8. Promise!Deliver(f, printed')
    BY <2>2, <2>6 DEF Promise!Deliver
  <2>9. Echoes(f)
    BY <2>2, <2>4, <2>5, <2>7, <2>8 DEF Echoes
  <2>. QED BY <2>3, <2>9
<1>13. CASE UNCHANGED vars
  <2>1. UNCHANGED <<setup, at, ended, findings, pc, keys, key, disk, printed>>
    BY <1>13 DEF vars, run
  <2>2. PhaseIs' = PhaseIs
    BY <2>1 DEF PhaseIs, Failed
  <2>3. FixedFiles' = FixedFiles
    BY <2>1 DEF FixedFiles, Fixed, AllCompleted, Found
  <2>. QED BY <2>1, <2>2, <2>3, WantedStays
<1>14. ASSUME ApplyPanics \/ \E i \in todo : NormalizePanics(i) PROVE Panic /\ pc # "checks"
  BY <1>14 DEF ApplyPanics, NormalizePanics
<1>15. Finish \/ (\E k \in Key : ReadFails(k)) => pc # "checks"
  BY DEF Finish, ReadFails
<1>. QED BY <1>2, <1>3, <1>4, <1>5, <1>6, <1>7, <1>8, <1>10, <1>11, <1>12, <1>13, <1>14, <1>15 DEF Next, Over

\* When no two keys name one file, Fix implements what Rewrite promises: a file
\* is rewritten at most once and only after every check completed, to what a
\* choice among the edits asked for makes of the text the checks saw, or to a
\* part of that if writing fails (fix.go:44-46, 69-75, 109-156).  With two keys
\* for one file the second fix works on what the first wrote, which fix_twice
\* shows.
THEOREM FixKeepsPromise == ASSUME OneNameEach PROVE Spec => KeepsPromise
<1>1. Init => Promise!Init
  BY PromiseStarts
<1>2. FixInv => AllWanted \in [File -> SUBSET Edit]
  BY AllWantedType DEF FixInv
<1>3. FixInv /\ (AllWanted \in [File -> SUBSET Edit])' /\ [Next]_vars => [Promise!Next]_(Promise!vars)
  BY StepKeepsPromise, PromiseStep
<1>. QED BY <1>1, <1>2, <1>3, FixInvariance, PTL DEF Spec, KeepsPromise, Promise!Spec

-----------------------------------------------------------------------------
(* Overlapping findings                                                    *)

\* Until something fails, a file is as it was, or it was fixed and is what the
\* findings make of what it was.
FilesInv ==
  pc # "failed" =>
    \A f \in File : \/ disk[f] = setup.disk[f]
                    \/ f \in FixedFiles /\ disk[f] \in Results(AllWanted[f], setup.disk[f])

LEMMA FilesInductive ==
  ASSUME FixInv, FilesInv, OneNameEach, [Next]_vars
  PROVE  FilesInv'
<1>. USE DEF FilesInv
<1>1. PhaseInv /\ Types
  BY DEF FixInv
<1>2. ASSUME pc # "failed", UNCHANGED <<setup, disk, AllWanted, FixedFiles>> PROVE FilesInv'
  BY <1>2
<1>3. ASSUME pc' = "failed" PROVE FilesInv'
  BY <1>3
<1>4. ASSUME pc = "checks", UNCHANGED <<setup, disk>> PROVE FilesInv'
  <2>1. FixedFiles = {}
    BY <1>4 DEF FixedFiles, Fixed
  <2>. QED BY <1>4, <2>1
<1>5. ASSUME NEW c \in Check, Emit(c) \/ EmitRefused(c) \/ Completes(c) \/ Fails(c) PROVE FilesInv'
  BY <1>4, <1>5 DEF Emit, EmitRefused, MayEmit, Completes, Fails, CheckEnds
<1>6. CASE RunReturns
  BY <1>4, <1>6 DEF RunReturns
<1>7. CASE WriteFails \/ \E k \in Key : ReadFails(k)
  BY <1>3, <1>7 DEF WriteFails, ReadFails
<1>8. ASSUME \/ Echo \/ Finish \/ StartApplying \/ Apply \/ ApplyPanics
             \/ \E i \in todo : Choose(i) \/ Skip(i) \/ NormalizePanics(i)
      PROVE  FilesInv'
  <2>1. /\ pc \in {"files", "choose", "apply"} /\ pc' # "checks"
        /\ UNCHANGED <<setup, at, ended, findings, keys, key, disk>>
    BY <1>8 DEF Echo, Finish, StartApplying, Apply, ApplyPanics, Panic, Choose, Skip, NormalizePanics, run
  <2>. QED BY <1>2, <2>1, WantedStays, FixedStays
<1>9. ASSUME NEW k \in Key, NextFile(k) PROVE FilesInv'
  <2>1. /\ pc = "files" /\ pc' = "choose" /\ k \in keys /\ keys' = keys \ {k} /\ key' = k /\ key = NoKey
        /\ UNCHANGED <<setup, at, ended, findings, disk>>
    BY <1>1, <1>9 DEF NextFile, IsNext, run, PhaseInv
  <2>2. Found \ (keys' \cup {key'}) = Found \ (keys \cup {key})
    BY <2>1, FixAssumption DEF Found
  <2>. QED BY <1>2, <2>1, <2>2, WantedStays, FixedStays
<1>10. CASE Write
  <2>. DEFINE f == FileOf[key]
  <2>1. /\ pc = "apply" /\ left = 0 /\ UNCHANGED <<setup, at, ended>>
        /\ disk' = disk \/ disk' = [disk EXCEPT ![f] = Join(lines)]
    BY <1>10 DEF Write, Deliver, run
  <2>2. /\ f \in File /\ f \notin FixedFiles
        /\ Join(lines) \in Results(AllWanted[f], disk[f])
    BY <2>1, FixingIs
  <2>3. FixedFiles' = FixedFiles \cup {f}
    BY <1>1, <1>10, WriteFixes
  <2>4. AllWanted' = AllWanted
    BY <2>1, WantedStays
  <2>5. disk \in [File -> Text]
    BY <1>1 DEF Types
  <2>. HIDE DEF f
  <2>. QED BY <2>1, <2>2, <2>3, <2>4, <2>5
<1>11. CASE UNCHANGED vars
  <2>1. UNCHANGED <<setup, at, ended, findings, pc, keys, key, disk>>
    BY <1>11 DEF vars, run
  <2>2. FixedFiles' = FixedFiles
    BY <2>1 DEF FixedFiles, Fixed, AllCompleted, Found
  <2>. QED BY <2>1, <2>2, WantedStays
<1>. QED BY <1>5, <1>6, <1>7, <1>8, <1>9, <1>10, <1>11 DEF Next, Over

\* What the comment on overlapping findings says of Fix is true when no two keys
\* name one file: each file is left as it was, or is what edits without a common
\* line make of it.  So two names of one file are all that is behind what
\* fix_twice shows (fix.go:112-121, 213).
THEOREM OneNameNoOverlap == ASSUME OneNameEach PROVE Spec => []NoOverlapFixed
<1>1. Init => FilesInv
  BY DEF Init, FilesInv
<1>2. FixInv /\ FilesInv /\ [Next]_vars => FilesInv'
  BY FilesInductive
<1>3. FilesInv => NoOverlapFixed
  BY DEF FilesInv, NoOverlapFixed, AllWanted
<1>. QED BY <1>1, <1>2, <1>3, FixInvariance, PTL DEF Spec
=============================================================================

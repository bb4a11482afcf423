---------------------------- MODULE EditsProofs ----------------------------
(***************************************************************************)
(* Proofs about Edits and Rendering, for any texts and edits: what Join    *)
(* and Lines do to a text (by induction over its lines), what one edit,    *)
(* and all at once, make of each line, what a terminal shows of a text,    *)
(* and what the edits make of it that a difference is split into.          *)
(***************************************************************************)
EXTENDS Rendering, FiniteSetTheorems, SequenceTheorems, WellFoundedInduction, TLAPS

-----------------------------------------------------------------------------
(* Induction over numbers, stated with a set instead of a predicate        *)

\* A set of numbers that has 0 and with n also n + 1 has all of them.
LEMMA SetInduction ==
  ASSUME NEW S, 0 \in S, \A n \in Nat : n \in S => n + 1 \in S
  PROVE  Nat \subseteq S
<1>. DEFINE T == Nat \ S
            R == OpToRel(<, Nat)
<1>. SUFFICES ASSUME T # {} PROVE FALSE
  OBVIOUS
<1>1. IsWellFoundedOn(R, Nat)
  BY NatLessThanWellFounded
<1>2. T \subseteq Nat
  OBVIOUS
<1>. HIDE DEF R
<1>3. PICK n \in T : \A m \in T : ~(<<m, n>> \in R)
  <2>. HIDE DEF T
  <2>. QED BY <1>1, <1>2, WFMin
<1>4. n - 1 \in T
  <2>1. n \in Nat /\ n \notin S /\ n # 0
    OBVIOUS
  <2>2. n - 1 \in Nat /\ (n - 1) + 1 = n
    BY <2>1
  <2>. QED BY <2>1, <2>2
<1>5. <<n - 1, n>> \in R
  BY <1>4 DEF R, OpToRel
<1>. QED BY <1>3, <1>4, <1>5

-----------------------------------------------------------------------------
(* Join                                                                    *)

\* Two texts together, and none.
Cat(a, b) == a \o b
Nothing   == <<>>

\* Concatenation is associative, and nothing is neutral.
LEMMA CatProperties ==
  /\ Nothing \in Text
  /\ \A a, b \in Text : Cat(a, b) \in Text
  /\ \A a \in Text : Cat(a, Nothing) = a /\ Cat(Nothing, a) = a
  /\ \A a, b, c \in Text : Cat(Cat(a, b), c) = Cat(a, Cat(b, c))
<1>1. Nothing \in Text
  BY EmptySeq DEF Nothing, Text
<1>2. ASSUME NEW a \in Text, NEW b \in Text PROVE Cat(a, b) \in Text
  BY ConcatProperties DEF Cat, Text
<1>3. ASSUME NEW a \in Text PROVE Cat(a, Nothing) = a /\ Cat(Nothing, a) = a
  BY ConcatEmptySeq DEF Cat, Nothing, Text
<1>4. ASSUME NEW a \in Text, NEW b \in Text, NEW c \in Text PROVE Cat(Cat(a, b), c) = Cat(a, Cat(b, c))
  BY ConcatAssociative DEF Cat, Text
<1>. QED BY <1>1, <1>2, <1>3, <1>4

\* What a sequence of texts is made of.
LEMMA LinesAre ==
  ASSUME NEW ls \in Seq(Text)
  PROVE  /\ Len(ls) \in Nat /\ DOMAIN ls = 1..Len(ls)
         /\ \A i \in 1..Len(ls) : ls[i] \in Text
BY LenProperties, ElementOfSeq

\* g holds what the first lines make together.
Joins(g, ls) ==
  /\ g \in [0..Len(ls) -> Text]
  /\ g[0] = Nothing
  /\ \A i \in 1..Len(ls) : g[i] = Cat(g[i - 1], ls[i])

UpTo(f, ls, i) == IF i = 1 THEN ls[i] ELSE Cat(f[i - 1], ls[i])

Flattens(f, ls, n) == f = [i \in 1..n |-> UpTo(f, ls, i)]

\* The recursion of FlattenSeq has a solution.
LEMMA FlattenExists ==
  ASSUME NEW ls, NEW n \in Nat
  PROVE  \E f : Flattens(f, ls, n)
<1>. DEFINE S == {m \in Nat : \E f : Flattens(f, ls, m)}
<1>1. 0 \in S
  <2>. DEFINE f == [i \in 1..0 |-> ls[i]]
  <2>1. f = [i \in 1..0 |-> UpTo(f, ls, i)]
    OBVIOUS
  <2>. QED BY <2>1 DEF Flattens
<1>2. ASSUME NEW m \in Nat, m \in S PROVE m + 1 \in S
  <2>1. PICK f : Flattens(f, ls, m)
    BY <1>2
  <2>. DEFINE g == [i \in 1..m + 1 |-> IF i = m + 1 THEN UpTo(f, ls, i) ELSE f[i]]
  <2>2. ASSUME NEW i \in 1..m + 1 PROVE g[i] = UpTo(f, ls, i)
    <3>1. CASE i = m + 1
      BY <3>1
    <3>2. CASE i # m + 1
      <4>1. i \in 1..m
        BY <3>2
      <4>2. f[i] = UpTo(f, ls, i)
        BY <2>1, <4>1 DEF Flattens
      <4>. QED BY <3>2, <4>2
    <3>. QED BY <3>1, <3>2
  <2>3. ASSUME NEW i \in 1..m + 1 PROVE UpTo(f, ls, i) = UpTo(g, ls, i)
    <3>1. CASE i = 1
      BY <3>1 DEF UpTo
    <3>2. CASE i # 1
      <4>1. i - 1 \in 1..m /\ g[i - 1] = f[i - 1]
        BY <3>2
      <4>. QED BY <3>2, <4>1 DEF UpTo
    <3>. QED BY <3>1, <3>2
  <2>4. g = [i \in 1..m + 1 |-> g[i]]
    OBVIOUS
  <2>. HIDE DEF g
  <2>5. \A i \in 1..m + 1 : g[i] = UpTo(g, ls, i)
    BY <2>2, <2>3
  <2>6. g = [i \in 1..m + 1 |-> UpTo(g, ls, i)]
    BY <2>4, <2>5
  <2>7. Flattens(g, ls, m + 1)
    BY <2>6 DEF Flattens
  <2>. QED BY <2>7
<1>. HIDE DEF S
<1>3. Nat \subseteq S
  BY <1>1, <1>2, SetInduction
<1>. QED BY <1>3 DEF S

\* There are such g, and they end with what Join gives.
LEMMA JoinSteps ==
  ASSUME NEW ls \in Seq(Text)
  PROVE  \E g : Joins(g, ls) /\ Join(ls) = g[Len(ls)]
<1>. DEFINE n == Len(ls)
<1>1. n \in Nat /\ \A i \in 1..n : ls[i] \in Text
  BY LinesAre
<1>2. CASE n = 0
  <2>. DEFINE g == [i \in 0..0 |-> Nothing]
  <2>1. Joins(g, ls)
    BY <1>2, CatProperties DEF Joins
  <2>2. Join(ls) = Nothing
    BY <1>2 DEF Join, FlattenSeq, Nothing
  <2>. QED BY <1>2, <2>1, <2>2
<1>3. CASE n # 0
  <2>. DEFINE f == CHOOSE h : h = [i \in 1..n |-> IF i = 1 THEN ls[i] ELSE h[i - 1] \o ls[i]]
  <2>1. f = [i \in 1..n |-> UpTo(f, ls, i)]
    BY <1>1, FlattenExists DEF Flattens, UpTo, Cat
  <2>2. Join(ls) = f[n]
    BY <1>3 DEF Join, FlattenSeq
  <2>. HIDE DEF f, n
  <2>3. f[1] = ls[1] /\ \A i \in 2..n : f[i] = Cat(f[i - 1], ls[i])
    BY <1>1, <1>3, <2>1 DEF UpTo
  <2>. DEFINE S == {m \in Nat : m + 1 \in 1..n => f[m + 1] \in Text}
  <2>4. 0 \in S
    BY <1>1, <1>3, <2>3
  <2>5. ASSUME NEW m \in Nat, m \in S PROVE m + 1 \in S
    <3>. SUFFICES ASSUME m + 2 \in 1..n PROVE f[m + 2] \in Text
      OBVIOUS
    <3>1. m + 2 \in 2..n /\ (m + 2) - 1 = m + 1 /\ m + 1 \in 1..n
      BY <1>1
    <3>2. f[m + 2] = Cat(f[m + 1], ls[m + 2])
      BY <2>3, <3>1
    <3>3. f[m + 1] \in Text /\ ls[m + 2] \in Text
      BY <1>1, <2>5, <3>1
    <3>. QED BY <3>2, <3>3, CatProperties
  <2>6. ASSUME NEW i \in 1..n PROVE f[i] \in Text
    <3>. HIDE DEF S
    <3>1. Nat \subseteq S
      BY <2>4, <2>5, SetInduction
    <3>2. i - 1 \in S
      BY <1>1, <3>1
    <3>. QED BY <1>1, <3>2 DEF S
  <2>. DEFINE g == [i \in 0..n |-> IF i = 0 THEN Nothing ELSE f[i]]
  <2>7. g \in [0..n -> Text] /\ g[0] = Nothing /\ g[n] = f[n]
    BY <1>1, <1>3, <2>6, CatProperties
  <2>8. ASSUME NEW i \in 1..n PROVE g[i] = Cat(g[i - 1], ls[i])
    <3>1. CASE i = 1
      <4>1. g[1] = ls[1] /\ g[0] = Nothing /\ ls[1] \in Text
        BY <1>1, <1>3, <2>3
      <4>. QED BY <3>1, <4>1, CatProperties
    <3>2. CASE i # 1
      <4>1. i \in 2..n /\ g[i] = f[i] /\ g[i - 1] = f[i - 1]
        BY <3>2, <1>1
      <4>. QED BY <2>3, <4>1
    <3>. QED BY <3>1, <3>2
  <2>. HIDE DEF g
  <2>9. Joins(g, ls)
    BY <2>7, <2>8 DEF Joins, n
  <2>. QED BY <2>2, <2>7, <2>9 DEF n
<1>. QED BY <1>2, <1>3

\* Join is the last of what any such g makes of the lines.
LEMMA JoinIs ==
  ASSUME NEW ls \in Seq(Text), NEW g, Joins(g, ls)
  PROVE  Join(ls) = g[Len(ls)]
<1>1. PICK h : Joins(h, ls) /\ Join(ls) = h[Len(ls)]
  BY JoinSteps
<1>2. Len(ls) \in Nat
  BY LenProperties
<1>. DEFINE S == {m \in Nat : m <= Len(ls) => g[m] = h[m]}
<1>3. 0 \in S
  BY <1>1 DEF Joins
<1>4. ASSUME NEW m \in Nat, m \in S PROVE m + 1 \in S
  <2>. SUFFICES ASSUME m + 1 <= Len(ls) PROVE g[m + 1] = h[m + 1]
    OBVIOUS
  <2>1. m + 1 \in 1..Len(ls) /\ (m + 1) - 1 = m /\ g[m] = h[m]
    BY <1>2, <1>4
  <2>2. g[m + 1] = Cat(g[m], ls[m + 1]) /\ h[m + 1] = Cat(h[m], ls[m + 1])
    BY <1>1, <2>1 DEF Joins
  <2>. QED BY <2>1, <2>2
<1>. HIDE DEF S
<1>5. Nat \subseteq S
  BY <1>3, <1>4, SetInduction
<1>. QED BY <1>1, <1>2, <1>5 DEF S

LEMMA JoinType ==
  ASSUME NEW ls \in Seq(Text)
  PROVE  Join(ls) \in Text
<1>1. PICK g : Joins(g, ls) /\ Join(ls) = g[Len(ls)]
  BY JoinSteps
<1>. QED BY <1>1, LinesAre DEF Joins

\* Joining two sequences of lines one after the other.
LEMMA JoinConcat ==
  ASSUME NEW a \in Seq(Text), NEW b \in Seq(Text)
  PROVE  a \o b \in Seq(Text) /\ Join(a \o b) = Cat(Join(a), Join(b))
<1>1. PICK f : Joins(f, a) /\ Join(a) = f[Len(a)]
  BY JoinSteps
<1>2. PICK g : Joins(g, b) /\ Join(b) = g[Len(b)]
  BY JoinSteps
<1>. DEFINE n == Len(a)
            m == Len(b)
            c == a \o b
            h == [i \in 0..n + m |-> IF i <= n THEN f[i] ELSE Cat(f[n], g[i - n])]
<1>3. n \in Nat /\ m \in Nat /\ (\A i \in 1..n : a[i] \in Text) /\ (\A i \in 1..m : b[i] \in Text)
  BY LinesAre
<1>4. /\ c \in Seq(Text) /\ Len(c) = n + m
      /\ \A i \in 1..n + m : c[i] = IF i <= n THEN a[i] ELSE b[i - n]
  BY ConcatProperties
<1>5. /\ f \in [0..n -> Text] /\ f[0] = Nothing /\ \A i \in 1..n : f[i] = Cat(f[i - 1], a[i])
      /\ g \in [0..m -> Text] /\ g[0] = Nothing /\ \A i \in 1..m : g[i] = Cat(g[i - 1], b[i])
  BY <1>1, <1>2 DEF Joins
<1>. HIDE DEF n, m, c
<1>6. f[n] \in Text /\ Cat(f[n], g[0]) = f[n]
  BY <1>3, <1>5, CatProperties
<1>7. ASSUME NEW i \in 0..n + m PROVE h[i] \in Text
  <2>1. CASE i <= n
    BY <2>1, <1>3, <1>5
  <2>2. CASE i > n
    <3>1. i - n \in 0..m /\ h[i] = Cat(f[n], g[i - n])
      BY <2>2, <1>3
    <3>. QED BY <3>1, <1>5, <1>6, CatProperties
  <2>. QED BY <2>1, <2>2, <1>3
<1>8. ASSUME NEW i \in 1..n + m PROVE h[i] = Cat(h[i - 1], c[i])
  <2>1. CASE i <= n
    <3>1. h[i] = f[i] /\ h[i - 1] = f[i - 1] /\ c[i] = a[i] /\ i \in 1..n
      BY <2>1, <1>3, <1>4
    <3>. QED BY <3>1, <1>5
  <2>2. CASE i > n
    <3>1. PICK j \in 1..m : i = n + j
      <4>1. i - n \in 1..m /\ i = n + (i - n)
        BY <2>2, <1>3
      <4>. QED BY <4>1
    <3>2. j - 1 \in 0..m /\ i - n = j /\ (i - 1) - n = j - 1
      BY <3>1, <1>3
    <3>3. c[i] = b[j] /\ h[i] = Cat(f[n], g[j])
      BY <2>2, <3>2, <1>3, <1>4
    <3>4. h[i - 1] = Cat(f[n], g[j - 1])
      <4>1. CASE j = 1
        BY <3>1, <4>1, <1>3, <1>6
      <4>2. CASE j # 1
        <5>1. ~(i - 1 <= n) /\ i - 1 \in 0..n + m
          BY <3>1, <4>2, <1>3
        <5>. QED BY <3>2, <5>1
      <4>. QED BY <4>1, <4>2
    <3>5. g[j] = Cat(g[j - 1], b[j]) /\ g[j - 1] \in Text /\ b[j] \in Text
      BY <3>2, <1>3, <1>5
    <3>6. Cat(Cat(f[n], g[j - 1]), b[j]) = Cat(f[n], Cat(g[j - 1], b[j]))
      BY <3>5, <1>6, CatProperties
    <3>. QED BY <3>3, <3>4, <3>5, <3>6
  <2>. QED BY <2>1, <2>2, <1>3
<1>9. h \in [0..n + m -> Text] /\ h[0] = Nothing
  BY <1>3, <1>5, <1>7
<1>10. h[n + m] = Cat(f[n], g[m])
  <2>1. CASE m = 0
    BY <2>1, <1>3, <1>6
  <2>2. CASE m # 0
    <3>1. n + m \in 0..n + m /\ ~(n + m <= n) /\ (n + m) - n = m
      BY <2>2, <1>3
    <3>. QED BY <3>1
  <2>. QED BY <2>1, <2>2
<1>. HIDE DEF h
<1>11. Joins(h, c)
  BY <1>4, <1>8, <1>9 DEF Joins
<1>12. Join(c) = h[n + m]
  BY <1>4, <1>11, JoinIs
<1>. QED BY <1>1, <1>2, <1>4, <1>10, <1>12 DEF c, n, m

LEMMA JoinEmpty ==
  ASSUME NEW ls \in Seq(Text), \A i \in 1..Len(ls) : ls[i] = Nothing
  PROVE  Join(ls) = Nothing
<1>. DEFINE g == [i \in 0..Len(ls) |-> Nothing]
<1>1. Len(ls) \in Nat
  BY LinesAre
<1>2. g \in [0..Len(ls) -> Text] /\ g[0] = Nothing
  BY <1>1, CatProperties
<1>3. ASSUME NEW i \in 1..Len(ls) PROVE g[i] = Cat(g[i - 1], ls[i])
  <2>1. g[i] = Nothing /\ g[i - 1] = Nothing /\ ls[i] = Nothing
    BY <1>1
  <2>. QED BY <2>1, CatProperties
<1>4. g[Len(ls)] = Nothing
  BY <1>1
<1>. HIDE DEF g
<1>5. Joins(g, ls)
  BY <1>2, <1>3 DEF Joins
<1>. QED BY <1>4, <1>5, JoinIs

LEMMA JoinOne ==
  ASSUME NEW text \in Text
  PROVE  <<text>> \in Seq(Text) /\ Join(<<text>>) = text
<1>. DEFINE one == <<text>>
            g   == [i \in 0..1 |-> IF i = 0 THEN Nothing ELSE text]
<1>1. one \in Seq(Text) /\ Len(one) = 1 /\ one[1] = text
  OBVIOUS
<1>. HIDE DEF one
<1>2. Joins(g, one)
  BY <1>1, CatProperties DEF Joins
<1>3. Join(one) = g[1]
  BY <1>1, <1>2, JoinIs
<1>. QED BY <1>1, <1>3 DEF one

LEMMA JoinFirst ==
  ASSUME NEW ls \in Seq(Text), Len(ls) > 0, NEW text \in Text
  PROVE  /\ [ls EXCEPT ![1] = Cat(text, @)] \in Seq(Text)
         /\ Len([ls EXCEPT ![1] = Cat(text, @)]) = Len(ls)
         /\ Join([ls EXCEPT ![1] = Cat(text, @)]) = Cat(text, Join(ls))
<1>. DEFINE n   == Len(ls)
            new == [ls EXCEPT ![1] = Cat(text, ls[1])]
<1>1. n \in Nat /\ n > 0 /\ text \in Text /\ \A i \in 1..n : ls[i] \in Text
  BY LinesAre
<1>2. Cat(text, ls[1]) \in Text
  <2>1. ls[1] \in Text /\ text \in Text
    BY <1>1
  <2>. QED BY <2>1, CatProperties
<1>3. /\ new \in Seq(Text) /\ Len(new) = n
      /\ \A i \in 1..n : new[i] = IF i = 1 THEN Cat(text, ls[1]) ELSE ls[i]
  BY <1>1, <1>2, ExceptSeq
<1>4. PICK g : Joins(g, ls) /\ Join(ls) = g[n]
  BY JoinSteps
<1>5. g \in [0..n -> Text] /\ g[0] = Nothing /\ \A i \in 1..n : g[i] = Cat(g[i - 1], ls[i])
  BY <1>4 DEF Joins
<1>. HIDE DEF n, new
<1>. DEFINE h == [i \in 0..n |-> IF i = 0 THEN Nothing ELSE Cat(text, g[i])]
<1>6. h \in [0..n -> Text] /\ h[0] = Nothing /\ h[n] = Cat(text, g[n])
  <2>1. ASSUME NEW i \in 0..n PROVE Cat(text, g[i]) \in Text
    <3>1. text \in Text /\ g[i] \in Text
      BY <1>1, <1>5
    <3>. QED BY <3>1, CatProperties
  <2>2. Nothing \in Text
    BY CatProperties
  <2>3. ASSUME NEW i \in 0..n PROVE h[i] \in Text
    BY <2>1, <2>2
  <2>4. h[0] = Nothing /\ h[n] = Cat(text, g[n])
    BY <1>1
  <2>5. h \in [0..n -> Text]
    BY <2>3
  <2>. QED BY <2>4, <2>5
<1>7. ASSUME NEW i \in 1..n PROVE h[i] = Cat(h[i - 1], new[i])
  <2>1. CASE i = 1
    <3>1. h[1] = Cat(text, g[1]) /\ g[1] = Cat(Nothing, ls[1]) /\ h[0] = Nothing
      BY <2>1, <1>1, <1>5
    <3>2. new[1] = Cat(text, ls[1])
      BY <1>1, <1>3
    <3>3. Cat(Nothing, ls[1]) = ls[1] /\ Cat(Nothing, Cat(text, ls[1])) = Cat(text, ls[1])
      <4>1. ls[1] \in Text
        BY <1>1
      <4>. QED BY <4>1, <1>2, CatProperties
    <3>. QED BY <2>1, <3>1, <3>2, <3>3
  <2>2. CASE i # 1
    <3>1. i - 1 \in 0..n /\ i - 1 # 0 /\ new[i] = ls[i]
      BY <2>2, <1>1, <1>3
    <3>2. h[i] = Cat(text, Cat(g[i - 1], ls[i])) /\ h[i - 1] = Cat(text, g[i - 1])
      BY <2>2, <3>1, <1>1, <1>5
    <3>3. Cat(Cat(text, g[i - 1]), ls[i]) = Cat(text, Cat(g[i - 1], ls[i]))
      <4>1. text \in Text /\ g[i - 1] \in Text /\ ls[i] \in Text
        BY <3>1, <1>1, <1>5
      <4>. QED BY <4>1, CatProperties
    <3>. QED BY <3>1, <3>2, <3>3
  <2>. QED BY <2>1, <2>2
<1>. HIDE DEF h
<1>8. Joins(h, new)
  BY <1>3, <1>6, <1>7 DEF Joins
<1>9. Join(new) = h[n]
  BY <1>3, <1>8, JoinIs
<1>. QED BY <1>3, <1>4, <1>6, <1>9 DEF new, n

LEMMA JoinLast ==
  ASSUME NEW ls \in Seq(Text), NEW n, n = Len(ls), n > 0, NEW text \in Text
  PROVE  /\ [ls EXCEPT ![n] = Cat(@, text)] \in Seq(Text)
         /\ Len([ls EXCEPT ![n] = Cat(@, text)]) = n
         /\ Join([ls EXCEPT ![n] = Cat(@, text)]) = Cat(Join(ls), text)
<1>. DEFINE new == [ls EXCEPT ![n] = Cat(ls[n], text)]
<1>1. n \in Nat /\ n > 0 /\ text \in Text /\ \A i \in 1..n : ls[i] \in Text
  BY LinesAre
<1>2. Cat(ls[n], text) \in Text
  <2>1. ls[n] \in Text /\ text \in Text
    BY <1>1
  <2>. QED BY <2>1, CatProperties
<1>3. /\ new \in Seq(Text) /\ Len(new) = n
      /\ \A i \in 1..n : new[i] = IF i = n THEN Cat(ls[n], text) ELSE ls[i]
  BY <1>1, <1>2, ExceptSeq
<1>4. PICK g : Joins(g, ls) /\ Join(ls) = g[n]
  BY JoinSteps
<1>5. g \in [0..n -> Text] /\ g[0] = Nothing /\ \A i \in 1..n : g[i] = Cat(g[i - 1], ls[i])
  BY <1>4 DEF Joins
<1>. HIDE DEF new
<1>. DEFINE h == [i \in 0..n |-> IF i = n THEN Cat(g[n], text) ELSE g[i]]
<1>6. h \in [0..n -> Text] /\ h[0] = Nothing /\ h[n] = Cat(g[n], text)
  BY <1>1, <1>5, CatProperties
<1>7. ASSUME NEW i \in 1..n PROVE h[i] = Cat(h[i - 1], new[i])
  <2>1. i - 1 \in 0..n /\ h[i - 1] = g[i - 1] /\ g[i - 1] \in Text
    BY <1>1, <1>5
  <2>2. CASE i = n
    <3>1. n \in 1..n /\ h[n] = Cat(g[n], text)
      BY <1>1
    <3>2. g[n] = Cat(g[n - 1], ls[n])
      BY <3>1, <1>5
    <3>3. new[n] = Cat(ls[n], text)
      BY <3>1, <1>3
    <3>4. Cat(Cat(g[n - 1], ls[n]), text) = Cat(g[n - 1], Cat(ls[n], text))
      BY <2>1, <2>2, <1>1, CatProperties
    <3>. QED BY <2>1, <2>2, <3>1, <3>2, <3>3, <3>4
  <2>3. CASE i # n
    <3>1. h[i] = g[i] /\ new[i] = ls[i]
      BY <2>3, <1>1, <1>3
    <3>. QED BY <2>1, <3>1, <1>5
  <2>. QED BY <2>2, <2>3
<1>. HIDE DEF h
<1>8. Joins(h, new)
  BY <1>3, <1>6, <1>7 DEF Joins
<1>9. Join(new) = h[n]
  BY <1>3, <1>8, JoinIs
<1>. QED BY <1>3, <1>4, <1>6, <1>9 DEF new

-----------------------------------------------------------------------------
(* Lines                                                                   *)

NewlinesBefore(text, i) == {j \in Newlines(text) : j < i}
UpToLine(text, k) == {i \in DOMAIN text : Cardinality(NewlinesBefore(text, i)) < k}

\* Where lines end: nowhere before the first, in order, and the last at the end.
LEMMA LineEnds ==
  ASSUME NEW text \in Text
  PROVE  LET n == Cardinality(Newlines(text)) IN
         /\ n \in Nat
         /\ \A k \in 0..n + 1 : LineEnd(text, k) \in 0..Len(text)
         /\ \A k \in 1..n + 1 : LineEnd(text, k - 1) <= LineEnd(text, k)
         /\ LineEnd(text, 0) = 0
         /\ LineEnd(text, n + 1) = Len(text)
<1>. DEFINE n == Cardinality(Newlines(text))
            m == Len(text)
<1>1. m \in Nat /\ DOMAIN text = 1..m
  BY LenProperties DEF Text
<1>2. IsFiniteSet(1..m) /\ Cardinality(1..m) = m
  <2>1. IsFiniteSet(1..m) /\ Cardinality(1..m) = IF 1 > m THEN 0 ELSE m - 1 + 1
    BY <1>1, FS_Interval
  <2>. QED BY <2>1, <1>1
<1>3. Newlines(text) \subseteq 1..m
  BY <1>1 DEF Newlines
<1>4. IsFiniteSet(Newlines(text)) /\ n \in Nat
  BY <1>2, <1>3, FS_Subset, FS_CardinalityType
<1>5. ASSUME NEW i PROVE Cardinality(NewlinesBefore(text, i)) \in Nat /\ Cardinality(NewlinesBefore(text, i)) <= n
  <2>1. NewlinesBefore(text, i) \subseteq Newlines(text)
    BY DEF NewlinesBefore
  <2>. QED BY <2>1, <1>4, FS_Subset, FS_CardinalityType
<1>6. ASSUME NEW k PROVE LineEnd(text, k) = Cardinality(UpToLine(text, k))
  BY DEF LineEnd, UpToLine, NewlinesBefore
<1>7. ASSUME NEW k PROVE /\ UpToLine(text, k) \subseteq 1..m /\ IsFiniteSet(UpToLine(text, k))
                         /\ Cardinality(UpToLine(text, k)) \in 0..m
  <2>1. UpToLine(text, k) \subseteq 1..m
    BY <1>1 DEF UpToLine
  <2>2. /\ IsFiniteSet(UpToLine(text, k)) /\ Cardinality(UpToLine(text, k)) \in Nat
        /\ Cardinality(UpToLine(text, k)) <= m
    BY <2>1, <1>2, FS_Subset, FS_CardinalityType
  <2>. QED BY <2>1, <2>2, <1>1
<1>8. ASSUME NEW k \in 1..n + 1 PROVE LineEnd(text, k - 1) <= LineEnd(text, k)
  <2>1. UpToLine(text, k - 1) \subseteq UpToLine(text, k)
    <3>1. ASSUME NEW c \in Nat, c < k - 1 PROVE c < k
      BY <3>1, <1>4
    <3>. QED BY <3>1, <1>5 DEF UpToLine
  <2>. QED BY <2>1, <1>6, <1>7, FS_Subset
<1>9. LineEnd(text, 0) = 0
  <2>1. UpToLine(text, 0) = {}
    <3>1. ASSUME NEW c \in Nat PROVE ~(c < 0)
      OBVIOUS
    <3>. QED BY <3>1, <1>5 DEF UpToLine
  <2>. QED BY <2>1, <1>6, FS_EmptySet
<1>10. LineEnd(text, n + 1) = m
  <2>1. UpToLine(text, n + 1) = 1..m
    <3>1. ASSUME NEW c \in Nat, c <= n PROVE c < n + 1
      BY <3>1, <1>4
    <3>. QED BY <3>1, <1>1, <1>5 DEF UpToLine
  <2>. QED BY <2>1, <1>2, <1>6
<1>. HIDE DEF n, m
<1>11. \A k \in 0..n + 1 : LineEnd(text, k) \in 0..m
  BY <1>6, <1>7
<1>. QED BY <1>4, <1>8, <1>9, <1>10, <1>11 DEF n, m

\* The lines that strings.SplitAfter gives make the text again: a file whose
\* lines are left alone is written as it was read (fix.go:96, 149-153).
THEOREM LinesProperties ==
  ASSUME NEW text \in Text
  PROVE  Lines(text) \in Seq(Text) /\ Len(Lines(text)) > 0 /\ Join(Lines(text)) = text
<1>. DEFINE n == Cardinality(Newlines(text))
            Part(k) == SubSeq(text, LineEnd(text, k - 1) + 1, LineEnd(text, k))
            ls == Lines(text)
<1>1. /\ n \in Nat
      /\ \A k \in 0..n + 1 : LineEnd(text, k) \in 0..Len(text)
      /\ \A k \in 1..n + 1 : LineEnd(text, k - 1) <= LineEnd(text, k)
      /\ LineEnd(text, 0) = 0
      /\ LineEnd(text, n + 1) = Len(text)
  BY LineEnds
<1>. HIDE DEF n
<1>2. Len(text) \in Nat /\ \A i \in 1..Len(text) : text[i] \in Char
  BY LenProperties, ElementOfSeq DEF Text
<1>3. ASSUME NEW k \in 1..n + 1 PROVE Part(k) \in Text
  <2>1. k - 1 \in 0..n + 1 /\ k \in 0..n + 1
    BY <1>1
  <2>2. LineEnd(text, k - 1) \in 0..Len(text) /\ LineEnd(text, k) \in 0..Len(text)
    BY <1>1, <2>1
  <2>3. \A i \in LineEnd(text, k - 1) + 1..LineEnd(text, k) : text[i] \in Char
    BY <2>2, <1>2
  <2>. QED BY <2>2, <2>3, <1>2, SubSeqProperties DEF Text
<1>4. ls = [k \in 1..n + 1 |-> Part(k)]
  BY DEF Lines, n
<1>. HIDE DEF Part, ls
<1>5. ls \in [1..n + 1 -> Text] /\ n + 1 \in Nat
  BY <1>1, <1>3, <1>4
<1>6. ls \in Seq(Text) /\ Len(ls) = n + 1
  BY <1>5
<1>. DEFINE g == [k \in 0..n + 1 |-> SubSeq(text, 1, LineEnd(text, k))]
<1>7. ASSUME NEW k \in 0..n + 1 PROVE g[k] \in Text
  <2>1. LineEnd(text, k) \in 0..Len(text) /\ \A i \in 1..LineEnd(text, k) : text[i] \in Char
    BY <1>1, <1>2
  <2>2. SubSeq(text, 1, LineEnd(text, k)) \in Text
    BY <2>1, <1>2, SubSeqProperties DEF Text
  <2>. QED BY <2>2
<1>8. g[0] = Nothing
  BY <1>1, SubSeqEmpty DEF Nothing
<1>9. g[n + 1] = text
  BY <1>1, SubSeqFull DEF Text
<1>10. ASSUME NEW k \in 1..n + 1 PROVE g[k] = Cat(g[k - 1], ls[k])
  <2>1. k - 1 \in 0..n + 1 /\ k \in 0..n + 1
    BY <1>1
  <2>2. /\ LineEnd(text, k - 1) \in 0..Len(text) /\ LineEnd(text, k) \in 0..Len(text)
        /\ LineEnd(text, k - 1) <= LineEnd(text, k)
    BY <1>1, <2>1
  <2>3. SubSeq(text, 1, LineEnd(text, k - 1)) \o Part(k) = SubSeq(text, 1, LineEnd(text, k))
    <3>. DEFINE a == LineEnd(text, k - 1)
                b == LineEnd(text, k)
    <3>1. a \in 0..Len(text) /\ b \in a..Len(text) /\ 1 \in 1..Len(text) + 1
      BY <2>2, <1>2
    <3>2. text \in Seq(Char)
      BY DEF Text
    <3>. HIDE DEF a, b
    <3>3. SubSeq(text, 1, a) \o SubSeq(text, a + 1, b) = SubSeq(text, 1, b)
      BY <3>1, <3>2, ConcatAdjacentSubSeq
    <3>. QED BY <3>3 DEF Part, a, b
  <2>4. g[k] = SubSeq(text, 1, LineEnd(text, k)) /\ g[k - 1] = SubSeq(text, 1, LineEnd(text, k - 1))
    BY <2>1
  <2>5. ls[k] = Part(k)
    BY <1>4
  <2>. QED BY <2>3, <2>4, <2>5 DEF Cat
<1>11. g \in [0..n + 1 -> Text]
  BY <1>7
<1>. HIDE DEF g
<1>12. Joins(g, ls)
  BY <1>6, <1>8, <1>10, <1>11 DEF Joins
<1>13. Join(ls) = text
  BY <1>6, <1>9, <1>12, JoinIs
<1>. QED BY <1>1, <1>6, <1>13 DEF ls

-----------------------------------------------------------------------------
(* Replace, and what AllAtOnce makes of each line                          *)

\* Edits that can be applied at once.
GoodEdits(S, ls) ==
  /\ \A d \in S : d \in FullEdit /\ Fits(d, ls) /\ d.line <= d.endLine
  /\ \A d, e \in S : d # e => ~ShareLine(d, e)

\* The text around an edit and its own.
NewText(e, ls) == Cat(Cat(Before(e, ls), e.text), After(e, ls))

PieceOf(S, ls, k) ==
  IF \E e \in S : e.line = k
  THEN LET e == CHOOSE d \in S : d.line = k IN Before(e, ls) \o e.text \o After(e, ls)
  ELSE IF \E e \in S : e.line < k /\ k <= e.endLine THEN <<>> ELSE ls[k]

AtOnce(S, ls) == [k \in DOMAIN ls |-> PieceOf(S, ls, k)]

\* What all edits at once make of a text, line by line.
LEMMA AllAtOnceJoins ==
  ASSUME NEW S, NEW ls
  PROVE  AllAtOnce(S, ls) = Join(AtOnce(S, ls))
BY DEF AllAtOnce, AtOnce, PieceOf

LEMMA EditIs ==
  ASSUME NEW e \in FullEdit
  PROVE  /\ e.line \in Nat /\ e.line > 0 /\ e.endLine \in Nat /\ e.endLine > 0
         /\ e.col \in Nat /\ e.col > 0 /\ e.endCol \in Nat /\ e.endCol > 0
         /\ e.text \in Text
BY DEF FullEdit, Positive

LEMMA NewTextType ==
  ASSUME NEW ls \in Seq(Text), NEW e \in FullEdit, Fits(e, ls)
  PROVE  Before(e, ls) \in Text /\ After(e, ls) \in Text /\ NewText(e, ls) \in Text
<1>1. /\ e.line \in 1..Len(ls) /\ e.endLine \in 1..Len(ls)
      /\ e.col - 1 <= Len(ls[e.line]) /\ e.endCol - 1 <= Len(ls[e.endLine])
  BY LinesAre DEF Fits
<1>2. ls[e.line] \in Seq(Char) /\ ls[e.endLine] \in Seq(Char)
  BY <1>1, LinesAre DEF Text
<1>3. e.col \in Nat /\ e.col > 0 /\ e.endCol \in Nat /\ e.endCol > 0 /\ e.text \in Text
  BY EditIs
<1>4. Before(e, ls) \in Text
  <2>. DEFINE s == ls[e.line]
  <2>1. s \in Seq(Char) /\ Len(s) \in Nat /\ e.col - 1 <= Len(s)
    BY <1>1, <1>2, LenProperties
  <2>. HIDE DEF s
  <2>2. \A i \in 1..e.col - 1 : s[i] \in Char
    BY <1>3, <2>1, ElementOfSeq
  <2>3. SubSeq(s, 1, e.col - 1) \in Seq(Char)
    BY <1>3, <2>2, SubSeqProperties
  <2>. QED BY <2>3 DEF Before, Text, s
<1>5. After(e, ls) \in Text
  <2>. DEFINE s == ls[e.endLine]
  <2>1. s \in Seq(Char) /\ Len(s) \in Nat
    BY <1>2, LenProperties
  <2>. HIDE DEF s
  <2>2. \A i \in e.endCol..Len(s) : s[i] \in Char
    BY <1>3, <2>1, ElementOfSeq
  <2>3. SubSeq(s, e.endCol, Len(s)) \in Seq(Char)
    BY <1>3, <2>1, <2>2, SubSeqProperties
  <2>. QED BY <2>3 DEF After, Text, s
<1>6. NewText(e, ls) \in Text
  <2>1. Cat(Before(e, ls), e.text) \in Text
    BY <1>3, <1>4, CatProperties
  <2>. QED BY <2>1, <1>5, CatProperties DEF NewText
<1>. QED BY <1>4, <1>5, <1>6

LEMMA PieceStarts ==
  ASSUME NEW S, NEW ls, NEW e \in S, \A d \in S : d.line = e.line => d = e
  PROVE  PieceOf(S, ls, e.line) = NewText(e, ls)
<1>1. (CHOOSE d \in S : d.line = e.line) = e
  OBVIOUS
<1>. QED BY <1>1 DEF PieceOf, NewText, Cat

LEMMA PieceCovered ==
  ASSUME NEW S, NEW ls, NEW k, \A d \in S : d.line # k, NEW e \in S, e.line < k, k <= e.endLine
  PROVE  PieceOf(S, ls, k) = Nothing
BY DEF PieceOf, Nothing

LEMMA PieceKept ==
  ASSUME NEW S, NEW ls, NEW k, \A d \in S : d.line # k /\ ~(d.line < k /\ k <= d.endLine)
  PROVE  PieceOf(S, ls, k) = ls[k]
BY DEF PieceOf

\* Edits that share no line do not start at the same one.
LEMMA NoCommonStart ==
  ASSUME NEW S, NEW ls, GoodEdits(S, ls), NEW d \in S, NEW e \in S, d.line = e.line
  PROVE  d = e
<1>1. d \in FullEdit /\ e \in FullEdit /\ d.line <= d.endLine /\ e.line <= e.endLine
  BY DEF GoodEdits
<1>2. ShareLine(d, e)
  BY <1>1, EditIs DEF ShareLine
<1>. QED BY <1>2 DEF GoodEdits

LEMMA AtOnceType ==
  ASSUME NEW ls \in Seq(Text), NEW S, GoodEdits(S, ls)
  PROVE  AtOnce(S, ls) \in Seq(Text) /\ Len(AtOnce(S, ls)) = Len(ls)
<1>1. Len(ls) \in Nat /\ DOMAIN ls = 1..Len(ls) /\ \A k \in 1..Len(ls) : ls[k] \in Text
  BY LinesAre
<1>2. ASSUME NEW k \in 1..Len(ls) PROVE PieceOf(S, ls, k) \in Text
  <2>1. CASE \E e \in S : e.line = k
    <3>1. PICK e \in S : e.line = k
      BY <2>1
    <3>2. \A d \in S : d.line = e.line => d = e
      BY NoCommonStart
    <3>3. PieceOf(S, ls, k) = NewText(e, ls)
      BY <3>1, <3>2, PieceStarts
    <3>4. e \in FullEdit /\ Fits(e, ls)
      BY DEF GoodEdits
    <3>. QED BY <3>3, <3>4, NewTextType
  <2>2. CASE ~(\E e \in S : e.line = k) /\ \E e \in S : e.line < k /\ k <= e.endLine
    <3>1. PICK e \in S : e.line < k /\ k <= e.endLine
      BY <2>2
    <3>2. PieceOf(S, ls, k) = Nothing
      BY <2>2, <3>1, PieceCovered
    <3>. QED BY <3>2, CatProperties
  <2>3. CASE \A d \in S : d.line # k /\ ~(d.line < k /\ k <= d.endLine)
    BY <2>3, <1>1, PieceKept
  <2>. QED BY <2>1, <2>2, <2>3
<1>3. AtOnce(S, ls) = [k \in 1..Len(ls) |-> PieceOf(S, ls, k)]
  BY <1>1 DEF AtOnce
<1>. DEFINE f == AtOnce(S, ls)
            n == Len(ls)
<1>. HIDE DEF f, n
<1>4. f \in [1..n -> Text] /\ n \in Nat
  BY <1>1, <1>2, <1>3 DEF f, n
<1>5. f \in Seq(Text) /\ Len(f) = n
  BY <1>4
<1>. QED BY <1>5 DEF f, n

\* What the lines after i up to j make together.
Part(s, i, j) == Join(SubSeq(s, i + 1, j))

\* Part is a sequence of lines joined, and so parts add up.
LEMMA PartIs ==
  ASSUME NEW s \in Seq(Text), NEW i \in Nat, NEW j \in Nat, i <= j, j <= Len(s)
  PROVE  /\ SubSeq(s, i + 1, j) \in Seq(Text)
         /\ Len(SubSeq(s, i + 1, j)) = j - i
         /\ \A k \in 1..j - i : SubSeq(s, i + 1, j)[k] = s[i + k]
<1>. DEFINE t == SubSeq(s, i + 1, j)
<1>1. Len(s) \in Nat /\ \A k \in 1..Len(s) : s[k] \in Text
  BY LinesAre
<1>2. \A k \in i + 1..j : s[k] \in Text
  BY <1>1
<1>3. i + 1 \in Int /\ j \in Int
  OBVIOUS
<1>4. /\ t \in Seq(Text)
      /\ Len(t) = IF i + 1 <= j THEN j - (i + 1) + 1 ELSE 0
      /\ \A k \in 1..j - (i + 1) + 1 : t[k] = s[i + 1 + k - 1]
  BY <1>2, <1>3, SubSeqProperties
<1>. HIDE DEF t
<1>5. Len(t) = j - i
  BY <1>4
<1>6. ASSUME NEW k \in 1..j - i PROVE t[k] = s[i + k]
  <2>1. k \in 1..j - (i + 1) + 1 /\ i + 1 + k - 1 = i + k
    OBVIOUS
  <2>. QED BY <2>1, <1>4
<1>. QED BY <1>4, <1>5, <1>6 DEF t

LEMMA PartType ==
  ASSUME NEW s \in Seq(Text), NEW i \in Nat, NEW j \in Nat, i <= j, j <= Len(s)
  PROVE  Part(s, i, j) \in Text
BY PartIs, JoinType DEF Part

LEMMA PartSplit ==
  ASSUME NEW s \in Seq(Text), NEW i \in Nat, NEW j \in Nat, NEW k \in Nat,
         i <= j, j <= k, k <= Len(s)
  PROVE  Part(s, i, k) = Cat(Part(s, i, j), Part(s, j, k))
<1>1. Len(s) \in Nat
  BY LinesAre
<1>2. SubSeq(s, i + 1, j) \in Seq(Text) /\ SubSeq(s, j + 1, k) \in Seq(Text)
  <2>1. i <= Len(s) /\ j <= Len(s)
    BY <1>1
  <2>. QED BY <2>1, PartIs
<1>3. SubSeq(s, i + 1, j) \o SubSeq(s, j + 1, k) = SubSeq(s, i + 1, k)
  <2>1. /\ i + 1 \in 1..Len(s) + 1
        /\ j \in (i + 1) - 1..Len(s)
        /\ k \in j..Len(s)
    BY <1>1
  <2>. QED BY <2>1, ConcatAdjacentSubSeq
<1>. QED BY <1>2, <1>3, JoinConcat DEF Part

LEMMA PartAll ==
  ASSUME NEW s \in Seq(Text)
  PROVE  Part(s, 0, Len(s)) = Join(s)
<1>1. 0 + 1 = 1
  OBVIOUS
<1>. QED BY <1>1, SubSeqFull DEF Part

LEMMA PartEmpty ==
  ASSUME NEW s, NEW i \in Nat
  PROVE  Part(s, i, i) = Join(<<>>)
<1>1. i + 1 \in Int /\ i \in Int /\ i < i + 1
  OBVIOUS
<1>. QED BY <1>1, SubSeqEmpty DEF Part

LEMMA PartOne ==
  ASSUME NEW s \in Seq(Text), NEW i \in Nat, i < Len(s)
  PROVE  Part(s, i, i + 1) = s[i + 1]
<1>. DEFINE t == SubSeq(s, i + 1, i + 1)
            n == Len(s)
<1>1. n \in Nat /\ s[i + 1] \in Text
  BY LinesAre
<1>2. t \in Seq(Text) /\ Len(t) = 1 /\ t[1] = s[i + 1]
  <2>1. i + 1 \in Nat /\ i <= i + 1 /\ i + 1 <= n /\ (i + 1) - i = 1
    BY <1>1
  <2>2. t \in Seq(Text) /\ Len(t) = (i + 1) - i /\ \A k \in 1..(i + 1) - i : t[k] = s[i + k]
    BY <2>1, PartIs
  <2>. QED BY <2>1, <2>2
<1>. DEFINE one == <<s[i + 1]>>
<1>3. one \in Seq(Text) /\ Join(one) = s[i + 1]
  BY <1>1, JoinOne
<1>4. Len(one) = 1 /\ one[1] = s[i + 1]
  OBVIOUS
<1>. HIDE DEF t, one
<1>5. t = one
  BY <1>2, <1>3, <1>4, SeqEqual
<1>. QED BY <1>3, <1>5 DEF Part, t

LEMMA PartNone ==
  ASSUME NEW s \in Seq(Text), NEW i \in Nat, NEW j \in Nat, i <= j, j <= Len(s),
         \A k \in i + 1..j : s[k] = Nothing
  PROVE  Part(s, i, j) = Nothing
<1>. DEFINE t == SubSeq(s, i + 1, j)
<1>1. t \in Seq(Text) /\ Len(t) = j - i /\ \A k \in 1..j - i : t[k] = s[i + k]
  BY PartIs
<1>2. ASSUME NEW k \in 1..j - i PROVE t[k] = Nothing
  <2>1. i + k \in i + 1..j
    OBVIOUS
  <2>. QED BY <2>1, <1>1
<1>. HIDE DEF t
<1>3. Join(t) = Nothing
  BY <1>1, <1>2, JoinEmpty
<1>. QED BY <1>3 DEF Part, t

LEMMA PartSame ==
  ASSUME NEW a \in Seq(Text), NEW b \in Seq(Text), NEW i \in Nat, NEW j \in Nat, i <= j,
         j <= Len(a), j <= Len(b), \A k \in i + 1..j : a[k] = b[k]
  PROVE  Part(a, i, j) = Part(b, i, j)
<1>. DEFINE s == SubSeq(a, i + 1, j)
            t == SubSeq(b, i + 1, j)
<1>1. s \in Seq(Text) /\ Len(s) = j - i /\ \A k \in 1..j - i : s[k] = a[i + k]
  BY PartIs
<1>2. t \in Seq(Text) /\ Len(t) = j - i /\ \A k \in 1..j - i : t[k] = b[i + k]
  BY PartIs
<1>3. ASSUME NEW k \in 1..j - i PROVE s[k] = t[k]
  <2>1. i + k \in i + 1..j
    OBVIOUS
  <2>. QED BY <2>1, <1>1, <1>2
<1>. HIDE DEF s, t
<1>4. s = t
  BY <1>1, <1>2, <1>3, SeqEqual
<1>. QED BY <1>4 DEF Part, s, t

\* Replace leaves the lines before the edit, and makes of those from its first
\* to its last the text around it and its own.
LEMMA ReplaceJoins ==
  ASSUME NEW ls \in Seq(Text), NEW e \in FullEdit, Fits(e, ls)
  PROVE  LET new == Replace(e, ls) IN
         /\ new \in Seq(Text)
         /\ e.line - 1 <= Len(new)
         /\ \A k \in 1..e.line - 1 : new[k] = ls[k]
         /\ Part(new, e.line - 1, Len(new)) = Cat(NewText(e, ls), Part(ls, e.endLine, Len(ls)))
<1>. DEFINE lo  == e.line
            hi  == e.endLine
            n   == Len(ls)
            a   == SubSeq(ls, 1, lo - 1)
            b   == SubSeq(ls, hi + 1, n)
            s0  == Lines(e.text)
            s1  == [s0 EXCEPT ![1] = Before(e, ls) \o @]
            mid == [s1 EXCEPT ![Len(s0)] = @ \o After(e, ls)]
            new == Replace(e, ls)
<1>1. /\ n \in Nat /\ lo \in 1..n /\ hi \in 1..n
      /\ \A k \in 1..n : ls[k] \in Text
  BY LinesAre DEF Fits
<1>2. e.text \in Text /\ Before(e, ls) \in Text /\ After(e, ls) \in Text /\ NewText(e, ls) \in Text
  BY EditIs, NewTextType
<1>3. s0 \in Seq(Text) /\ Len(s0) > 0 /\ Join(s0) = e.text
  BY <1>2, LinesProperties
<1>4. s1 \in Seq(Text) /\ Len(s1) = Len(s0) /\ Join(s1) = Cat(Before(e, ls), e.text)
  <2>. HIDE DEF s0
  <2>. QED BY <1>2, <1>3, JoinFirst DEF Cat
<1>5. mid \in Seq(Text) /\ Join(mid) = NewText(e, ls)
  <2>. HIDE DEF s0, s1
  <2>1. Len(s0) = Len(s1) /\ Len(s0) > 0
    BY <1>3, <1>4
  <2>2. [s1 EXCEPT ![Len(s0)] = Cat(@, After(e, ls))] \in Seq(Text)
        /\ Join([s1 EXCEPT ![Len(s0)] = Cat(@, After(e, ls))]) = Cat(Join(s1), After(e, ls))
    BY <2>1, <1>2, <1>4, JoinLast
  <2>. QED BY <2>2, <1>4 DEF NewText, Cat
<1>6. new = (a \o mid) \o b
  BY DEF Replace
<1>. HIDE DEF s0, s1, mid, new
<1>7. /\ a \in Seq(Text) /\ Len(a) = lo - 1
      /\ \A k \in 1..lo - 1 : a[k] = ls[k]
  <2>1. \A k \in 1..lo - 1 : ls[k] \in Text
    BY <1>1
  <2>2. /\ a \in Seq(Text) /\ Len(a) = IF 1 <= lo - 1 THEN (lo - 1) - 1 + 1 ELSE 0
        /\ \A k \in 1..(lo - 1) - 1 + 1 : a[k] = ls[1 + k - 1]
    BY <1>1, <2>1, SubSeqProperties
  <2>. HIDE DEF a
  <2>. QED BY <2>2, <1>1
<1>8. b \in Seq(Text)
  <2>1. \A k \in hi + 1..n : ls[k] \in Text
    BY <1>1
  <2>. QED BY <1>1, <2>1, SubSeqProperties
<1>. HIDE DEF a, b, lo, hi, n
<1>. DEFINE rest == mid \o b
<1>9. rest \in Seq(Text) /\ Join(rest) = Cat(NewText(e, ls), Join(b))
  BY <1>5, <1>8, JoinConcat
<1>10. new = a \o rest
  <2>1. a \in Seq(Text) /\ mid \in Seq(Text) /\ b \in Seq(Text)
    BY <1>5, <1>7, <1>8
  <2>2. (a \o mid) \o b = a \o (mid \o b)
    BY <2>1, ConcatAssociative
  <2>. QED BY <2>2, <1>6
<1>. HIDE DEF rest
<1>11. /\ new \in Seq(Text) /\ Len(new) = Len(a) + Len(rest)
       /\ \A k \in 1..Len(a) + Len(rest) : new[k] = IF k <= Len(a) THEN a[k] ELSE rest[k - Len(a)]
  BY <1>7, <1>9, <1>10, ConcatProperties
<1>12. Len(rest) \in Nat /\ Len(a) \in Nat
  BY <1>7, <1>9, LenProperties
<1>13. SubSeq(new, lo - 1 + 1, Len(new)) = rest
  <2>. DEFINE i == lo - 1
              t == SubSeq(new, i + 1, Len(new))
  <2>1. i \in Nat /\ Len(a) = i /\ Len(new) = i + Len(rest) /\ Len(new) \in Nat /\ i <= Len(new)
        /\ Len(new) - i = Len(rest)
    BY <1>1, <1>7, <1>11, <1>12
  <2>. HIDE DEF i
  <2>2. t \in Seq(Text) /\ Len(t) = Len(rest) /\ \A k \in 1..Len(rest) : t[k] = new[i + k]
    <3>. DEFINE m == Len(new)
    <3>1. m \in Nat /\ m <= Len(new) /\ i <= m /\ m - i = Len(rest)
      BY <2>1
    <3>2. /\ SubSeq(new, i + 1, m) \in Seq(Text) /\ Len(SubSeq(new, i + 1, m)) = m - i
          /\ \A k \in 1..m - i : SubSeq(new, i + 1, m)[k] = new[i + k]
      BY <2>1, <3>1, <1>11, PartIs
    <3>. QED BY <3>1, <3>2
  <2>3. ASSUME NEW k \in 1..Len(rest) PROVE t[k] = rest[k]
    <3>1. i + k \in 1..Len(a) + Len(rest) /\ ~(i + k <= Len(a)) /\ (i + k) - Len(a) = k
      BY <2>1, <1>12
    <3>2. new[i + k] = rest[k]
      BY <3>1, <1>11
    <3>. QED BY <3>2, <2>2
  <2>. HIDE DEF t
  <2>4. t = rest
    BY <2>2, <2>3, <1>9, SeqEqual
  <2>. QED BY <2>4 DEF t, i
<1>14. lo - 1 <= Len(new) /\ \A k \in 1..lo - 1 : new[k] = ls[k]
  <2>1. lo - 1 <= Len(new)
    BY <1>1, <1>7, <1>11, <1>12
  <2>2. ASSUME NEW k \in 1..lo - 1 PROVE new[k] = ls[k]
    <3>1. k \in 1..Len(a) + Len(rest) /\ k <= Len(a)
      BY <1>1, <1>7, <1>12
    <3>. QED BY <3>1, <1>7, <1>11
  <2>. QED BY <2>1, <2>2
<1>. QED BY <1>9, <1>11, <1>13, <1>14 DEF Part, new, lo, hi, n, b

-----------------------------------------------------------------------------
(* What a terminal shows                                                   *)

LEMMA MinIs ==
  ASSUME NEW S, NEW a \in S, S \subseteq Int, \A x \in S : a <= x
  PROVE  Min(S) = a
<1>1. \A x \in S : (\A y \in S : x <= y) => x = a
  <2>. SUFFICES ASSUME NEW x \in S, \A y \in S : x <= y PROVE x = a
    OBVIOUS
  <2>. QED OBVIOUS
<1>2. \E x \in S : \A y \in S : x <= y
  OBVIOUS
<1>. QED BY <1>1, <1>2 DEF Min

LEMMA MaxIs ==
  ASSUME NEW S, NEW a \in S, S \subseteq Int, \A x \in S : x <= a
  PROVE  Max(S) = a
<1>1. \A x \in S : (\A y \in S : x >= y) => x = a
  <2>. SUFFICES ASSUME NEW x \in S, \A y \in S : x >= y PROVE x = a
    OBVIOUS
  <2>. QED OBVIOUS
<1>2. \E x \in S : \A y \in S : x >= y
  OBVIOUS
<1>. QED BY <1>1, <1>2 DEF Max

LEMMA SmallerIs ==
  ASSUME NEW a \in Int, NEW b \in Int
  PROVE  Min({a, b}) = IF a <= b THEN a ELSE b
<1>1. CASE a <= b
  BY <1>1, MinIs
<1>2. CASE ~(a <= b)
  BY <1>2, MinIs
<1>. QED BY <1>1, <1>2

LEMMA LargerIs ==
  ASSUME NEW a \in Int, NEW b \in Int
  PROVE  Max({a, b}) = IF a <= b THEN b ELSE a
<1>1. CASE a <= b
  BY <1>1, MaxIs
<1>2. CASE ~(a <= b)
  BY <1>2, MaxIs
<1>. QED BY <1>1, <1>2

\* Lines without their newlines are texts.
LEMMA SplitLinesIs ==
  ASSUME NEW text \in Text
  PROVE  SplitLines(text) \in Seq(Text) /\ Len(SplitLines(text)) = Len(Lines(text))
<1>. DEFINE ls == Lines(text)
            n  == Len(ls)
            line(k) == IF k < n THEN Front(ls[k]) ELSE ls[k]
<1>1. /\ ls \in Seq(Text) /\ n \in Nat /\ DOMAIN ls = 1..n /\ \A k \in 1..n : ls[k] \in Text
  BY LinesProperties, LinesAre
<1>. HIDE DEF ls
<1>2. ASSUME NEW s \in Text PROVE Front(s) \in Text
  <2>1. Len(s) \in Nat /\ \A i \in 1..Len(s) - 1 : s[i] \in Char
    BY LenProperties, ElementOfSeq DEF Text
  <2>2. SubSeq(s, 1, Len(s) - 1) \in Seq(Char)
    BY <2>1, SubSeqProperties
  <2>. QED BY <2>2 DEF Front, Text
<1>3. \A k \in 1..n : line(k) \in Text
  BY <1>1, <1>2
<1>4. SplitLines(text) = [k \in 1..n |-> line(k)]
  BY <1>1 DEF SplitLines, ls
<1>. HIDE DEF line, n
<1>. DEFINE f == [k \in 1..n |-> line(k)]
<1>5. f \in [1..n -> Text]
  BY <1>3
<1>. HIDE DEF f
<1>6. f \in Seq(Text) /\ Len(f) = n
  BY <1>1, <1>5
<1>. QED BY <1>4, <1>6 DEF f, n, ls

\* A line that is cut is whole, and its parts are as long as they should be.
LEMMA CutIs ==
  ASSUME NEW line \in Text, NEW from \in 1..Len(line) + 1, NEW to \in from..Len(line) + 1
  PROVE  LET cut == Cut(line, from, to) IN
         /\ cut.before \o cut.marked \o cut.after = line
         /\ Len(cut.before) = from - 1
         /\ Len(cut.marked) = to - from
<1>. DEFINE n == Len(line)
            a == SubSeq(line, 1, from - 1)
            b == SubSeq(line, from, to - 1)
            c == SubSeq(line, to, n)
<1>1. line \in Seq(Char) /\ n \in Nat /\ \A i \in 1..n : line[i] \in Char
  BY LenProperties, ElementOfSeq DEF Text
<1>2. from \in Nat /\ to \in Nat /\ 1 <= from /\ from <= to /\ to <= n + 1
  BY <1>1
<1>3. Len(a) = from - 1
  <2>1. \A i \in 1..from - 1 : line[i] \in Char
    BY <1>1, <1>2
  <2>2. Len(a) = IF 1 <= from - 1 THEN (from - 1) - 1 + 1 ELSE 0
    BY <1>2, <2>1, SubSeqProperties
  <2>. QED BY <1>2, <2>2
<1>4. Len(b) = to - from
  <2>1. \A i \in from..to - 1 : line[i] \in Char
    BY <1>1, <1>2
  <2>2. Len(b) = IF from <= to - 1 THEN (to - 1) - from + 1 ELSE 0
    BY <1>2, <2>1, SubSeqProperties
  <2>. QED BY <1>2, <2>2
<1>5. (a \o b) \o c = line
  <2>. DEFINE p == from - 1
              q == to - 1
  <2>1. 1 \in 1..Len(line) + 1 /\ p \in 1 - 1..Len(line) /\ q \in p..Len(line) /\ n \in q..Len(line)
    BY <1>1, <1>2
  <2>2. p + 1 = from /\ q + 1 = to /\ q \in 1 - 1..Len(line)
    BY <1>1, <1>2
  <2>. HIDE DEF p, q
  <2>3. SubSeq(line, 1, p) \o SubSeq(line, p + 1, q) = SubSeq(line, 1, q)
    BY <1>1, <2>1, ConcatAdjacentSubSeq
  <2>4. SubSeq(line, 1, q) \o SubSeq(line, q + 1, n) = SubSeq(line, 1, n)
    BY <1>1, <2>1, <2>2, ConcatAdjacentSubSeq
  <2>5. SubSeq(line, 1, n) = line
    BY <1>1, SubSeqFull
  <2>. QED BY <2>2, <2>3, <2>4, <2>5 DEF p, q
<1>6. Cut(line, from, to) = [before |-> a, marked |-> b, after |-> c]
  BY DEF Cut
<1>. HIDE DEF a, b, c
<1>. QED BY <1>3, <1>4, <1>5, <1>6

-----------------------------------------------------------------------------
(* Last lines                                                              *)

\* A set of numbers with all below each of its own is an interval.
LEMMA Downward ==
  ASSUME NEW m \in Nat, NEW S \in SUBSET (1..m), \A i \in S : \A j \in 1..i : j \in S
  PROVE  Cardinality(S) \in Nat /\ \A i \in 1..m : i \in S <=> i <= Cardinality(S)
<1>1. IsFiniteSet(1..m) /\ IsFiniteSet(S) /\ Cardinality(S) \in Nat
  <2>1. IsFiniteSet(1..m)
    BY FS_Interval
  <2>. QED BY <2>1, FS_Subset, FS_CardinalityType
<1>2. ASSUME NEW i \in 1..m, i \in S PROVE i <= Cardinality(S)
  <2>1. 1..i \subseteq S /\ Cardinality(1..i) = i
    <3>1. Cardinality(1..i) = IF 1 > i THEN 0 ELSE i - 1 + 1
      BY FS_Interval
    <3>. QED BY <1>2, <3>1
  <2>2. Cardinality(1..i) <= Cardinality(S)
    BY <1>1, <2>1, FS_Subset
  <2>. QED BY <2>1, <2>2
<1>3. ASSUME NEW i \in 1..m, i \notin S PROVE ~(i <= Cardinality(S))
  <2>1. S \subseteq 1..(i - 1)
    <3>. SUFFICES ASSUME NEW j \in S PROVE j \in 1..(i - 1)
      OBVIOUS
    <3>1. ~(i <= j)
      BY <1>3
    <3>. QED BY <3>1
  <2>2. IsFiniteSet(1..(i - 1)) /\ Cardinality(1..(i - 1)) = i - 1
    <3>1. i - 1 \in Int
      OBVIOUS
    <3>2. IsFiniteSet(1..(i - 1)) /\ Cardinality(1..(i - 1)) = IF 1 > i - 1 THEN 0 ELSE (i - 1) - 1 + 1
      BY <3>1, FS_Interval
    <3>. QED BY <3>2
  <2>3. Cardinality(S) <= i - 1
    BY <2>1, <2>2, FS_Subset
  <2>. QED BY <1>1, <2>3
<1>. QED BY <1>1, <1>2, <1>3

\* How newlines are counted, and where the k-th line ends.
LEMMA Counting ==
  ASSUME NEW text \in Text
  PROVE  LET n == Cardinality(Newlines(text))
             B(i) == Cardinality(NewlinesBefore(text, i))
         IN /\ \A i \in 1..Len(text) + 1 : B(i) \in Nat
            /\ \A i \in 1..Len(text) : B(i + 1) = IF text[i] = NL THEN B(i) + 1 ELSE B(i)
            /\ B(1) = 0 /\ B(Len(text) + 1) = n
            /\ \A k : \A i \in 1..Len(text) : k \in Nat => (i <= LineEnd(text, k) <=> B(i) < k)
<1>. DEFINE n == Cardinality(Newlines(text))
            m == Len(text)
            B(i) == Cardinality(NewlinesBefore(text, i))
<1>1. m \in Nat /\ DOMAIN text = 1..m
  BY LenProperties DEF Text
<1>2. Newlines(text) \subseteq 1..m
  BY <1>1 DEF Newlines
<1>3. IsFiniteSet(Newlines(text))
  <2>1. IsFiniteSet(1..m)
    BY <1>1, FS_Interval
  <2>. QED BY <2>1, <1>2, FS_Subset
<1>4. ASSUME NEW i PROVE IsFiniteSet(NewlinesBefore(text, i)) /\ B(i) \in Nat
  <2>1. NewlinesBefore(text, i) \subseteq Newlines(text)
    BY DEF NewlinesBefore
  <2>. QED BY <2>1, <1>3, FS_Subset, FS_CardinalityType
<1>5. ASSUME NEW i \in 1..m PROVE B(i + 1) = IF text[i] = NL THEN B(i) + 1 ELSE B(i)
  <2>1. CASE text[i] = NL
    <3>1. i \in Newlines(text) /\ i \notin NewlinesBefore(text, i)
      BY <1>1, <2>1 DEF Newlines, NewlinesBefore
    <3>2. NewlinesBefore(text, i + 1) = NewlinesBefore(text, i) \cup {i}
      BY <1>2, <3>1 DEF NewlinesBefore
    <3>. QED BY <2>1, <3>1, <3>2, <1>4, FS_AddElement
  <2>2. CASE text[i] # NL
    <3>1. i \notin Newlines(text)
      BY <2>2 DEF Newlines
    <3>2. NewlinesBefore(text, i + 1) = NewlinesBefore(text, i)
      BY <1>2, <3>1 DEF NewlinesBefore
    <3>. QED BY <2>2, <3>2
  <2>. QED BY <2>1, <2>2
<1>6. B(1) = 0
  <2>1. NewlinesBefore(text, 1) = {}
    BY <1>2 DEF NewlinesBefore
  <2>. QED BY <2>1, FS_EmptySet
<1>7. B(m + 1) = n
  <2>1. NewlinesBefore(text, m + 1) = Newlines(text)
    BY <1>1, <1>2 DEF NewlinesBefore
  <2>. QED BY <2>1
<1>8. ASSUME NEW k \in Nat, NEW i \in 1..m PROVE i <= LineEnd(text, k) <=> B(i) < k
  <2>1. LineEnd(text, k) = Cardinality(UpToLine(text, k))
    BY DEF LineEnd, UpToLine, NewlinesBefore
  <2>2. UpToLine(text, k) \in SUBSET (1..m)
    BY <1>1 DEF UpToLine
  <2>3. ASSUME NEW a \in UpToLine(text, k), NEW b \in 1..a PROVE b \in UpToLine(text, k)
    <3>1. a \in 1..m /\ b \in 1..m /\ B(a) < k
      BY <1>1, <2>3 DEF UpToLine
    <3>2. NewlinesBefore(text, b) \subseteq NewlinesBefore(text, a)
      BY <1>2, <3>1 DEF NewlinesBefore
    <3>3. B(b) <= B(a) /\ B(a) \in Nat /\ B(b) \in Nat
      BY <1>4, <3>2, FS_Subset
    <3>. HIDE DEF B
    <3>4. B(b) < k
      BY <3>1, <3>3
    <3>. QED BY <1>1, <3>1, <3>4 DEF UpToLine, B
  <2>4. i \in UpToLine(text, k) <=> i <= Cardinality(UpToLine(text, k))
    BY <1>1, <2>2, <2>3, Downward
  <2>5. i \in UpToLine(text, k) <=> B(i) < k
    BY <1>1 DEF UpToLine
  <2>. QED BY <2>1, <2>4, <2>5
<1>. QED BY <1>1, <1>4, <1>5, <1>6, <1>7, <1>8

\* Every line but the last ends with a newline, and the last does not.
LEMMA LastLine ==
  ASSUME NEW text \in Text, NEW k \in 1..Len(Lines(text))
  PROVE  LET line == Lines(text)[k] IN
         k < Len(Lines(text)) <=> Len(line) > 0 /\ line[Len(line)] = NL
<1>. DEFINE n == Cardinality(Newlines(text))
            m == Len(text)
            B(i) == Cardinality(NewlinesBefore(text, i))
            lo == LineEnd(text, k - 1)
            hi == LineEnd(text, k)
            line == SubSeq(text, lo + 1, hi)
<1>1. /\ n \in Nat /\ LineEnd(text, n + 1) = m
      /\ \A h \in 0..n + 1 : LineEnd(text, h) \in 0..m
      /\ \A h \in 1..n + 1 : LineEnd(text, h - 1) <= LineEnd(text, h)
  BY LineEnds
<1>2. m \in Nat /\ \A i \in 1..m : text[i] \in Char
  BY LenProperties, ElementOfSeq DEF Text
<1>3. Len(Lines(text)) = n + 1 /\ k \in 1..n + 1 /\ Lines(text)[k] = line
  <2>1. Len(Lines(text)) \in Nat /\ DOMAIN Lines(text) = 1..Len(Lines(text))
    BY LinesProperties, LinesAre
  <2>2. Lines(text) = [h \in 1..n + 1 |-> SubSeq(text, LineEnd(text, h - 1) + 1, LineEnd(text, h))]
    BY DEF Lines
  <2>3. 1..Len(Lines(text)) = 1..n + 1
    BY <2>1, <2>2
  <2>4. Len(Lines(text)) = n + 1
    <3>. DEFINE a == Len(Lines(text))
                b == n + 1
    <3>1. a \in Nat /\ b \in Nat /\ b > 0 /\ 1..a = 1..b
      BY <2>1, <2>3, <1>1
    <3>. HIDE DEF a, b
    <3>2. b \in 1..a
      BY <3>1
    <3>3. a \in 1..b
      BY <3>1, <3>2
    <3>4. a = b
      BY <3>1, <3>2, <3>3
    <3>. QED BY <3>4 DEF a, b
  <2>5. k \in 1..n + 1
    BY <2>3
  <2>6. Lines(text)[k] = line
    BY <2>2, <2>5
  <2>. QED BY <2>4, <2>5, <2>6
<1>4. /\ \A i \in 1..m + 1 : B(i) \in Nat
      /\ \A i \in 1..m : B(i + 1) = IF text[i] = NL THEN B(i) + 1 ELSE B(i)
      /\ B(1) = 0 /\ B(m + 1) = n
      /\ \A h : \A i \in 1..m : h \in Nat => (i <= LineEnd(text, h) <=> B(i) < h)
  BY Counting
<1>. HIDE DEF n, m, B
<1>5. k \in Nat /\ k - 1 \in Nat /\ lo \in 0..m /\ hi \in 0..m /\ lo <= hi /\ k <= n + 1
  <2>1. k \in Nat /\ k - 1 \in Nat /\ k - 1 \in 0..n + 1 /\ k \in 0..n + 1
    BY <1>1, <1>3
  <2>. QED BY <2>1, <1>1, <1>3
<1>6. Len(line) = hi - lo /\ (hi > lo => line[hi - lo] = text[hi])
  <2>1. \A i \in lo + 1..hi : text[i] \in Char
    BY <1>2, <1>5
  <2>2. lo + 1 \in Int /\ hi \in Int
    BY <1>5
  <2>3. /\ Len(line) = IF lo + 1 <= hi THEN hi - (lo + 1) + 1 ELSE 0
        /\ \A i \in 1..hi - (lo + 1) + 1 : line[i] = text[lo + 1 + i - 1]
    BY <2>1, <2>2, SubSeqProperties
  <2>. HIDE DEF line
  <2>4. Len(line) = hi - lo
    BY <2>3, <1>5
  <2>5. ASSUME hi > lo PROVE line[hi - lo] = text[hi]
    <3>1. hi - lo \in 1..hi - (lo + 1) + 1 /\ lo + 1 + (hi - lo) - 1 = hi
      BY <2>5, <1>5
    <3>. QED BY <3>1, <2>3
  <2>. QED BY <2>4, <2>5
<1>7. /\ \A i \in 1..m : i <= lo <=> B(i) < k - 1
      /\ \A i \in 1..m : i <= hi <=> B(i) < k
  BY <1>4, <1>5
<1>. HIDE DEF lo, hi, line
<1>8. ASSUME k < n + 1 PROVE hi > lo /\ text[hi] = NL
  <2>1. hi > 0
    <3>1. m > 0
      <4>1. CASE m = 0
        BY <4>1, <1>1, <1>4, <1>5, <1>8
      <4>. QED BY <4>1, <1>2
    <3>2. 1 \in 1..m /\ B(1) < k
      BY <3>1, <1>2, <1>4, <1>5, <1>3
    <3>. QED BY <3>2, <1>7, <1>5
  <2>2. hi \in 1..m /\ B(hi) < k /\ B(hi) \in Nat /\ B(hi + 1) \in Nat
    <3>1. hi \in 1..m /\ hi + 1 \in 1..m + 1 /\ hi \in 1..m + 1
      BY <2>1, <1>2, <1>5
    <3>2. hi <= hi
      BY <1>5
    <3>. QED BY <3>1, <3>2, <1>4, <1>7
  <2>3. ~(B(hi + 1) < k)
    <3>1. CASE hi = m
      BY <3>1, <1>1, <1>4, <1>5, <1>8
    <3>2. CASE hi # m
      <4>1. hi + 1 \in 1..m /\ ~(hi + 1 <= hi)
        BY <3>2, <1>2, <1>5
      <4>. QED BY <4>1, <1>7
    <3>. QED BY <3>1, <3>2
  <2>4. B(hi + 1) = IF text[hi] = NL THEN B(hi) + 1 ELSE B(hi)
    BY <2>2, <1>4
  <2>5. text[hi] = NL
    BY <2>2, <2>3, <2>4
  <2>6. ~(B(hi) < k - 1)
    BY <2>2, <2>3, <2>4, <2>5, <1>5
  <2>7. ~(hi <= lo)
    BY <2>2, <2>6, <1>7
  <2>. QED BY <2>5, <2>7, <1>5
<1>9. ASSUME k = n + 1, hi > lo, text[hi] = NL PROVE FALSE
  <2>1. hi = m
    BY <1>1, <1>9 DEF hi
  <2>2. m \in 1..m /\ ~(m <= lo) /\ m \in 1..m + 1
    BY <2>1, <1>2, <1>5, <1>9
  <2>3. ~(B(m) < n) /\ B(m) \in Nat
    BY <2>2, <1>1, <1>4, <1>7, <1>9
  <2>4. B(m + 1) = B(m) + 1
    BY <2>1, <2>2, <1>4, <1>9
  <2>. QED BY <2>3, <2>4, <1>1, <1>4
<1>10. k < n + 1 <=> hi > lo /\ text[hi] = NL
  BY <1>1, <1>3, <1>5, <1>8, <1>9
<1>11. Len(line) > 0 <=> hi > lo
  BY <1>5, <1>6
<1>. QED BY <1>3, <1>6, <1>10, <1>11

\* So only last lines are equal to last lines.
LEMMA LastLinesOnly ==
  ASSUME NEW a \in Text, NEW b \in Text, NEW i \in 1..Len(Lines(a)), NEW j \in 1..Len(Lines(b)),
         Lines(a)[i] = Lines(b)[j]
  PROVE  i = Len(Lines(a)) <=> j = Len(Lines(b))
<1>1. i < Len(Lines(a)) <=> j < Len(Lines(b))
  BY LastLine
<1>2. Len(Lines(a)) \in Nat /\ Len(Lines(b)) \in Nat
  BY LinesProperties, LinesAre
<1>. QED BY <1>1, <1>2

-----------------------------------------------------------------------------
(* The fix of a whole file                                                 *)

\* The lines that are paired, with what is before the first and after the last.
Stops(M, old, new)    == M \cup {<<0, 0>>, <<Len(old) + 1, Len(new) + 1>>}
LastStop(old, new)    == <<Len(old) + 1, Len(new) + 1>>

Follows(M, old, new, p) ==
  CHOOSE q \in Stops(M, old, new) :
    p[1] < q[1] /\ \A r \in Stops(M, old, new) : p[1] < r[1] => q[1] <= r[1]

\* A group, from a stop to the next.
Between(p, q) == [i1 |-> p[1], i2 |-> q[1] - 1, j1 |-> p[2], j2 |-> q[2] - 1]
GroupAt(M, old, new, p) == Between(p, Follows(M, old, new, p))
Differs(g) == g.i1 < g.i2 \/ g.j1 < g.j2

LEMMA GroupsAre ==
  ASSUME NEW M, NEW old, NEW new
  PROVE  Groups(M, old, new) =
           {g \in {GroupAt(M, old, new, p) : p \in Stops(M, old, new) \ {LastStop(old, new)}} : Differs(g)}
BY DEF Groups, GroupAt, Between, Follows, Stops, LastStop, Differs

\* Two sequences of lines and a pairing, of which both last lines are or none.
Paired(M, old, new) ==
  /\ old \in Seq(Text) /\ Len(old) > 0 /\ new \in Seq(Text) /\ Len(new) > 0
  /\ M \in Alignments(old, new)
  /\ \A p \in M : p[1] = Len(old) <=> p[2] = Len(new)

\* Stops are in order, on both sides.
LEMMA StopsOrdered ==
  ASSUME NEW M, NEW old, NEW new, Paired(M, old, new),
         NEW p \in Stops(M, old, new), NEW q \in Stops(M, old, new)
  PROVE  /\ p[1] \in 0..Len(old) + 1 /\ p[2] \in 0..Len(new) + 1
         /\ p[1] = 0 => p = <<0, 0>> /\ p[2] = 0
         /\ p[1] = Len(old) + 1 => p = LastStop(old, new) /\ p[2] = Len(new) + 1
         /\ p[1] \in 1..Len(old) => p \in M /\ p[2] \in 1..Len(new) /\ old[p[1]] = new[p[2]]
                                   /\ (p[1] = Len(old) <=> p[2] = Len(new))
         /\ p[1] = q[1] => p = q
         /\ p[1] < q[1] => p[2] < q[2]
<1>. DEFINE n == Len(old)
            m == Len(new)
<1>1. n \in Nat /\ m \in Nat /\ DOMAIN old = 1..n /\ DOMAIN new = 1..m /\ n > 0 /\ m > 0
  BY LinesAre DEF Paired
<1>2. /\ \A x \in M : x \in (1..n) \X (1..m) /\ old[x[1]] = new[x[2]] /\ (x[1] = n <=> x[2] = m)
      /\ \A x, y \in M : x # y => (x[1] < y[1] /\ x[2] < y[2]) \/ (y[1] < x[1] /\ y[2] < x[2])
  BY <1>1 DEF Paired, Alignments
<1>. HIDE DEF n, m
<1>3. \A x \in M : x[1] \in 1..n /\ x[2] \in 1..m
  BY <1>2
<1>4. ASSUME NEW x \in Stops(M, old, new)
      PROVE  \/ x \in M /\ x[1] \in 1..n /\ x[2] \in 1..m
             \/ x = <<0, 0>> /\ x[1] = 0 /\ x[2] = 0
             \/ x = LastStop(old, new) /\ x[1] = n + 1 /\ x[2] = m + 1
  BY <1>3 DEF Stops, LastStop, n, m
<1>5. /\ p[1] \in 0..n + 1 /\ p[2] \in 0..m + 1
      /\ p[1] = 0 => p = <<0, 0>> /\ p[2] = 0
      /\ p[1] = n + 1 => p = LastStop(old, new) /\ p[2] = m + 1
  <2>1. CASE p \in M
    BY <2>1, <1>1, <1>3
  <2>2. CASE p = <<0, 0>> /\ p[1] = 0 /\ p[2] = 0
    BY <2>2, <1>1
  <2>3. CASE p = LastStop(old, new) /\ p[1] = n + 1 /\ p[2] = m + 1
    BY <2>3, <1>1
  <2>. QED BY <2>1, <2>2, <2>3, <1>4
<1>6. p[1] \in 1..n => p \in M /\ p[2] \in 1..m /\ old[p[1]] = new[p[2]] /\ (p[1] = n <=> p[2] = m)
  <2>. SUFFICES ASSUME p[1] \in 1..n PROVE p \in M
    BY <1>2, <1>3
  <2>1. p[1] # 0 /\ p[1] # n + 1
    BY <1>1
  <2>. QED BY <2>1, <1>4
<1>7. (p[1] = q[1] => p = q) /\ (p[1] < q[1] => p[2] < q[2])
  <2>1. CASE p \in M /\ q \in M
    <3>1. p[1] \in Nat /\ q[1] \in Nat /\ p[2] \in Nat /\ q[2] \in Nat
      BY <2>1, <1>3
    <3>. QED BY <2>1, <3>1, <1>2
  <2>2. CASE p \notin M
    <3>1. CASE p = <<0, 0>> /\ p[1] = 0 /\ p[2] = 0
      BY <3>1, <1>1, <1>4
    <3>2. CASE p = LastStop(old, new) /\ p[1] = n + 1 /\ p[2] = m + 1
      BY <3>2, <1>1, <1>4
    <3>. QED BY <2>2, <3>1, <3>2, <1>4
  <2>3. CASE p \in M /\ q \notin M
    <3>1. p[1] \in 1..n /\ p[2] \in 1..m
      BY <2>3, <1>3
    <3>2. CASE q = <<0, 0>> /\ q[1] = 0 /\ q[2] = 0
      BY <3>1, <3>2, <1>1
    <3>3. CASE q = LastStop(old, new) /\ q[1] = n + 1 /\ q[2] = m + 1
      BY <3>1, <3>3, <1>1
    <3>. QED BY <2>3, <3>2, <3>3, <1>4
  <2>. QED BY <2>1, <2>2, <2>3
<1>. QED BY <1>5, <1>6, <1>7 DEF n, m

\* Of any numbers there is a least one.
LEMMA LeastNumber ==
  ASSUME NEW S \in SUBSET Nat, S # {}
  PROVE  \E x \in S : \A y \in S : x <= y
<1>. DEFINE T == {i \in Nat : \A y \in S : i <= y}
<1>. SUFFICES ASSUME \A x \in S : \E y \in S : ~(x <= y) PROVE FALSE
  OBVIOUS
<1>1. 0 \in T
  OBVIOUS
<1>2. ASSUME NEW i \in Nat, i \in T PROVE i + 1 \in T
  <2>1. i \notin S
    BY <1>2
  <2>2. \A y \in S : i <= y /\ i # y /\ y \in Nat
    BY <1>2, <2>1
  <2>. QED BY <2>2
<1>. HIDE DEF T
<1>3. Nat \subseteq T
  BY <1>1, <1>2, SetInduction
<1>4. PICK y \in S : TRUE
  OBVIOUS
<1>5. y + 1 \in T
  BY <1>3, <1>4
<1>. QED BY <1>5 DEF T

\* The next stop is after p, with none between.
LEMMA FollowsIs ==
  ASSUME NEW M, NEW old, NEW new, Paired(M, old, new),
         NEW p \in Stops(M, old, new), p # LastStop(old, new)
  PROVE  LET q == Follows(M, old, new, p) IN
         /\ q \in Stops(M, old, new)
         /\ p[1] < q[1] /\ p[2] < q[2]
         /\ \A r \in Stops(M, old, new) : r[1] <= p[1] \/ q[1] <= r[1]
<1>. DEFINE St == Stops(M, old, new)
            f  == LastStop(old, new)
            S  == {r[1] : r \in {s \in St : p[1] < s[1]}}
<1>1. /\ \A r \in St : r[1] \in Nat
      /\ f \in St /\ p[1] < f[1]
  <2>1. Len(old) \in Nat
    BY LinesAre DEF Paired
  <2>2. \A r \in St : r[1] \in 0..Len(old) + 1 /\ (r[1] = Len(old) + 1 => r = f)
    BY StopsOrdered
  <2>3. f \in St /\ f[1] = Len(old) + 1
    BY DEF Stops, LastStop
  <2>. QED BY <2>1, <2>2, <2>3
<1>. HIDE DEF St, f
<1>2. S \in SUBSET Nat /\ S # {}
  BY <1>1
<1>3. PICK x \in S : \A y \in S : x <= y
  BY <1>2, LeastNumber
<1>4. PICK q \in St : p[1] < q[1] /\ x = q[1]
  BY <1>3
<1>5. \A r \in St : p[1] < r[1] => q[1] <= r[1]
  BY <1>3, <1>4
<1>. DEFINE t == Follows(M, old, new, p)
<1>6. t \in St /\ p[1] < t[1] /\ \A r \in St : p[1] < r[1] => t[1] <= r[1]
  BY <1>4, <1>5 DEF Follows, St
<1>. HIDE DEF t
<1>7. p[2] < t[2]
  BY <1>6, StopsOrdered DEF St
<1>8. \A r \in St : r[1] <= p[1] \/ t[1] <= r[1]
  <2>. SUFFICES ASSUME NEW r \in St, ~(r[1] <= p[1]) PROVE t[1] <= r[1]
    OBVIOUS
  <2>1. p[1] < r[1]
    BY <1>1 DEF St
  <2>. QED BY <2>1, <1>6
<1>. QED BY <1>6, <1>7, <1>8 DEF St, t

\* Every stop but the first is the next one of a stop.
LEMMA PrecedesIs ==
  ASSUME NEW M, NEW old, NEW new, Paired(M, old, new),
         NEW p \in Stops(M, old, new), p[1] > 0
  PROVE  \E q \in Stops(M, old, new) : q[1] < p[1] /\ q # LastStop(old, new) /\ Follows(M, old, new, q) = p
<1>. DEFINE St == Stops(M, old, new)
            S  == {p[1] - r[1] : r \in {s \in St : s[1] < p[1]}}
<1>1. Len(old) \in Nat /\ \A r \in St : r[1] \in Nat /\ r[1] <= Len(old) + 1
  <2>1. Len(old) \in Nat
    BY LinesAre DEF Paired
  <2>. QED BY <2>1, StopsOrdered
<1>2. S \in SUBSET Nat /\ S # {}
  <2>1. <<0, 0>> \in St /\ <<0, 0>>[1] = 0
    BY DEF Stops
  <2>2. p[1] - 0 \in S
    BY <2>1
  <2>. HIDE DEF St
  <2>3. ASSUME NEW r \in St, r[1] < p[1] PROVE p[1] - r[1] \in Nat
    BY <2>3, <1>1 DEF St
  <2>. QED BY <2>2, <2>3
<1>. HIDE DEF St
<1>3. PICK x \in S : \A y \in S : x <= y
  BY <1>2, LeastNumber
<1>4. PICK q \in St : q[1] < p[1] /\ x = p[1] - q[1]
  BY <1>3
<1>5. \A r \in St : r[1] < p[1] => r[1] <= q[1]
  <2>. SUFFICES ASSUME NEW r \in St, r[1] < p[1] PROVE r[1] <= q[1]
    OBVIOUS
  <2>1. p[1] - q[1] <= p[1] - r[1]
    BY <1>3, <1>4
  <2>. QED BY <2>1, <1>1 DEF St
<1>6. q # LastStop(old, new)
  <2>1. LastStop(old, new)[1] = Len(old) + 1
    BY DEF LastStop
  <2>. QED BY <2>1, <1>1, <1>4 DEF St
<1>. DEFINE t == Follows(M, old, new, q)
<1>7. t \in St /\ q[1] < t[1] /\ \A r \in St : r[1] <= q[1] \/ t[1] <= r[1]
  BY <1>6, FollowsIs DEF St
<1>. HIDE DEF t
<1>8. t[1] = p[1]
  <2>1. t[1] <= p[1]
    BY <1>1, <1>4, <1>7 DEF St
  <2>2. ~(t[1] < p[1])
    BY <1>1, <1>5, <1>7
  <2>. QED BY <2>1, <2>2, <1>1, <1>7 DEF St
<1>9. t = p
  BY <1>7, <1>8, StopsOrdered DEF St
<1>. QED BY <1>4, <1>6, <1>9 DEF St, t

\* The edit that a group becomes, and all of them.
EditOf(M, old, new, p) == Normalize(Replacement(GroupAt(M, old, new, p), new), old)

Starts(M, old, new) == {p \in Stops(M, old, new) \ {LastStop(old, new)} : Differs(GroupAt(M, old, new, p))}
EditsOf(M, old, new) == {EditOf(M, old, new, p) : p \in Starts(M, old, new)}

LEMMA EditsOfAre ==
  ASSUME NEW M, NEW old, NEW new
  PROVE  {Normalize(e, old) : e \in {Replacement(g, new) : g \in Groups(M, old, new)}} = EditsOf(M, old, new)
BY GroupsAre DEF EditsOf, EditOf, Starts

\* Where a group is: the numbers of its stop p and of the next one q.
LEMMA GroupIs ==
  ASSUME NEW M, NEW old, NEW new, Paired(M, old, new),
         NEW p \in Stops(M, old, new) \ {LastStop(old, new)}
  PROVE  LET q == Follows(M, old, new, p) IN
         /\ p[1] \in Nat /\ p[2] \in Nat /\ q[1] \in Nat /\ q[2] \in Nat
         /\ p[1] < q[1] /\ p[2] < q[2] /\ q[1] <= Len(old) + 1 /\ q[2] <= Len(new) + 1
         /\ GroupAt(M, old, new, p) = [i1 |-> p[1], i2 |-> q[1] - 1, j1 |-> p[2], j2 |-> q[2] - 1]
         /\ p[1] = Len(old) => p[2] = Len(new)
<1>. DEFINE q == Follows(M, old, new, p)
<1>1. q \in Stops(M, old, new) /\ p[1] < q[1] /\ p[2] < q[2]
  BY FollowsIs
<1>. HIDE DEF q
<1>2. Len(old) \in Nat /\ Len(new) \in Nat /\ Len(old) > 0
  BY LinesAre DEF Paired
<1>3. /\ p[1] \in 0..Len(old) + 1 /\ p[2] \in 0..Len(new) + 1
      /\ p[1] \in 1..Len(old) => (p[1] = Len(old) <=> p[2] = Len(new))
  BY StopsOrdered
<1>4. q[1] \in 0..Len(old) + 1 /\ q[2] \in 0..Len(new) + 1
  BY <1>1, StopsOrdered
<1>5. GroupAt(M, old, new, p) = [i1 |-> p[1], i2 |-> q[1] - 1, j1 |-> p[2], j2 |-> q[2] - 1]
  BY DEF GroupAt, Between, q
<1>6. p[1] = Len(old) => p[2] = Len(new)
  BY <1>2, <1>3
<1>. QED BY <1>1, <1>2, <1>3, <1>4, <1>5, <1>6 DEF q

\* What a group is replaced by: nothing is left of its lines, and what is inserted
\* comes before the next line, which there is.
LEMMA EditOfIs ==
  ASSUME NEW M, NEW old, NEW new, Paired(M, old, new), NEW p \in Starts(M, old, new)
  PROVE  LET q == Follows(M, old, new, p)
             e == EditOf(M, old, new, p)
             t == Part(new, p[2], q[2] - 1)
         IN /\ e \in FullEdit /\ Fits(e, old) /\ e.line <= e.endLine
            /\ e.line = p[1] + 1 /\ e.endLine <= q[1] /\ e.endLine <= Len(old)
            /\ p[1] < q[1] - 1 => e.endLine = q[1] - 1 /\ NewText(e, old) = t
            /\ p[1] = q[1] - 1 => e.endLine = p[1] + 1 /\ NewText(e, old) = Cat(t, old[p[1] + 1])
<1>. DEFINE q  == Follows(M, old, new, p)
            e  == EditOf(M, old, new, p)
            t  == Part(new, p[2], q[2] - 1)
            n  == Len(old)
            i1 == p[1]
            i2 == q[1] - 1
            g  == GroupAt(M, old, new, p)
            r  == Replacement(g, new)
<1>1. /\ i1 \in Nat /\ p[2] \in Nat /\ q[1] \in Nat /\ q[2] \in Nat
      /\ p[1] < q[1] /\ p[2] < q[2] /\ q[1] <= n + 1 /\ q[2] <= Len(new) + 1
      /\ g = [i1 |-> p[1], i2 |-> q[1] - 1, j1 |-> p[2], j2 |-> q[2] - 1]
      /\ p[1] = n => p[2] = Len(new)
  <2>1. p \in Stops(M, old, new) \ {LastStop(old, new)}
    BY DEF Starts
  <2>. QED BY <2>1, GroupIs
<1>2. /\ n \in Nat /\ Len(new) \in Nat /\ old \in Seq(Text) /\ new \in Seq(Text) /\ DOMAIN old = 1..n
      /\ \A k \in 1..n : old[k] \in Text
  BY LinesAre DEF Paired
<1>3. i1 < i2 \/ p[2] < q[2] - 1
  BY <1>1 DEF Starts, Differs
<1>4. r = [line |-> i1 + 1, endLine |-> IF i1 = i2 THEN i2 + 1 ELSE i2,
           col |-> IF i1 = i2 THEN 1 ELSE 0, endCol |-> IF i1 = i2 THEN 1 ELSE 0, text |-> t]
  BY <1>1 DEF Replacement, Part
<1>5. t \in Text
  <2>1. q[2] - 1 \in Nat /\ p[2] <= q[2] - 1 /\ q[2] - 1 <= Len(new)
    BY <1>1, <1>2
  <2>. QED BY <2>1, <1>1, <1>2, PartType
<1>. HIDE DEF g, t
<1>6. e = Normalize(r, old)
  BY DEF EditOf, g
<1>. HIDE DEF e, r, q
<1>7. CASE i1 < i2
  <2>1. i2 \in 1..n /\ i1 + 1 \in 1..n /\ i1 # i2 /\ i2 # 0
    <3>1. i1 \in Nat /\ q[1] \in Nat /\ q[1] <= n + 1 /\ n \in Nat
      BY <1>1, <1>2
    <3>. HIDE DEF i1, n
    <3>2. i2 \in Nat /\ i2 <= n
      BY <3>1, <1>7
    <3>. HIDE DEF i2
    <3>. QED BY <3>1, <3>2, <1>7
  <2>. DEFINE s == old[i2]
  <2>2. s \in Text /\ s \in Seq(Char) /\ Len(s) \in Nat
    BY <2>1, <1>2, LenProperties DEF Text
  <2>3. r = [line |-> i1 + 1, endLine |-> i2, col |-> 0, endCol |-> 0, text |-> t]
    BY <2>1, <1>4
  <2>. HIDE DEF i2
  <2>4. EndLine(r, old) = i2
    BY <2>1, <2>3, <1>1 DEF EndLine
  <2>5. e = [line |-> i1 + 1, col |-> 1, endLine |-> i2, endCol |-> Len(s) + 1, text |-> t]
    BY <2>1, <2>3, <2>4, <1>1, <1>6 DEF Normalize
  <2>6. e \in FullEdit
    <3>. HIDE DEF s
    <3>1. i1 + 1 \in Positive /\ 1 \in Positive /\ i2 \in Positive /\ Len(s) + 1 \in Positive
      <4>1. i1 + 1 \in Nat /\ i1 + 1 > 0
        BY <1>1
      <4>2. Len(s) + 1 \in Nat /\ Len(s) + 1 > 0
        BY <2>2
      <4>3. i2 \in Nat /\ i2 > 0
        <5>. HIDE DEF n
        <5>. QED BY <2>1, <1>2
      <4>. QED BY <4>1, <4>2, <4>3 DEF Positive
    <3>. QED BY <3>1, <2>5, <1>5 DEF FullEdit
  <2>7. Fits(e, old)
    <3>1. Len(old[i1 + 1]) \in Nat
      BY <2>1, <1>2, LenProperties DEF Text
    <3>. QED BY <3>1, <2>1, <2>2, <2>5, <1>2 DEF Fits
  <2>8. Before(e, old) = Nothing /\ After(e, old) = Nothing
    <3>1. SubSeq(old[i1 + 1], 1, 1 - 1) = <<>>
      BY SubSeqEmpty
    <3>2. SubSeq(s, Len(s) + 1, Len(s)) = <<>>
      <4>1. Len(s) + 1 \in Int /\ Len(s) \in Int /\ Len(s) < Len(s) + 1
        BY <2>2
      <4>. QED BY <4>1, SubSeqEmpty
    <3>. QED BY <3>1, <3>2, <2>5 DEF Before, After, Nothing
  <2>9. NewText(e, old) = t
    <3>1. e.text = t
      BY <2>5
    <3>. QED BY <3>1, <2>8, <1>5, CatProperties DEF NewText
  <2>10. e.line = i1 + 1 /\ e.endLine = i2 /\ i1 + 1 <= i2 /\ i2 <= q[1] /\ i2 <= n
    BY <2>1, <2>5, <1>1, <1>2, <1>7 DEF i2
  <2>. QED BY <2>6, <2>7, <2>9, <2>10, <2>1 DEF e, q, t, n, i2
<1>8. CASE ~(i1 < i2)
  <2>1. i1 = i2 /\ i1 + 1 = q[1] /\ p[2] < q[2] - 1
    BY <1>1, <1>3, <1>8
  <2>2. i1 + 1 \in 1..n
    <3>1. i1 # n
      BY <2>1, <1>1, <1>2
    <3>. QED BY <3>1, <2>1, <1>1, <1>2
  <2>. DEFINE s == old[i1 + 1]
  <2>3. s \in Text /\ s \in Seq(Char) /\ Len(s) \in Nat
    BY <2>2, <1>2, LenProperties DEF Text
  <2>4. r = [line |-> i1 + 1, endLine |-> i1 + 1, col |-> 1, endCol |-> 1, text |-> t]
    BY <2>1, <1>4
  <2>. HIDE DEF i2
  <2>5. EndLine(r, old) = i1 + 1
    BY <2>4, <1>1 DEF EndLine
  <2>6. e = [line |-> i1 + 1, col |-> 1, endLine |-> i1 + 1, endCol |-> 1, text |-> t]
    BY <2>4, <2>5, <1>1, <1>6 DEF Normalize
  <2>7. e \in FullEdit
    <3>1. i1 + 1 \in Positive /\ 1 \in Positive
      BY <1>1 DEF Positive
    <3>. QED BY <3>1, <2>6, <1>5 DEF FullEdit
  <2>8. Fits(e, old)
    BY <2>2, <2>3, <2>6, <1>2 DEF Fits
  <2>9. Before(e, old) = Nothing /\ After(e, old) = s
    <3>1. SubSeq(s, 1, 1 - 1) = <<>>
      BY SubSeqEmpty
    <3>2. SubSeq(s, 1, Len(s)) = s
      BY <2>3, SubSeqFull
    <3>. QED BY <3>1, <3>2, <2>6 DEF Before, After, Nothing
  <2>10. NewText(e, old) = Cat(t, s)
    <3>1. e.text = t
      BY <2>6
    <3>. QED BY <3>1, <2>9, <1>5, CatProperties DEF NewText
  <2>11. e.line = i1 + 1 /\ e.endLine = i1 + 1 /\ i1 + 1 <= i1 + 1 /\ i1 + 1 <= n
    BY <2>2, <2>6, <1>1, <1>2
  <2>. QED BY <2>1, <2>7, <2>8, <2>10, <2>11, <1>1 DEF e, q, t, n, i2
<1>. QED BY <1>7, <1>8

\* They share no line.
LEMMA EditsOfGood ==
  ASSUME NEW M, NEW old, NEW new, Paired(M, old, new)
  PROVE  GoodEdits(EditsOf(M, old, new), old)
<1>1. ASSUME NEW d \in EditsOf(M, old, new) PROVE d \in FullEdit /\ Fits(d, old) /\ d.line <= d.endLine
  BY EditOfIs DEF EditsOf
<1>2. ASSUME NEW d \in EditsOf(M, old, new), NEW e \in EditsOf(M, old, new), d # e PROVE ~ShareLine(d, e)
  <2>1. PICK p \in Starts(M, old, new) : d = EditOf(M, old, new, p)
    BY DEF EditsOf
  <2>2. PICK r \in Starts(M, old, new) : e = EditOf(M, old, new, r)
    BY DEF EditsOf
  <2>. DEFINE q == Follows(M, old, new, p)
              s == Follows(M, old, new, r)
  <2>3. /\ p \in Stops(M, old, new) /\ p # LastStop(old, new)
        /\ r \in Stops(M, old, new) /\ r # LastStop(old, new)
    BY DEF Starts
  <2>4. /\ p[1] \in Nat /\ r[1] \in Nat /\ q[1] \in Nat /\ s[1] \in Nat
    BY <2>3, GroupIs
  <2>5. /\ p[1] # r[1]
        /\ r[1] <= p[1] \/ q[1] <= r[1]
        /\ p[1] <= r[1] \/ s[1] <= p[1]
    <3>1. p[1] # r[1]
      BY <1>2, <2>1, <2>2, <2>3, StopsOrdered
    <3>. QED BY <3>1, <2>3, FollowsIs
  <2>6. d.line = p[1] + 1 /\ d.endLine <= q[1] /\ e.line = r[1] + 1 /\ e.endLine <= s[1]
    BY <2>1, <2>2, EditOfIs
  <2>7. d.line \in Nat /\ d.endLine \in Nat /\ e.line \in Nat /\ e.endLine \in Nat
    BY <1>1, EditIs
  <2>. HIDE DEF q, s
  <2>8. CASE p[1] < r[1]
    <3>1. ~(e.line <= d.endLine)
      BY <2>4, <2>5, <2>6, <2>7, <2>8
    <3>. QED BY <3>1 DEF ShareLine
  <2>9. CASE ~(p[1] < r[1])
    <3>1. ~(d.line <= e.endLine)
      BY <2>4, <2>5, <2>6, <2>7, <2>9
    <3>. QED BY <3>1 DEF ShareLine
  <2>. QED BY <2>8, <2>9
<1>. QED BY <1>1, <1>2 DEF GoodEdits

\* After a stop, up to the next, no edit but that of its group.
LEMMA NoOtherEdit ==
  ASSUME NEW M, NEW old, NEW new, Paired(M, old, new),
         NEW p \in Stops(M, old, new) \ {LastStop(old, new)},
         NEW k \in Nat, p[1] < k, k <= Follows(M, old, new, p)[1],
         NEW d \in EditsOf(M, old, new), d.line <= k, k <= d.endLine
  PROVE  p \in Starts(M, old, new) /\ d = EditOf(M, old, new, p)
<1>1. PICK r \in Starts(M, old, new) : d = EditOf(M, old, new, r)
  BY DEF EditsOf
<1>. DEFINE q == Follows(M, old, new, p)
            s == Follows(M, old, new, r)
<1>2. r \in Stops(M, old, new) /\ r # LastStop(old, new)
  BY DEF Starts
<1>3. /\ p[1] \in Nat /\ r[1] \in Nat /\ q[1] \in Nat /\ s[1] \in Nat
  BY <1>2, GroupIs
<1>4. /\ r[1] <= p[1] \/ q[1] <= r[1]
      /\ p[1] <= r[1] \/ s[1] <= p[1]
  BY <1>2, FollowsIs
<1>5. d.line = r[1] + 1 /\ d.endLine <= s[1] /\ d \in FullEdit
  BY <1>1, EditOfIs
<1>6. d.line \in Nat /\ d.endLine \in Nat
  BY <1>5, EditIs
<1>7. r[1] = p[1]
  <2>. HIDE DEF q, s
  <2>1. r[1] <= p[1]
    BY <1>3, <1>4, <1>5, <1>6 DEF q
  <2>2. ~(s[1] <= p[1])
    BY <1>3, <1>5, <1>6
  <2>. QED BY <2>1, <2>2, <1>3, <1>4
<1>8. r = p
  BY <1>2, <1>7, StopsOrdered
<1>. QED BY <1>1, <1>8

\* What becomes of the lines after a stop, up to the next: those of the group are
\* replaced, and the next one is kept.
LEMMA PiecesOf ==
  ASSUME NEW M, NEW old, NEW new, Paired(M, old, new),
         NEW p \in Stops(M, old, new) \ {LastStop(old, new)}
  PROVE  LET q == Follows(M, old, new, p)
             t == Part(new, p[2], q[2] - 1)
             A == AtOnce(EditsOf(M, old, new), old)
         IN /\ p[1] < q[1] - 1 => A[p[1] + 1] = t /\ \A k \in p[1] + 2..q[1] - 1 : A[k] = Nothing
            /\ q[1] <= Len(old) =>
                 A[q[1]] = IF p[1] = q[1] - 1 /\ p[2] < q[2] - 1 THEN Cat(t, old[q[1]]) ELSE old[q[1]]
<1>. DEFINE q == Follows(M, old, new, p)
            t == Part(new, p[2], q[2] - 1)
            n == Len(old)
            S == EditsOf(M, old, new)
            A == AtOnce(S, old)
            e == EditOf(M, old, new, p)
            g == GroupAt(M, old, new, p)
<1>1. /\ p[1] \in Nat /\ p[2] \in Nat /\ q[1] \in Nat /\ q[2] \in Nat
      /\ p[1] < q[1] /\ p[2] < q[2] /\ q[1] <= n + 1
      /\ p \in Starts(M, old, new) <=> p[1] < q[1] - 1 \/ p[2] < q[2] - 1
  <2>1. g = [i1 |-> p[1], i2 |-> q[1] - 1, j1 |-> p[2], j2 |-> q[2] - 1]
    BY GroupIs
  <2>2. p \in Starts(M, old, new) <=> p[1] < q[1] - 1 \/ p[2] < q[2] - 1
    BY <2>1 DEF Starts, Differs
  <2>. QED BY <2>2, GroupIs
<1>2. n \in Nat /\ old \in Seq(Text) /\ \A k \in 1..n : A[k] = PieceOf(S, old, k)
  BY LinesAre DEF Paired, AtOnce
<1>3. ASSUME NEW d \in S PROVE d.line \in Nat /\ d.endLine \in Nat /\ d.line <= d.endLine
  BY <1>3, EditsOfGood, EditIs DEF GoodEdits
<1>4. ASSUME NEW k \in Nat, p[1] < k, k <= q[1], NEW d \in S, d.line <= k, k <= d.endLine
      PROVE  p \in Starts(M, old, new) /\ d = e
  BY <1>4, NoOtherEdit
<1>5. ASSUME p \in Starts(M, old, new)
      PROVE  /\ e \in S /\ e.line = p[1] + 1
             /\ p[1] < q[1] - 1 => e.endLine = q[1] - 1 /\ NewText(e, old) = t
             /\ p[1] = q[1] - 1 => e.endLine = p[1] + 1 /\ NewText(e, old) = Cat(t, old[p[1] + 1])
             /\ \A d \in S : d.line = e.line => d = e
  <2>1. e \in S
    BY <1>5 DEF EditsOf
  <2>2. \A d \in S : d.line = e.line => d = e
    BY <2>1, EditsOfGood, NoCommonStart
  <2>. QED BY <1>5, <2>1, <2>2, EditOfIs
<1>. HIDE DEF q, t, n, S, A, e, g
<1>6. ASSUME p[1] < q[1] - 1
      PROVE  A[p[1] + 1] = t /\ \A k \in p[1] + 2..q[1] - 1 : A[k] = Nothing
  <2>1. p \in Starts(M, old, new) /\ p[1] + 1 \in 1..n
    BY <1>1, <1>2, <1>6
  <2>2. A[p[1] + 1] = t
    <3>1. PieceOf(S, old, e.line) = NewText(e, old)
      BY <1>5, <2>1, PieceStarts
    <3>. QED BY <2>1, <3>1, <1>2, <1>5, <1>6
  <2>3. ASSUME NEW k \in p[1] + 2..q[1] - 1 PROVE A[k] = Nothing
    <3>1. k \in Nat /\ p[1] + 1 < k /\ k <= q[1] - 1 /\ k \in 1..n /\ p[1] < k /\ k <= q[1]
      BY <1>1, <1>2, <2>3
    <3>2. \A d \in S : d.line # k
      <4>. SUFFICES ASSUME NEW d \in S, d.line = k PROVE FALSE
        OBVIOUS
      <4>1. d = e
        BY <3>1, <1>3, <1>4
      <4>. QED BY <4>1, <3>1, <2>1, <1>1, <1>5
    <3>3. e \in S /\ e.line < k /\ k <= e.endLine
      BY <3>1, <2>1, <1>5, <1>6
    <3>4. PieceOf(S, old, k) = Nothing
      BY <3>2, <3>3, PieceCovered
    <3>. QED BY <3>1, <3>4, <1>2
  <2>. QED BY <2>2, <2>3
<1>7. ASSUME q[1] <= n
      PROVE  A[q[1]] = IF p[1] = q[1] - 1 /\ p[2] < q[2] - 1 THEN Cat(t, old[q[1]]) ELSE old[q[1]]
  <2>1. q[1] \in 1..n /\ q[1] \in Nat /\ p[1] < q[1] /\ q[1] <= q[1]
    BY <1>1, <1>2, <1>7
  <2>2. CASE p[1] = q[1] - 1 /\ p[2] < q[2] - 1
    <3>1. p \in Starts(M, old, new) /\ p[1] + 1 = q[1]
      BY <1>1, <2>2
    <3>2. PieceOf(S, old, e.line) = NewText(e, old)
      BY <1>5, <3>1, PieceStarts
    <3>. QED BY <2>1, <2>2, <3>1, <3>2, <1>2, <1>5
  <2>3. CASE ~(p[1] = q[1] - 1 /\ p[2] < q[2] - 1)
    <3>1. ASSUME NEW d \in S PROVE d.line # q[1] /\ ~(d.line < q[1] /\ q[1] <= d.endLine)
      <4>. SUFFICES ASSUME d.line <= q[1], q[1] <= d.endLine PROVE FALSE
        BY <1>3, <2>1
      <4>1. p \in Starts(M, old, new) /\ d = e
        BY <2>1, <1>4
      <4>2. p[1] < q[1] - 1
        BY <4>1, <2>3, <1>1
      <4>. QED BY <4>1, <4>2, <1>1, <1>5
    <3>2. PieceOf(S, old, q[1]) = old[q[1]]
      BY <3>1, PieceKept
    <3>. QED BY <2>1, <2>3, <3>2, <1>2
  <2>. QED BY <2>2, <2>3
<1>. QED BY <1>6, <1>7 DEF q, t, n, S, A

\* The same, in numbers: a group from i to a - 1 that is replaced by the lines
\* from j to b - 1 of the new text, and the next lines, which are equal.
Stretch(old, new, A, i, j, a, b) ==
  /\ i < a - 1 => A[i + 1] = Part(new, j, b - 1) /\ \A k \in i + 2..a - 1 : A[k] = Nothing
  /\ a <= Len(old) =>
       A[a] = IF i = a - 1 /\ j < b - 1 THEN Cat(Part(new, j, b - 1), old[a]) ELSE old[a]
  /\ a <= Len(old) => b <= Len(new) /\ old[a] = new[b]
  /\ a > Len(old) => b = Len(new) + 1

SameStretch(old, new, A, i, j, a, b) ==
  IF a <= Len(old) THEN Part(A, i, a) = Part(new, j, b)
  ELSE Part(A, i, Len(old)) = Part(new, j, Len(new))

LEMMA StretchMakes ==
  ASSUME NEW old \in Seq(Text), NEW new \in Seq(Text), NEW A \in Seq(Text), Len(A) = Len(old),
         NEW i \in Nat, NEW j \in Nat, NEW a \in Nat, NEW b \in Nat,
         i < a, j < b, a <= Len(old) + 1, b <= Len(new) + 1,
         i = Len(old) => j = Len(new),
         Stretch(old, new, A, i, j, a, b)
  PROVE  SameStretch(old, new, A, i, j, a, b)
<1>. DEFINE t == Part(new, j, b - 1)
<1>. USE DEF Stretch, SameStretch
<1>1. Len(old) \in Nat /\ Len(new) \in Nat /\ \A k \in 1..Len(old) : old[k] \in Text
  BY LinesAre
<1>2. PICK u \in Nat, v \in Nat : u + 1 = a /\ v + 1 = b /\ u = a - 1 /\ v = b - 1
  <2>1. a - 1 \in Nat /\ b - 1 \in Nat /\ (a - 1) + 1 = a /\ (b - 1) + 1 = b
    OBVIOUS
  <2>. QED BY <2>1
<1>3. i <= u /\ j <= v /\ u <= Len(old) /\ v <= Len(new) /\ u <= Len(A)
  BY <1>1, <1>2
<1>4. t \in Text /\ t = Part(new, j, v)
  <2>1. Part(new, j, v) \in Text
    BY <1>3, PartType
  <2>. QED BY <2>1, <1>2
<1>. HIDE DEF t
<1>5. ASSUME i < u PROVE Part(A, i, u) = t
  <2>1. A[i + 1] = t /\ \A k \in (i + 1) + 1..u : A[k] = Nothing
    <3>1. i < a - 1 /\ u = a - 1 /\ (i + 1) + 1 = i + 2
      BY <1>2, <1>5
    <3>2. A[i + 1] = t /\ \A k \in i + 2..a - 1 : A[k] = Nothing
      BY <3>1 DEF t
    <3>. QED BY <3>1, <3>2
  <2>2. Part(A, i, u) = Cat(Part(A, i, i + 1), Part(A, i + 1, u))
    BY <1>3, <1>5, PartSplit
  <2>3. Part(A, i, i + 1) = t
    <3>1. i < Len(A)
      BY <1>1, <1>3, <1>5
    <3>. QED BY <2>1, <3>1, PartOne
  <2>4. Part(A, i + 1, u) = Nothing
    <3>1. i + 1 \in Nat /\ i + 1 <= u /\ u <= Len(A)
      BY <1>3, <1>5
    <3>. DEFINE h == i + 1
    <3>2. h \in Nat /\ h <= u /\ \A k \in h + 1..u : A[k] = Nothing
      BY <2>1, <3>1
    <3>. HIDE DEF h
    <3>3. Part(A, h, u) = Nothing
      BY <3>1, <3>2, PartNone
    <3>. QED BY <3>3 DEF h
  <2>. QED BY <2>2, <2>3, <2>4, <1>4, CatProperties
<1>6. CASE a <= Len(old)
  <2>1. u < Len(A) /\ v < Len(new) /\ a \in 1..Len(old) /\ b <= Len(new) /\ old[a] = new[b]
        /\ u <= a /\ v <= b /\ a <= Len(A)
    BY <1>1, <1>2, <1>6
  <2>2. Part(A, u, a) = A[a] /\ Part(new, v, b) = old[a] /\ old[a] \in Text
    <3>1. Part(A, u, u + 1) = A[u + 1]
      BY <2>1, PartOne
    <3>2. Part(new, v, v + 1) = new[v + 1]
      BY <2>1, PartOne
    <3>. QED BY <2>1, <3>1, <3>2, <1>1, <1>2
  <2>3. Part(new, j, b) = Cat(t, old[a])
    <3>1. Part(new, j, b) = Cat(Part(new, j, v), Part(new, v, b))
      BY <2>1, <1>3, PartSplit
    <3>. QED BY <2>2, <3>1, <1>4
  <2>4. CASE i < u
    <3>1. A[a] = old[a]
      BY <2>4, <1>2, <1>6
    <3>2. Part(A, i, a) = Cat(Part(A, i, u), Part(A, u, a))
      BY <2>1, <1>3, PartSplit
    <3>. QED BY <2>2, <2>3, <2>4, <3>1, <3>2, <1>5, <1>6
  <2>5. CASE i = u /\ j < v
    <3>1. A[a] = Cat(t, old[a])
      BY <2>5, <1>2, <1>6 DEF t
    <3>. QED BY <2>2, <2>3, <2>5, <3>1, <1>6
  <2>6. CASE i = u /\ j = v
    <3>1. A[a] = old[a]
      BY <2>6, <1>2, <1>6
    <3>. QED BY <2>2, <2>6, <3>1, <1>6
  <2>. QED BY <2>4, <2>5, <2>6, <1>3
<1>7. CASE ~(a <= Len(old))
  <2>1. u = Len(old) /\ v = Len(new)
    BY <1>1, <1>2, <1>7
  <2>2. CASE i < u
    BY <2>1, <2>2, <1>4, <1>5, <1>7
  <2>3. CASE i = u
    <3>1. i = Len(old) /\ j = Len(new)
      BY <2>1, <2>3
    <3>2. Part(A, i, i) = Join(<<>>) /\ Part(new, j, j) = Join(<<>>)
      BY PartEmpty
    <3>. QED BY <3>1, <3>2, <1>7
  <2>. QED BY <2>2, <2>3, <1>3
<1>. QED BY <1>6, <1>7

\* From a stop to the next, the edits make what is there in the new text.
LEMMA StretchIs ==
  ASSUME NEW M, NEW old, NEW new, Paired(M, old, new),
         NEW p \in Stops(M, old, new) \ {LastStop(old, new)}
  PROVE  LET q == Follows(M, old, new, p)
             A == AtOnce(EditsOf(M, old, new), old)
         IN IF q[1] <= Len(old) THEN Part(A, p[1], q[1]) = Part(new, p[2], q[2])
            ELSE Part(A, p[1], Len(old)) = Part(new, p[2], Len(new))
<1>. DEFINE q == Follows(M, old, new, p)
            A == AtOnce(EditsOf(M, old, new), old)
            t == Part(new, p[2], q[2] - 1)
<1>1. /\ p[1] \in Nat /\ p[2] \in Nat /\ q[1] \in Nat /\ q[2] \in Nat
      /\ p[1] < q[1] /\ p[2] < q[2] /\ q[1] <= Len(old) + 1 /\ q[2] <= Len(new) + 1
      /\ p[1] = Len(old) => p[2] = Len(new)
  BY GroupIs
<1>2. Len(old) \in Nat /\ Len(new) \in Nat /\ old \in Seq(Text) /\ new \in Seq(Text)
  BY LinesAre DEF Paired
<1>3. A \in Seq(Text) /\ Len(A) = Len(old)
  BY <1>2, EditsOfGood, AtOnceType
<1>4. /\ p[1] < q[1] - 1 => A[p[1] + 1] = t /\ \A k \in p[1] + 2..q[1] - 1 : A[k] = Nothing
      /\ q[1] <= Len(old) => A[q[1]] = IF p[1] = q[1] - 1 /\ p[2] < q[2] - 1 THEN Cat(t, old[q[1]]) ELSE old[q[1]]
  BY PiecesOf
<1>5. q \in Stops(M, old, new)
  BY FollowsIs
<1>. HIDE DEF q, A
<1>6. /\ q[1] <= Len(old) => q[2] <= Len(new) /\ old[q[1]] = new[q[2]]
      /\ q[1] > Len(old) => q[2] = Len(new) + 1
  <2>1. /\ q[1] \in 1..Len(old) => q[2] \in 1..Len(new) /\ old[q[1]] = new[q[2]]
        /\ q[1] = Len(old) + 1 => q[2] = Len(new) + 1
    BY <1>5, StopsOrdered
  <2>. QED BY <2>1, <1>1, <1>2
<1>. DEFINE i == p[1]
            j == p[2]
            a == q[1]
            b == q[2]
<1>7. /\ i \in Nat /\ j \in Nat /\ a \in Nat /\ b \in Nat
      /\ i < a /\ j < b /\ a <= Len(old) + 1 /\ b <= Len(new) + 1
      /\ i = Len(old) => j = Len(new)
      /\ Stretch(old, new, A, i, j, a, b)
  BY <1>1, <1>4, <1>6 DEF Stretch
<1>. HIDE DEF i, j, a, b
<1>8. SameStretch(old, new, A, i, j, a, b)
  BY <1>2, <1>3, <1>7, StretchMakes
<1>. QED BY <1>8 DEF SameStretch, i, j, a, b, q, A

\* All of the edits that the difference of two texts is split into make the new text
\* of the old one, whichever lines difflib pairs (sarif.go: splitReplacement).
THEOREM EditsMakeNew ==
  ASSUME NEW M, NEW old, NEW new, Paired(M, old, new)
  PROVE  AllAtOnce(EditsOf(M, old, new), old) = Join(new)
<1>. DEFINE n  == Len(old)
            A  == AtOnce(EditsOf(M, old, new), old)
            St == Stops(M, old, new)
            f  == LastStop(old, new)
            T  == {i \in Nat : \A p \in St : p[1] <= i /\ p[1] <= n => Part(A, 0, p[1]) = Part(new, 0, p[2])}
<1>1. /\ n \in Nat /\ Len(new) \in Nat /\ old \in Seq(Text) /\ new \in Seq(Text)
  BY LinesAre DEF Paired
<1>2. A \in Seq(Text) /\ Len(A) = n
  BY <1>1, EditsOfGood, AtOnceType
<1>3. \A p \in St : /\ p[1] \in Nat /\ p[2] \in Nat /\ p[1] <= n + 1 /\ p[2] <= Len(new) + 1
                    /\ (p[1] = 0 => p[2] = 0) /\ (p[1] <= n => p[2] <= Len(new))
  <2>. SUFFICES ASSUME NEW p \in St
                PROVE  /\ p[1] \in Nat /\ p[2] \in Nat /\ p[1] <= n + 1 /\ p[2] <= Len(new) + 1
                       /\ (p[1] = 0 => p[2] = 0) /\ (p[1] <= n => p[2] <= Len(new))
    OBVIOUS
  <2>1. p[1] \in 0..n + 1 /\ p[2] \in 0..Len(new) + 1 /\ (p[1] = 0 => p[2] = 0)
        /\ (p[1] \in 1..n => p[2] \in 1..Len(new))
    BY StopsOrdered
  <2>. QED BY <2>1, <1>1
<1>4. ASSUME NEW p \in St, p # f
      PROVE  LET q == Follows(M, old, new, p) IN
             IF q[1] <= n THEN Part(A, p[1], q[1]) = Part(new, p[2], q[2])
             ELSE Part(A, p[1], n) = Part(new, p[2], Len(new))
  BY <1>4, StretchIs
<1>5. ASSUME NEW p \in St, p[1] > 0
      PROVE  \E q \in St : q[1] < p[1] /\ q # f /\ Follows(M, old, new, q) = p
  BY <1>5, PrecedesIs
<1>6. ASSUME NEW p \in St, NEW q \in St, p[1] < q[1] PROVE p[2] < q[2]
  BY <1>6, StopsOrdered
<1>. HIDE DEF n, A, St, f
<1>7. Part(A, 0, 0) = Part(new, 0, 0)
  BY PartEmpty
<1>8. 0 \in T
  <2>. SUFFICES ASSUME NEW p \in St, p[1] <= 0 PROVE Part(A, 0, p[1]) = Part(new, 0, p[2])
    OBVIOUS
  <2>1. p[1] = 0 /\ p[2] = 0
    BY <1>3
  <2>. QED BY <2>1, <1>7
<1>9. ASSUME NEW i \in Nat, i \in T PROVE i + 1 \in T
  <2>. SUFFICES ASSUME NEW p \in St, p[1] <= i + 1, p[1] <= n PROVE Part(A, 0, p[1]) = Part(new, 0, p[2])
    OBVIOUS
  <2>1. CASE p[1] = 0
    BY <2>1, <1>3, <1>7
  <2>2. CASE p[1] # 0
    <3>1. p[1] > 0
      BY <2>2, <1>3
    <3>2. PICK q \in St : q[1] < p[1] /\ q # f /\ Follows(M, old, new, q) = p
      BY <3>1, <1>5
    <3>3. /\ q[1] \in Nat /\ q[2] \in Nat /\ p[1] \in Nat /\ p[2] \in Nat
          /\ q[1] <= i /\ q[1] <= n /\ p[2] <= Len(new) /\ q[2] <= p[2]
      BY <3>2, <1>1, <1>3, <1>6
    <3>4. Part(A, 0, q[1]) = Part(new, 0, q[2])
      BY <3>3, <1>9
    <3>5. Part(A, q[1], p[1]) = Part(new, q[2], p[2])
      BY <3>2, <1>4
    <3>. DEFINE a == q[1]
                b == p[1]
                c == q[2]
                d == p[2]
    <3>6. /\ a \in Nat /\ b \in Nat /\ c \in Nat /\ d \in Nat /\ 0 <= a /\ a <= b /\ b <= Len(A)
          /\ 0 <= c /\ c <= d /\ d <= Len(new)
      BY <3>2, <3>3, <1>2
    <3>7. Part(A, 0, a) = Part(new, 0, c) /\ Part(A, a, b) = Part(new, c, d)
      BY <3>4, <3>5
    <3>. HIDE DEF a, b, c, d
    <3>8. Part(A, 0, b) = Cat(Part(A, 0, a), Part(A, a, b))
      BY <3>6, <1>2, PartSplit
    <3>9. Part(new, 0, d) = Cat(Part(new, 0, c), Part(new, c, d))
      BY <3>6, <1>1, PartSplit
    <3>. QED BY <3>7, <3>8, <3>9 DEF b, d
  <2>. QED BY <2>1, <2>2
<1>. HIDE DEF T
<1>10. Nat \subseteq T
  BY <1>8, <1>9, SetInduction
<1>11. f \in St /\ f[1] = n + 1
  BY DEF f, St, n, LastStop, Stops
<1>12. PICK q \in St : q[1] < f[1] /\ q # f /\ Follows(M, old, new, q) = f
  BY <1>1, <1>5, <1>11
<1>. DEFINE a == q[1]
            c == q[2]
            m == Len(new)
<1>13. /\ a \in Nat /\ c \in Nat /\ m \in Nat /\ 0 <= a /\ a <= n /\ n <= Len(A) /\ 0 <= c /\ c <= m /\ m <= Len(new)
  BY <1>1, <1>2, <1>3, <1>11, <1>12
<1>14. Part(A, 0, a) = Part(new, 0, c)
  <2>1. a \in T
    BY <1>10, <1>13
  <2>2. a <= a
    BY <1>13
  <2>. QED BY <2>1, <2>2, <1>13 DEF T
<1>15. Part(A, a, n) = Part(new, c, m)
  <2>1. ~(f[1] <= n)
    BY <1>1, <1>11
  <2>. QED BY <2>1, <1>4, <1>12
<1>16. Part(A, 0, n) = Cat(Part(A, 0, a), Part(A, a, n))
  <2>. HIDE DEF a, c, m
  <2>. QED BY <1>1, <1>2, <1>13, PartSplit
<1>17. Part(new, 0, m) = Cat(Part(new, 0, c), Part(new, c, m))
  <2>. HIDE DEF a, c, m
  <2>. QED BY <1>1, <1>13, PartSplit
<1>18. Join(A) = Join(new)
  <2>1. Part(A, 0, Len(A)) = Join(A) /\ Part(new, 0, Len(new)) = Join(new)
    BY <1>1, <1>2, PartAll
  <2>. QED BY <2>1, <1>2, <1>14, <1>15, <1>16, <1>17
<1>. QED BY <1>18, AllAtOnceJoins DEF A

\* What a file that could not be read is replaced by is the new text, too.
LEMMA WholeMakesNew ==
  ASSUME NEW old \in Seq(Text), Len(old) > 0, NEW new \in Text, NEW e,
         e = [line |-> 0, col |-> 0, endLine |-> 0, endCol |-> 0, text |-> new]
  PROVE  AllAtOnce({Normalize(e, old)}, old) = new
<1>. DEFINE n == Len(old)
            s == old[n]
            d == Normalize(e, old)
            A == AtOnce({d}, old)
<1>1. n \in Nat /\ n > 0 /\ DOMAIN old = 1..n /\ n \in 1..n /\ 1 \in 1..n /\ \A k \in 1..n : old[k] \in Text
  BY LinesAre
<1>2. s \in Text /\ s \in Seq(Char) /\ Len(s) \in Nat /\ old[1] \in Text
  <2>1. s \in Text /\ old[1] \in Text
    BY <1>1
  <2>. QED BY <2>1, LenProperties DEF Text
<1>3. d = [line |-> 1, col |-> 1, endLine |-> n, endCol |-> Len(s) + 1, text |-> new]
  BY DEF Normalize, EndLine
<1>. HIDE DEF d, s, n
<1>4. d \in FullEdit
  <2>1. 1 \in Positive /\ n \in Positive /\ Len(s) + 1 \in Positive
    BY <1>1, <1>2 DEF Positive
  <2>. QED BY <2>1, <1>3 DEF FullEdit
<1>5. Fits(d, old)
  <2>1. Len(old[1]) \in Nat
    BY <1>2, LenProperties DEF Text
  <2>. QED BY <2>1, <1>1, <1>2, <1>3 DEF Fits, s
<1>6. NewText(d, old) = new
  <2>1. SubSeq(old[1], 1, 1 - 1) = <<>>
    BY SubSeqEmpty
  <2>2. SubSeq(s, Len(s) + 1, Len(s)) = <<>>
    <3>1. Len(s) + 1 \in Int /\ Len(s) \in Int /\ Len(s) < Len(s) + 1
      BY <1>2
    <3>. QED BY <3>1, SubSeqEmpty
  <2>3. Before(d, old) = Nothing /\ After(d, old) = Nothing /\ d.text = new
    BY <2>1, <2>2, <1>3 DEF Before, After, Nothing, s
  <2>. QED BY <2>3, CatProperties DEF NewText
<1>7. GoodEdits({d}, old)
  <2>1. d.line <= d.endLine
    BY <1>1, <1>3
  <2>. QED BY <2>1, <1>4, <1>5 DEF GoodEdits
<1>8. A \in Seq(Text) /\ Len(A) = n /\ \A k \in 1..n : A[k] = PieceOf({d}, old, k)
  BY <1>1, <1>7, AtOnceType DEF AtOnce, n
<1>9. A[1] = new
  <2>1. PieceOf({d}, old, d.line) = NewText(d, old)
    BY PieceStarts
  <2>. QED BY <2>1, <1>1, <1>3, <1>6, <1>8
<1>10. ASSUME NEW k \in 2..n PROVE A[k] = Nothing
  <2>1. k \in 1..n /\ d.line # k /\ d.line < k /\ k <= d.endLine
    BY <1>1, <1>3
  <2>2. PieceOf({d}, old, k) = Nothing
    BY <2>1, PieceCovered
  <2>. QED BY <2>1, <2>2, <1>8
<1>. HIDE DEF A
<1>11. Part(A, 0, 1) = new
  <2>1. 0 < Len(A) /\ 0 + 1 = 1
    BY <1>1, <1>8
  <2>. QED BY <2>1, <1>8, <1>9, PartOne
<1>12. Part(A, 1, n) = Nothing
  <2>1. \A k \in 1 + 1..n : A[k] = Nothing
    BY <1>10
  <2>. QED BY <2>1, <1>1, <1>8, PartNone
<1>13. Part(A, 0, n) = Cat(Part(A, 0, 1), Part(A, 1, n))
  BY <1>1, <1>8, PartSplit
<1>14. Join(A) = new
  <2>1. Part(A, 0, Len(A)) = Join(A)
    BY <1>8, PartAll
  <2>2. Cat(new, Nothing) = new
    BY CatProperties
  <2>. QED BY <2>1, <2>2, <1>8, <1>11, <1>12, <1>13
<1>. QED BY <1>14, AllAtOnceJoins DEF A, d
=============================================================================

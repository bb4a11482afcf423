--------------------------- MODULE UploaderProofs ---------------------------
(***************************************************************************)
(* What ResultUploader does to the result of a check, for any number of    *)
(* checks, findings and names, and any sizes of the channel and of a       *)
(* batch: the invariant, and that its steps keep it.  ReportersProofs has  *)
(* the theorems, since module Reporters makes the calls.                   *)
(***************************************************************************)
EXTENDS ResultUploader, FiniteSetTheorems, SequenceTheorems, TLAPS

CheckCall ==
  \E c \in Check : \/ EmitBegins(c) \/ EmitEnds(c) \/ CompleteBegins(c) \/ CompleteMarks(c)
                   \/ CompleteSends(c) \/ Suppressed(c)

UploaderNext == CheckCall \/ Upload \/ Send \/ CloseChannel \/ CloseReturns

Result ==
  [name : Name, by : SUBSET Check, summary : Seq(Piece), artifacts : SUBSET Finding, tagged : BOOLEAN]

\* The places where a result that was completed can be, besides the requests.
Channel == [i \in DOMAIN doneChecks |-> heap[doneChecks[i]]]
Batch   == [i \in DOMAIN requests |-> heap[requests[i]]]

\* Where the result that c completed occurs in a sequence of results.
Times(q, c) == {i \in DOMAIN q : c \in q[i].by}
Has(q, c)  == Times(q, c) # {}
Once(q, c) == \A i, j \in Times(q, c) : i = j

\* What c completed there is the result v.
Only(q, c, v) == \A i \in Times(q, c) : q[i] = v

Own(c) == \A d \in Check \ {c} : name[d] # name[c]

MoreTypes ==
  /\ UploaderTypeOK
  /\ heap \in Seq(Result)
  /\ delivered \in Seq(Result)
  /\ \A b \in posted : b.results \in Seq(Result) /\ Len(b.results) \in 1..MaxBatch
  /\ Len(requests) <= MaxBatch

\* The calls that were begun; each made at most one result.
Begun(c)   == emitted[c] + IF pc[c] \in {"emit", "complete", "send", "completed"} THEN 1 ELSE 0
BegunCalls == {x \in Check \X (1..(MaxFindings + 1)) : x[2] <= Begun(x[1])}

\* Results and live results have the name they were made for, and only the
\* check whose call uses a result may complete it.
RefInv(c) ==
  /\ pc[c] \in {"emit", "complete", "send", "completed"} \/ emitted[c] > 0 => ref[c] # 0
  /\ ref[c] # 0 => ref[c] \in DOMAIN heap /\ heap[ref[c]].name = name[c]
  /\ pc[c] = "emit" => emitted[c] < MaxFindings
  /\ pc[c] \in {"send", "completed"} => c \in heap[ref[c]].by

\* The result is in the channel or in the batch.
InBox(a) == (\E i \in DOMAIN doneChecks : doneChecks[i] = a) \/ (\E i \in DOMAIN requests : requests[i] = a)

HeapInv ==
  /\ Len(heap) <= Cardinality(BegunCalls)
  /\ \A c \in Check : RefInv(c)
  /\ \A n \in Name : live[n] # 0 => heap[live[n]].name = n
  /\ \A a \in DOMAIN heap : \A c \in heap[a].by :
       name[c] = heap[a].name /\ ref[c] = a /\ pc[c] \in {"send", "completed"}
  /\ \A a \in DOMAIN heap : InBox(a) => \E c \in heap[a].by : pc[c] = "completed"

\* A result with all that c emitted, and as it is once c has completed it.
AllAdded(result, c) ==
  /\ result.artifacts = ArtifactsOf(c)
  /\ InOrder(result.summary, Len(result.summary), FindingsOf(c))
  /\ ShowsAll(result.summary, Len(result.summary), FindingsOf(c))
  /\ result.tagged => Tags(c)

CutToSize(result, c) ==
  /\ result.artifacts = ArtifactsOf(c)
  /\ SummaryOf(result.summary, FindingsOf(c), Tags(c))

Holds(a, c) ==
  IF pc[c] \in {"send", "completed"} THEN CutToSize(heap[a], c) ELSE AllAdded(heap[a], c)

\* A check whose name is its own has one result, with all it emitted.
OwnResult(c) ==
  \A a \in DOMAIN heap : heap[a].name = name[c] =>
    /\ a = ref[c]
    /\ pc[c] \notin {"send", "completed"} => live[name[c]] = a
    /\ Holds(a, c)

\* ... which is in one place, once, and final when it is marshalled.
InOnePlace(c) ==
  /\ Once(Channel, c) /\ Once(Batch, c) /\ Once(delivered, c)
  /\ \A b \in posted : Once(b.results, c)
  /\ Has(Channel, c) => ~Has(Batch, c) /\ ~Has(delivered, c) /\ \A b \in posted : ~Has(b.results, c)
  /\ Has(Batch, c) => ~Has(delivered, c) /\ \A b \in posted : ~Has(b.results, c)
  /\ Has(delivered, c) => \A b \in posted : ~Has(b.results, c)
  /\ \A b1, b2 \in posted : Has(b1.results, c) /\ Has(b2.results, c) => b1 = b2

Final(c) ==
  /\ \A i \in Times(delivered, c) : pc[c] = "completed" /\ delivered[i] = heap[ref[c]]
  /\ \A b \in posted : \A i \in Times(b.results, c) :
       pc[c] = "completed" /\ b.results[i] = heap[ref[c]]

OwnInv == \A c \in Check : Own(c) => OwnResult(c) /\ InOnePlace(c) /\ Final(c)

\* No result of a completed check is lost without a failure.
KeptInv ==
  \A c \in Check : pc[c] = "completed" /\ ~failed =>
    Has(Channel, c) \/ Has(Batch, c) \/ Has(delivered, c) \/ \E b \in posted : Has(b.results, c)

ClosingInv ==
  /\ closing # "no" => \A c \in Check : pc[c] \in {"completed", "suppressed"}
  /\ up = "gone" => closing # "no" /\ doneChecks = <<>> /\ requests = <<>>
  /\ closing \in {"ok", "error"} => up = "gone" /\ posted = {}
  /\ closing = "ok" => ~failed

UploaderInv == MoreTypes /\ HeapInv /\ OwnInv /\ KeptInv /\ ClosingInv

-----------------------------------------------------------------------------
(* Sequences of results                                                    *)

LEMMA EmptyHas == ASSUME NEW c PROVE ~Has(<<>>, c) /\ Once(<<>>, c)
BY DEF Has, Once, Times

LEMMA AppendHas ==
  ASSUME NEW S, NEW q \in Seq(S), NEW r \in S, NEW c
  PROVE  /\ Has(Append(q, r), c) <=> Has(q, c) \/ c \in r.by
         /\ Once(q, c) /\ ~(Has(q, c) /\ c \in r.by) => Once(Append(q, r), c)
<1>1. /\ Len(q) \in Nat /\ DOMAIN q = 1..Len(q) /\ DOMAIN Append(q, r) = 1..(Len(q) + 1)
      /\ \A i \in 1..Len(q) : Append(q, r)[i] = q[i]
      /\ Append(q, r)[Len(q) + 1] = r
  BY AppendProperties
<1>2. Times(Append(q, r), c) = Times(q, c) \cup (IF c \in r.by THEN {Len(q) + 1} ELSE {})
  BY <1>1 DEF Times
<1>. QED BY <1>2 DEF Has, Once

LEMMA TailHas ==
  ASSUME NEW S, NEW q \in Seq(S), q # <<>>, NEW c
  PROVE  /\ Has(q, c) <=> Has(Tail(q), c) \/ c \in Head(q).by
         /\ Once(q, c) => Once(Tail(q), c) /\ ~(Has(Tail(q), c) /\ c \in Head(q).by)
<1>1. /\ Len(q) \in Nat \ {0} /\ DOMAIN q = 1..Len(q) /\ DOMAIN Tail(q) = 1..(Len(q) - 1)
      /\ \A i \in 1..(Len(q) - 1) : Tail(q)[i] = q[i + 1]
      /\ Head(q) = q[1]
  BY HeadTailProperties
<1>2. \A i \in Times(Tail(q), c) : i + 1 \in Times(q, c) /\ i \in Nat /\ i + 1 # 1
  BY <1>1 DEF Times
<1>3. c \in Head(q).by <=> 1 \in Times(q, c)
  BY <1>1 DEF Times
<1>4. ASSUME NEW i \in Times(q, c), i # 1 PROVE i - 1 \in Times(Tail(q), c)
  BY <1>1, <1>4 DEF Times
<1>5. Has(q, c) <=> Has(Tail(q), c) \/ c \in Head(q).by
  BY <1>2, <1>3, <1>4 DEF Has
<1>6. ASSUME Once(q, c) PROVE Once(Tail(q), c) /\ ~(Has(Tail(q), c) /\ c \in Head(q).by)
  <2>1. ASSUME NEW i \in Times(Tail(q), c), NEW j \in Times(Tail(q), c) PROVE i = j
    <3>1. i + 1 = j + 1 /\ i \in Nat /\ j \in Nat
      BY <1>2, <1>6 DEF Once
    <3>. QED BY <3>1
  <2>2. ASSUME NEW i \in Times(Tail(q), c), c \in Head(q).by PROVE FALSE
    BY <1>2, <1>3, <1>6, <2>2 DEF Once
  <2>. QED BY <2>1, <2>2 DEF Once, Has
<1>. QED BY <1>5, <1>6

LEMMA ConcatHas ==
  ASSUME NEW S, NEW q \in Seq(S), NEW r \in Seq(S), NEW s, s = q \o r, NEW c, NEW v
  PROVE  /\ Has(s, c) <=> Has(q, c) \/ Has(r, c)
         /\ Once(q, c) /\ Once(r, c) /\ ~(Has(q, c) /\ Has(r, c)) => Once(s, c)
         /\ Only(q, c, v) /\ Only(r, c, v) => Only(s, c, v)
<1>1. /\ Len(q) \in Nat /\ Len(r) \in Nat /\ DOMAIN q = 1..Len(q) /\ DOMAIN r = 1..Len(r)
      /\ DOMAIN s = 1..(Len(q) + Len(r))
      /\ \A i \in 1..(Len(q) + Len(r)) : s[i] = IF i <= Len(q) THEN q[i] ELSE r[i - Len(q)]
  BY ConcatProperties
<1>2. ASSUME NEW i \in Times(s, c)
      PROVE  \/ i \in Times(q, c) /\ s[i] = q[i] /\ i <= Len(q)
             \/ i - Len(q) \in Times(r, c) /\ s[i] = r[i - Len(q)] /\ i > Len(q)
  BY <1>1 DEF Times
<1>3. ASSUME NEW i \in Times(q, c) PROVE i \in Times(s, c)
  BY <1>1 DEF Times
<1>4. ASSUME NEW j \in Times(r, c) PROVE j + Len(q) \in Times(s, c)
  <2>1. j \in 1..Len(r) /\ c \in r[j].by
    BY <1>1 DEF Times
  <2>2. j + Len(q) \in 1..(Len(q) + Len(r)) /\ ~(j + Len(q) <= Len(q)) /\ (j + Len(q)) - Len(q) = j
    BY <1>1, <2>1
  <2>. QED BY <1>1, <2>1, <2>2 DEF Times
<1>5. Has(s, c) <=> Has(q, c) \/ Has(r, c)
  BY <1>2, <1>3, <1>4 DEF Has
<1>6. ASSUME Once(q, c), Once(r, c), ~(Has(q, c) /\ Has(r, c)) PROVE Once(s, c)
  <2>1. \A i \in Times(s, c) : i \in Int
    BY <1>1 DEF Times
  <2>2. ASSUME NEW i \in Times(s, c), NEW j \in Times(s, c) PROVE i = j
    BY <1>1, <1>2, <1>6, <2>1 DEF Once, Has
  <2>. QED BY <2>2 DEF Once
<1>7. ASSUME Only(q, c, v), Only(r, c, v) PROVE Only(s, c, v)
  BY <1>2, <1>7 DEF Only
<1>. QED BY <1>5, <1>6, <1>7

-----------------------------------------------------------------------------
(* Results are made by calls                                               *)

LEMMA CallsBounded ==
  ASSUME NEW B \in SUBSET (Check \X (1..(MaxFindings + 1)))
  PROVE  /\ IsFiniteSet(B) /\ Cardinality(B) \in Nat
         /\ Cardinality(B) <= Cardinality(Address)
         /\ \E m \in Nat : Address = 1..m /\ m = Cardinality(Address)
<1>1. IsFiniteSet(Check) /\ MaxFindings \in Nat /\ MaxFindings + 1 \in Nat
  BY UploaderAssumption
<1>2. IsFiniteSet(1..(MaxFindings + 1)) /\ Cardinality(1..(MaxFindings + 1)) = MaxFindings + 1
  BY <1>1, FS_Interval
<1>3. /\ IsFiniteSet(Check \X (1..(MaxFindings + 1)))
      /\ Cardinality(Check \X (1..(MaxFindings + 1))) = Cardinality(Check) * (MaxFindings + 1)
  BY <1>1, <1>2, FS_Product
<1>4. PICK m \in Nat : m = Cardinality(Check) * (MaxFindings + 1)
  BY <1>3, FS_CardinalityType
<1>5. Address = 1..m /\ Cardinality(1..m) = m
  BY <1>4, FS_Interval DEF Address
<1>. QED BY <1>3, <1>4, <1>5, FS_Subset, FS_CardinalityType

\* The result that a call gets.
LEMMA GotResult ==
  ASSUME MoreTypes, HeapInv, NEW c \in Check, GetTestResult(c)
  PROVE  \E a \in 1..(Len(heap) + 1) :
           /\ ref' = [ref EXCEPT ![c] = a]
           /\ \/ /\ a \in DOMAIN heap /\ a = live[name[c]] /\ heap[a].name = name[c]
                 /\ UNCHANGED <<live, heap>>
              \/ /\ a = Len(heap) + 1 /\ live[name[c]] = 0
                 /\ heap' = Append(heap, NewResult(name[c]))
                 /\ live' = [live EXCEPT ![name[c]] = a]
<1>1. /\ Len(heap) \in Nat /\ DOMAIN heap = 1..Len(heap) /\ name[c] \in Name
      /\ live[name[c]] \in 0..Len(heap)
  BY DEF MoreTypes, UploaderTypeOK
<1>2. CASE live[name[c]] # 0
  <2>1. live[name[c]] \in 1..(Len(heap) + 1) /\ live[name[c]] \in DOMAIN heap
    BY <1>1, <1>2
  <2>2. heap[live[name[c]]].name = name[c]
    BY <1>1, <1>2 DEF HeapInv
  <2>3. ref' = [ref EXCEPT ![c] = live[name[c]]] /\ UNCHANGED <<live, heap>>
    BY <1>2 DEF GetTestResult
  <2>. QED BY <2>1, <2>2, <2>3
<1>3. CASE live[name[c]] = 0
  <2>1. Len(heap) + 1 \in 1..(Len(heap) + 1)
    BY <1>1
  <2>. QED BY <1>3, <2>1 DEF GetTestResult, NewResult
<1>. QED BY <1>2, <1>3

\* A call is begun: emitted and pc say so, and there is at most one more result.
LEMMA CallBegins ==
  ASSUME MoreTypes, HeapInv, NEW c \in Check, EmitBegins(c) \/ CompleteBegins(c)
  PROVE  /\ Len(heap') <= Cardinality(BegunCalls')
         /\ Len(heap') \in Nat /\ Len(heap') <= Cardinality(Address)
<1>. DEFINE x == <<c, Begun(c) + 1>>
<1>1. /\ emitted[c] \in 0..MaxFindings /\ MaxFindings \in Nat /\ DOMAIN pc = Check
      /\ heap \in Seq(Result) /\ Len(heap) \in Nat
  BY UploaderAssumption DEF MoreTypes, UploaderTypeOK
<1>2. /\ pc[c] = "idle" /\ GetTestResult(c) /\ emitted' = emitted
      /\ \E s \in {"emit", "complete"} : pc' = [pc EXCEPT ![c] = s]
  BY DEF EmitBegins, CompleteBegins
<1>3. Begun(c) = emitted[c] /\ Begun(c)' = Begun(c) + 1 /\ \A d \in Check \ {c} : Begun(d)' = Begun(d)
  BY <1>1, <1>2 DEF Begun
<1>4. x \in Check \X (1..(MaxFindings + 1)) /\ x \notin BegunCalls
  BY <1>1, <1>3 DEF BegunCalls
<1>5. BegunCalls' = BegunCalls \cup {x}
  <2>1. ASSUME NEW y \in Check \X (1..(MaxFindings + 1))
        PROVE  y[2] <= Begun(y[1])' <=> y[2] <= Begun(y[1]) \/ y = x
    <3>1. y[1] \in Check /\ y[2] \in Nat /\ y = <<y[1], y[2]>>
      OBVIOUS
    <3>2. CASE y[1] = c
      BY <1>1, <1>3, <3>1, <3>2
    <3>3. CASE y[1] # c
      BY <1>3, <3>1, <3>3
    <3>. QED BY <3>2, <3>3
  <2>. QED BY <1>4, <2>1 DEF BegunCalls
<1>6. /\ IsFiniteSet(BegunCalls) /\ Cardinality(BegunCalls) \in Nat
      /\ Cardinality(BegunCalls') \in Nat /\ Cardinality(BegunCalls') <= Cardinality(Address)
      /\ Cardinality(Address) \in Nat
  <2>1. BegunCalls \in SUBSET (Check \X (1..(MaxFindings + 1)))
        /\ BegunCalls' \in SUBSET (Check \X (1..(MaxFindings + 1)))
    BY DEF BegunCalls
  <2>. QED BY <2>1, CallsBounded
<1>7. Cardinality(BegunCalls') = Cardinality(BegunCalls) + 1
  BY <1>4, <1>5, <1>6, FS_AddElement
<1>8. Len(heap') \in Nat /\ Len(heap') <= Len(heap) + 1
  BY <1>1, <1>2 DEF GetTestResult
<1>. QED BY <1>1, <1>6, <1>7, <1>8 DEF HeapInv

-----------------------------------------------------------------------------
(* The calls of the checks                                                 *)

boxes == <<doneChecks, requests, posted, delivered>>

\* Steps that move no result.
LEMMA SameBoxes ==
  ASSUME MoreTypes, NEW c \in Check, UNCHANGED boxes,
         \A a \in DOMAIN heap : InBox(a) => (c \in heap'[a].by <=> c \in heap[a].by)
  PROVE  /\ InOnePlace(c) => InOnePlace(c)'
         /\ Has(Channel, c)' <=> Has(Channel, c)
         /\ Has(Batch, c)' <=> Has(Batch, c)
         /\ Has(delivered, c)' <=> Has(delivered, c)
         /\ (\E b \in posted : Has(b.results, c))' <=> \E b \in posted : Has(b.results, c)
<1>1. \A i \in DOMAIN doneChecks : doneChecks[i] \in DOMAIN heap /\ InBox(doneChecks[i])
  BY DEF MoreTypes, UploaderTypeOK, InBox
<1>2. \A i \in DOMAIN requests : requests[i] \in DOMAIN heap /\ InBox(requests[i])
  BY DEF MoreTypes, UploaderTypeOK, InBox
<1>3. Times(Channel, c)' = Times(Channel, c) /\ Times(Batch, c)' = Times(Batch, c)
  BY <1>1, <1>2 DEF Times, Channel, Batch, boxes
<1>. QED BY <1>3 DEF InOnePlace, Has, Once, boxes, Times

\* Nothing that a check whose name is its own has not sent is anywhere.
LEMMA NotSent ==
  ASSUME MoreTypes, HeapInv, OwnInv, NEW c \in Check, Own(c), pc[c] # "completed"
  PROVE  /\ ~Has(Channel, c) /\ ~Has(Batch, c) /\ ~Has(delivered, c)
         /\ \A b \in posted : ~Has(b.results, c)
         /\ \A a \in DOMAIN heap : InBox(a) => heap[a].name # name[c]
<1>1. ASSUME NEW a \in DOMAIN heap, InBox(a) PROVE heap[a].name # name[c]
  <2>1. PICK d \in heap[a].by : pc[d] = "completed" /\ name[d] = heap[a].name
    BY <1>1 DEF HeapInv
  <2>2. d \in Check
    BY <2>1 DEF MoreTypes, UploaderTypeOK
  <2>. QED BY <2>1, <2>2 DEF Own
<1>2. ASSUME NEW a \in DOMAIN heap, InBox(a) PROVE c \notin heap[a].by
  BY <1>1, <1>2 DEF HeapInv
<1>3. /\ \A i \in DOMAIN doneChecks : doneChecks[i] \in DOMAIN heap /\ InBox(doneChecks[i])
      /\ \A i \in DOMAIN requests : requests[i] \in DOMAIN heap /\ InBox(requests[i])
  BY DEF MoreTypes, UploaderTypeOK, InBox
<1>4. ~Has(Channel, c) /\ ~Has(Batch, c)
  BY <1>2, <1>3 DEF Has, Times, Channel, Batch
<1>5. ~Has(delivered, c) /\ \A b \in posted : ~Has(b.results, c)
  BY DEF OwnInv, Final, Has
<1>. QED BY <1>1, <1>4, <1>5

\* What is left to show of a step that moves no result.
LEMMA QuietStep ==
  ASSUME UploaderInv, MoreTypes', HeapInv', UNCHANGED <<name, adds, boxes, up, failed, closing>>,
         \A c \in Check : pc'[c] = "completed" <=> pc[c] = "completed",
         \A c \in Check : pc[c] = "completed" /\ Own(c) => heap'[ref'[c]] = heap[ref[c]],
         \A c \in Check : pc[c] = "suppressed" => pc'[c] = "suppressed",
         \A a \in DOMAIN heap : InBox(a) =>
           \A c \in Check : pc[c] = "completed" \/ Own(c) => (c \in heap'[a].by <=> c \in heap[a].by),
         \A c \in Check : Own(c) => OwnResult(c)'
  PROVE  UploaderInv'
<1>1. MoreTypes /\ HeapInv /\ OwnInv /\ KeptInv /\ ClosingInv
  BY DEF UploaderInv
<1>2. ASSUME NEW c \in Check, Own(c)' PROVE OwnResult(c)' /\ InOnePlace(c)' /\ Final(c)'
  <2>1. Own(c)
    BY <1>2 DEF Own
  <2>2. OwnResult(c)'
    BY <2>1
  <2>3. InOnePlace(c)'
    BY <1>1, <2>1, SameBoxes DEF OwnInv
  <2>4. Final(c)'
    BY <1>1, <2>1 DEF OwnInv, Final, boxes, Times
  <2>. QED BY <2>2, <2>3, <2>4
<1>3. ASSUME NEW c \in Check, pc'[c] = "completed", ~failed'
      PROVE  Has(Channel, c)' \/ Has(Batch, c)' \/ Has(delivered, c)' \/ \E b \in posted' : Has(b.results, c)'
  BY <1>1, <1>3, SameBoxes DEF KeptInv, boxes
<1>4. ClosingInv'
  BY <1>1 DEF ClosingInv, boxes
<1>. QED BY <1>2, <1>3, <1>4 DEF UploaderInv, OwnInv, KeptInv

PcOfCheck == {"idle", "emit", "complete", "send", "completed", "suppressed"}

\* The types, when a check makes a step.
LEMMA CheckTypes ==
  ASSUME MoreTypes, UNCHANGED <<name, adds, requests, posted, delivered, up, failed, closing>>,
         pc' \in [Check -> PcOfCheck], ref' \in [Check -> {0} \cup Address],
         emitted' \in [Check -> 0..MaxFindings], live' \in [Name -> 0..Len(heap')],
         Len(heap') <= Cardinality(Address), heap' \in Seq(Result), Len(heap) <= Len(heap'),
         doneChecks' \in Seq(DOMAIN heap')
  PROVE  MoreTypes'
<1>1. DOMAIN heap \subseteq DOMAIN heap'
  BY DEF MoreTypes
<1>2. requests' \in Seq(DOMAIN heap')
  BY <1>1 DEF MoreTypes, UploaderTypeOK
<1>3. \A i \in DOMAIN heap' : heap'[i] \in [name : Name, by : SUBSET Check, summary : Seq(Piece), artifacts : SUBSET Finding, tagged : BOOLEAN]
  <2>1. \A i \in DOMAIN heap' : heap'[i] \in Result
    OBVIOUS
  <2>. QED BY <2>1 DEF Result
<1>4. UploaderTypeOK'
  BY <1>2, <1>3 DEF MoreTypes, UploaderTypeOK, PcOfCheck
<1>5. /\ \A b \in posted' : b.results \in Seq(Result) /\ Len(b.results) \in 1..MaxBatch
      /\ delivered' \in Seq(Result) /\ Len(requests') <= MaxBatch
  BY DEF MoreTypes
<1>. QED BY <1>4, <1>5 DEF MoreTypes

-----------------------------------------------------------------------------
(* What is in a result                                                     *)

LEMMA Suffix ==
  ASSUME NEW S, NEW p \in Seq(S), NEW n \in Seq(S), NEW t, t = p \o n
  PROVE  /\ t \in Seq(S) /\ Len(t) = Len(p) + Len(n)
         /\ \A i \in 1..Len(p) : t[i] = p[i]
         /\ SubSeq(t, Len(p) + 1, Len(t)) = n
<1>1. /\ t \in Seq(S) /\ Len(t) = Len(p) + Len(n) /\ Len(p) \in Nat /\ Len(n) \in Nat
      /\ \A i \in 1..(Len(p) + Len(n)) : t[i] = IF i <= Len(p) THEN p[i] ELSE n[i - Len(p)]
  BY ConcatProperties
<1>2. SubSeq(t, Len(p) + 1, Len(t)) = [i \in 1..Len(n) |-> t[i + Len(p)]]
  BY <1>1
<1>3. \A i \in 1..Len(n) : t[i + Len(p)] = n[i]
  BY <1>1
<1>4. n = [i \in 1..Len(n) |-> n[i]]
  OBVIOUS
<1>. QED BY <1>1, <1>2, <1>3, <1>4

LEMMA OneElement ==
  ASSUME NEW S, NEW a \in S
  PROVE  <<a>> \in Seq(S) /\ Len(<<a>>) = 1 /\ <<a>>[1] = a /\ DOMAIN <<a>> = {1}
<1>1. <<a>> \in Seq(S)
  OBVIOUS
<1>2. Len(<<a>>) = 1 /\ <<a>>[1] = a
  OBVIOUS
<1>3. DOMAIN <<a>> = 1..1
  BY <1>1, <1>2
<1>. QED BY <1>1, <1>2, <1>3

LEMMA TwoElements ==
  ASSUME NEW S, NEW a \in S, NEW b \in S
  PROVE  <<a, b>> \in Seq(S) /\ Len(<<a, b>>) = 2 /\ <<a>> \o <<b>> = <<a, b>>
<1>1. <<a, b>> \in Seq(S) /\ Len(<<a, b>>) = 2
  OBVIOUS
<1>2. <<a, b>>[1] = a /\ <<a, b>>[2] = b
  OBVIOUS
<1>3. /\ <<a>> \in Seq(S) /\ Len(<<a>>) = 1 /\ <<a>>[1] = a
      /\ <<b>> \in Seq(S) /\ Len(<<b>>) = 1 /\ <<b>>[1] = b
  BY OneElement
<1>. DEFINE t == <<a>> \o <<b>>
<1>4. t \in Seq(S) /\ Len(t) = 2 /\ t[1] = a /\ t[2] = b
  BY <1>3, ConcatProperties
<1>. HIDE DEF t
<1>5. \A i \in 1..2 : t[i] = <<a, b>>[i]
  BY <1>2, <1>4
<1>6. t = <<a, b>>
  BY <1>1, <1>4, <1>5, SeqEqual
<1>. QED BY <1>1, <1>6 DEF t

LEMMA Notices ==
  ASSUME NEW note \in {<<>>, <<TagsTruncated>>}, NEW n, n = <<Truncated>> \o note
  PROVE  /\ note \in Seq(Piece) /\ Len(note) \in Nat /\ Len(note) <= 1
         /\ n \in Seq(Piece) /\ Len(n) = Len(note) + 1
         /\ n \in {<<Truncated>>, <<Truncated, TagsTruncated>>}
         /\ \A i \in DOMAIN note : note # <<>>
         /\ (\E i \in DOMAIN n : n[i] = TagsTruncated) => note # <<>>
<1>1. Truncated \in Piece /\ TagsTruncated \in Piece /\ Truncated # TagsTruncated
  BY UploaderAssumption DEF Piece
<1>2. CASE note = <<>>
  <2>1. n = <<Truncated>>
    BY <1>2
  <2>2. n \in Seq(Piece) /\ Len(n) = 1 /\ DOMAIN n = {1} /\ n[1] = Truncated
    BY <1>1, <2>1, OneElement
  <2>3. note \in Seq(Piece) /\ Len(note) = 0 /\ DOMAIN note = {}
    BY <1>2
  <2>. QED BY <1>1, <2>1, <2>2, <2>3
<1>3. CASE note = <<TagsTruncated>>
  <2>1. /\ <<Truncated>> \o <<TagsTruncated>> = <<Truncated, TagsTruncated>>
        /\ <<Truncated, TagsTruncated>> \in Seq(Piece) /\ Len(<<Truncated, TagsTruncated>>) = 2
    BY <1>1, TwoElements
  <2>2. n = <<Truncated, TagsTruncated>> /\ n \in Seq(Piece) /\ Len(n) = 2
    BY <1>3, <2>1
  <2>3. note \in Seq(Piece) /\ Len(note) = 1
    BY <1>1, <1>3, OneElement
  <2>4. note # <<>>
    BY <1>3
  <2>5. (\A i \in DOMAIN note : note # <<>>) /\ ((\E i \in DOMAIN n : n[i] = TagsTruncated) => note # <<>>)
    BY <2>4
  <2>6. n \in {<<Truncated>>, <<Truncated, TagsTruncated>>}
    BY <2>2
  <2>7. Len(note) \in Nat /\ Len(note) <= 1 /\ Len(n) = Len(note) + 1
    BY <2>2, <2>3
  <2>8. note \in Seq(Piece) /\ n \in Seq(Piece)
    BY <2>2, <2>3
  <2>. QED BY <2>5, <2>6, <2>7, <2>8
<1>. QED BY <1>2, <1>3

\* Two summaries that begin alike show the same findings there.
LEMMA SameStart ==
  ASSUME NEW s, NEW t, NEW F, NEW m \in Nat, NEW n \in Nat, n <= m, \A i \in 1..n : t[i] = s[i]
  PROVE  /\ InOrder(s, m, F) => InOrder(t, n, F)
         /\ ShowsAll(s, n, F) <=> ShowsAll(t, n, F)
<1>1. ASSUME InOrder(s, m, F), NEW i \in 1..n
      PROVE  t[i] \in F /\ \A f \in F : f[2] < t[i][2] <=> \E h \in 1..(i - 1) : t[h] = f
  <2>1. i \in 1..m /\ t[i] = s[i] /\ \A h \in 1..(i - 1) : t[h] = s[h]
    OBVIOUS
  <2>2. s[i] \in F /\ \A f \in F : f[2] < s[i][2] <=> \E h \in 1..(i - 1) : s[h] = f
    BY <1>1, <2>1 DEF InOrder
  <2>. QED BY <2>1, <2>2
<1>. QED BY <1>1 DEF InOrder, ShowsAll

\* A summary with all the findings is cut to the first ones, if they do not fit.
LEMMA CutRight ==
  ASSUME NEW s \in Seq(Piece), NEW F \in SUBSET Finding, InOrder(s, Len(s), F), ShowsAll(s, Len(s), F),
         NEW note \in {<<>>, <<TagsTruncated>>}, NEW tagged \in BOOLEAN, note # <<>> => tagged
  PROVE  MaybeTruncate(s, note) \in Seq(Piece) /\ SummaryOf(MaybeTruncate(s, note), F, tagged)
<1>1. Len(s) \in Nat /\ MaxSummary \in Nat /\ MaxSummary >= 2
  BY UploaderAssumption
<1>2. PICK t : t = MaybeTruncate(s, note)
  OBVIOUS
<1>3. PICK n : n = <<Truncated>> \o note
  OBVIOUS
<1>4. /\ note \in Seq(Piece) /\ Len(note) \in Nat /\ Len(note) <= 1
      /\ n \in Seq(Piece) /\ Len(n) = Len(note) + 1
      /\ n \in {<<Truncated>>, <<Truncated, TagsTruncated>>}
      /\ \A i \in DOMAIN note : note # <<>>
      /\ (\E i \in DOMAIN n : n[i] = TagsTruncated) => note # <<>>
  BY <1>3, Notices
<1>5. CASE Len(s) + Len(note) <= MaxSummary
  <2>0. ~(Len(s) + Len(note) > MaxSummary)
    BY <1>1, <1>4, <1>5
  <2>1. t = s \o note
    BY <1>2, <2>0 DEF MaybeTruncate
  <2>2. /\ t \in Seq(Piece) /\ Len(t) = Len(s) + Len(note) /\ \A i \in 1..Len(s) : t[i] = s[i]
        /\ SubSeq(t, Len(s) + 1, Len(t)) = note
    BY <1>4, <2>1, Suffix
  <2>3. InOrder(t, Len(s), F) /\ ShowsAll(t, Len(s), F)
    <3>1. PICK m \in Nat : m = Len(s)
      BY <1>1
    <3>2. m <= m /\ \A i \in 1..m : t[i] = s[i]
      BY <2>2, <3>1
    <3>3. /\ InOrder(s, m, F) => InOrder(t, m, F)
          /\ ShowsAll(s, m, F) <=> ShowsAll(t, m, F)
      BY <3>2, SameStart
    <3>. QED BY <3>1, <3>3
  <2>4. (\E i \in DOMAIN note : note[i] = TagsTruncated) => tagged
    BY <1>4
  <2>5. Len(s) \in 0..Len(t) /\ Len(t) <= MaxSummary
    BY <1>1, <1>4, <1>5, <2>2
  <2>6. SummaryOf(t, F, tagged)
    BY <2>2, <2>3, <2>4, <2>5 DEF SummaryOf
  <2>. QED BY <1>2, <2>2, <2>6
<1>6. CASE Len(s) + Len(note) > MaxSummary
  <2>1. PICK m \in Nat : m = MaxSummary - Len(n) /\ m < Len(s) /\ m + Len(n) = MaxSummary
    <3>1. PICK l \in Nat : l = Len(note)
      BY <1>4
    <3>2. l <= 1 /\ Len(n) = l + 1 /\ Len(s) + l > MaxSummary
      BY <1>4, <1>6, <3>1
    <3>3. MaxSummary - Len(n) \in Nat /\ MaxSummary - Len(n) < Len(s) /\ (MaxSummary - Len(n)) + Len(n) = MaxSummary
      BY <1>1, <3>1, <3>2
    <3>. QED BY <3>3
  <2>2. PICK p : p = SubSeq(s, 1, m)
    OBVIOUS
  <2>3. p \in Seq(Piece) /\ Len(p) = m /\ \A i \in 1..m : p[i] = s[i]
    BY <1>1, <2>1, <2>2, SubSeqProperties
  <2>4. t = p \o n
    BY <1>2, <1>3, <1>6, <2>1, <2>2 DEF MaybeTruncate
  <2>5. /\ t \in Seq(Piece) /\ Len(t) = MaxSummary /\ \A i \in 1..m : t[i] = s[i]
        /\ SubSeq(t, m + 1, Len(t)) = n
    <3>1. /\ t \in Seq(Piece) /\ Len(t) = Len(p) + Len(n) /\ \A i \in 1..Len(p) : t[i] = p[i]
          /\ SubSeq(t, Len(p) + 1, Len(t)) = n
      BY <1>4, <2>3, <2>4, Suffix
    <3>. QED BY <2>1, <2>3, <3>1
  <2>6. InOrder(t, m, F)
    <3>1. PICK k \in Nat : k = Len(s)
      BY <1>1
    <3>2. m <= k /\ InOrder(s, k, F)
      BY <2>1, <3>1
    <3>3. InOrder(s, k, F) => InOrder(t, m, F)
      BY <2>5, <3>2, SameStart
    <3>. QED BY <3>2, <3>3
  <2>7. ~ShowsAll(t, m, F)
    <3>1. PICK f : f = s[m + 1]
      OBVIOUS
    <3>2. m + 1 \in 1..Len(s) /\ (m + 1) - 1 = m
      BY <1>1, <2>1
    <3>3. f \in F /\ (f[2] < f[2] <=> \E h \in 1..m : s[h] = f)
      BY <3>1, <3>2 DEF InOrder
    <3>4. f[2] \in Nat
      BY <3>3, UploaderAssumption DEF Finding
    <3>5. \A h \in 1..m : t[h] # f
      BY <2>5, <3>3, <3>4
    <3>. QED BY <3>3, <3>5 DEF ShowsAll
  <2>8. (\E i \in DOMAIN n : n[i] = TagsTruncated) => tagged
    BY <1>4
  <2>9. m \in 0..Len(t) /\ Len(t) <= MaxSummary
    BY <1>1, <1>4, <2>1, <2>5
  <2>10. SummaryOf(t, F, tagged)
    BY <1>4, <2>5, <2>6, <2>7, <2>8, <2>9 DEF SummaryOf
  <2>. QED BY <1>2, <2>5, <2>10
<1>. QED BY <1>1, <1>4, <1>5, <1>6

\* A completed result holds the same.
LEMMA CompletedContent ==
  ASSUME NEW c \in Check, NEW result \in Result, AllAdded(result, c), NEW note \in TagNotes(result),
         emitted[c] \in 0..MaxFindings
  PROVE  /\ CompletedBy(result, c, note) \in Result
         /\ CompletedBy(result, c, note).name = result.name
         /\ CompletedBy(result, c, note).by = result.by \cup {c}
         /\ CutToSize(CompletedBy(result, c, note), c)
<1>. DEFINE r == CompletedBy(result, c, note)
<1>1. /\ result.summary \in Seq(Piece) /\ note \in {<<>>, <<TagsTruncated>>} /\ (note # <<>> => Tags(c))
      /\ Tags(c) \in BOOLEAN
  BY DEF Result, TagNotes, AllAdded, Tags
<1>2. FindingsOf(c) \in SUBSET Finding
  <2>1. MaxFindings \in Nat
    BY UploaderAssumption
  <2>. QED BY <2>1 DEF FindingsOf, Finding
<1>3. /\ MaybeTruncate(result.summary, note) \in Seq(Piece)
      /\ SummaryOf(MaybeTruncate(result.summary, note), FindingsOf(c), Tags(c))
  BY <1>1, <1>2, CutRight DEF AllAdded
<1>4. /\ r.name = result.name /\ r.by = result.by \cup {c} /\ r.artifacts = result.artifacts
      /\ r.summary = MaybeTruncate(result.summary, note) /\ r \in Result
  BY <1>3 DEF CompletedBy, Result
<1>. QED BY <1>3, <1>4 DEF CutToSize, AllAdded

\* What any check makes of a result when it completes it is a result.
LEMMA CompletedResult ==
  ASSUME NEW c \in Check, NEW result \in Result, NEW note \in TagNotes(result)
  PROVE  /\ CompletedBy(result, c, note) \in Result
         /\ CompletedBy(result, c, note).name = result.name
         /\ CompletedBy(result, c, note).by = result.by \cup {c}
<1>1. PICK s : s = result.summary
  OBVIOUS
<1>2. PICK n : n = <<Truncated>> \o note
  OBVIOUS
<1>3. /\ s \in Seq(Piece) /\ Len(s) \in Nat /\ MaxSummary \in Nat /\ MaxSummary >= 2
      /\ note \in {<<>>, <<TagsTruncated>>}
  BY <1>1, UploaderAssumption DEF TagNotes, Result
<1>4. note \in Seq(Piece) /\ Len(note) \in Nat /\ Len(note) <= 1 /\ n \in Seq(Piece) /\ Len(n) = Len(note) + 1
  BY <1>2, <1>3, Notices
<1>5. MaybeTruncate(s, note) \in Seq(Piece)
  <2>1. CASE Len(s) + Len(note) > MaxSummary
    <3>1. MaxSummary - Len(n) \in Nat /\ MaxSummary - Len(n) <= Len(s)
      BY <1>3, <1>4, <2>1
    <3>2. SubSeq(s, 1, MaxSummary - Len(n)) \in Seq(Piece)
      BY <1>3, <3>1, SubSeqProperties
    <3>3. SubSeq(s, 1, MaxSummary - Len(n)) \o n \in Seq(Piece)
      BY <1>4, <3>2, ConcatProperties
    <3>. QED BY <1>2, <2>1, <3>3 DEF MaybeTruncate
  <2>2. CASE ~(Len(s) + Len(note) > MaxSummary)
    <3>1. s \o note \in Seq(Piece)
      BY <1>3, <1>4, ConcatProperties
    <3>. QED BY <2>2, <3>1 DEF MaybeTruncate
  <2>. QED BY <2>1, <2>2
<1>. QED BY <1>1, <1>5 DEF CompletedBy, Result

\* What a check emitted depends on its calls alone.
LEMMA SameTold ==
  ASSUME NEW c \in Check, adds' = adds, emitted'[c] = emitted[c]
  PROVE  FindingsOf(c)' = FindingsOf(c) /\ ArtifactsOf(c)' = ArtifactsOf(c) /\ (Tags(c)' <=> Tags(c))
BY DEF FindingsOf, ArtifactsOf, Tags

\* A result gets what its check emits.
LEMMA AddedContent ==
  ASSUME NEW c \in Check, NEW result \in Result, NEW r, NEW f, f = <<c, emitted[c] + 1>>,
         r = Added(result, f), emitted[c] + 1 \in 1..MaxFindings, emitted[c] \in Nat, f \in Finding
  PROVE  /\ r \in Result /\ r.name = result.name /\ r.by = result.by
         /\ AllAdded(result, c) /\ adds' = adds /\ emitted'[c] = emitted[c] + 1 => AllAdded(r, c)'
<1>. DEFINE q == result.summary
<1>1. /\ result.summary \in Seq(Piece) /\ Len(q) \in Nat /\ f \in Piece /\ result.tagged \in BOOLEAN
  BY DEF Result, Piece
<1>2. /\ Append(q, f) \in Seq(Piece) /\ Len(Append(q, f)) = Len(q) + 1
      /\ \A i \in 1..Len(q) : Append(q, f)[i] = q[i]
      /\ Append(q, f)[Len(q) + 1] = f
  BY <1>1, AppendProperties
<1>3. CASE adds[f] = "artifact"
  <2>1. /\ r.name = result.name /\ r.by = result.by /\ r.artifacts = result.artifacts \cup {f}
        /\ r.summary = result.summary /\ r.tagged = result.tagged /\ r \in Result
    BY <1>3 DEF Added, Result
  <2>2. ASSUME AllAdded(result, c), adds' = adds, emitted'[c] = emitted[c] + 1 PROVE AllAdded(r, c)'
    <3>1. FindingsOf(c)' = FindingsOf(c) /\ ArtifactsOf(c)' = ArtifactsOf(c) \cup {f}
      <4>1. {c} \X (1..(emitted[c] + 1)) = ({c} \X (1..emitted[c])) \cup {f}
        OBVIOUS
      <4>. QED BY <1>3, <2>2, <4>1 DEF FindingsOf, ArtifactsOf
    <3>2. Tags(c)' <=> Tags(c)
      BY <2>2, <3>1 DEF Tags
    <3>. QED BY <2>1, <2>2, <3>1, <3>2 DEF AllAdded
  <2>. QED BY <2>1, <2>2
<1>4. CASE adds[f] # "artifact"
  <2>1. /\ r.name = result.name /\ r.by = result.by /\ r.artifacts = result.artifacts
        /\ r.summary = Append(q, f) /\ (r.tagged => result.tagged \/ adds[f] = "tagged") /\ r \in Result
    <3>1. r = [result EXCEPT !.summary = Append(q, f), !.tagged = result.tagged \/ adds[f] = "tagged"]
      BY <1>4 DEF Added
    <3>. QED BY <1>1, <1>2, <3>1 DEF Result
  <2>2. ASSUME AllAdded(result, c), adds' = adds, emitted'[c] = emitted[c] + 1 PROVE AllAdded(r, c)'
    <3>. DEFINE F == FindingsOf(c)
                G == F \cup {f}
                s == Append(q, f)
    <3>1. FindingsOf(c)' = G /\ ArtifactsOf(c)' = ArtifactsOf(c) /\ f \notin F
          /\ \A g \in F : g[2] \in Nat /\ g[2] < f[2]
      <4>1. /\ {c} \X (1..(emitted[c] + 1)) = ({c} \X (1..emitted[c])) \cup {f}
            /\ f \notin {c} \X (1..emitted[c]) /\ f[2] = emitted[c] + 1
            /\ \A g \in {c} \X (1..emitted[c]) : g[2] \in 1..emitted[c]
        OBVIOUS
      <4>. QED BY <1>4, <2>2, <4>1 DEF FindingsOf, ArtifactsOf
    <3>2. result.tagged \/ adds[f] = "tagged" => Tags(c)'
      <4>1. Tags(c) => Tags(c)'
        BY <2>2, <3>1 DEF Tags
      <4>2. adds[f] = "tagged" => Tags(c)'
        BY <2>2, <3>1 DEF Tags
      <4>. QED BY <2>2, <4>1, <4>2 DEF AllAdded
    <3>3. /\ \A i \in 1..Len(q) : q[i] \in F
          /\ \A i \in 1..Len(q) : \A g \in F : g[2] < q[i][2] <=> \E h \in 1..(i - 1) : q[h] = g
          /\ \A g \in F : \E h \in 1..Len(q) : q[h] = g
      BY <2>2 DEF AllAdded, InOrder, ShowsAll
    <3>. HIDE DEF F, s, q
    <3>4. f[2] = emitted[c] + 1 /\ f[2] \in Nat
      OBVIOUS
    <3>5. ASSUME NEW i \in 1..(Len(q) + 1)
          PROVE  s[i] \in G /\ \A g \in G : g[2] < s[i][2] <=> \E h \in 1..(i - 1) : s[h] = g
      <4>1. CASE i \in 1..Len(q)
        <5>1. s[i] = q[i] /\ q[i] \in F /\ \A h \in 1..(i - 1) : s[h] = q[h] /\ q[h] \in F
          BY <1>1, <1>2, <3>3, <4>1 DEF s
        <5>2. ~(f[2] < s[i][2]) /\ ~\E h \in 1..(i - 1) : s[h] = f
          BY <3>1, <3>4, <5>1
        <5>3. ASSUME NEW g \in F PROVE g[2] < s[i][2] <=> \E h \in 1..(i - 1) : s[h] = g
          <6>1. g[2] < q[i][2] <=> \E h \in 1..(i - 1) : q[h] = g
            BY <3>3, <4>1
          <6>. QED BY <5>1, <6>1
        <5>. QED BY <5>1, <5>2, <5>3
      <4>2. CASE i = Len(q) + 1
        <5>1. s[i] = f /\ \A h \in 1..(i - 1) : s[h] = q[h] /\ q[h] \in F
          BY <1>1, <1>2, <3>3, <4>2 DEF s
        <5>2. ~(f[2] < f[2]) /\ ~\E h \in 1..(i - 1) : s[h] = f
          BY <3>1, <3>4, <5>1
        <5>3. ASSUME NEW g \in F PROVE g[2] < f[2] /\ \E h \in 1..(i - 1) : s[h] = g
          <6>1. i - 1 = Len(q)
            BY <1>1, <4>2
          <6>. QED BY <3>1, <3>3, <5>1, <6>1
        <5>. QED BY <5>1, <5>2, <5>3
      <4>. QED BY <1>1, <4>1, <4>2
    <3>6. \A g \in G : \E h \in 1..(Len(q) + 1) : s[h] = g
      <4>1. ASSUME NEW g \in F PROVE \E h \in 1..(Len(q) + 1) : s[h] = g
        <5>1. PICK h \in 1..Len(q) : q[h] = g
          BY <3>3
        <5>2. h \in 1..(Len(q) + 1) /\ s[h] = g
          BY <1>1, <1>2, <5>1 DEF s
        <5>. QED BY <5>2
      <4>2. s[Len(q) + 1] = f /\ Len(q) + 1 \in 1..(Len(q) + 1)
        BY <1>1, <1>2 DEF s
      <4>. QED BY <4>1, <4>2
    <3>7. r.summary = s /\ Len(s) = Len(q) + 1
      BY <1>2, <2>1 DEF s
    <3>8. InOrder(r.summary, Len(r.summary), G) /\ ShowsAll(r.summary, Len(r.summary), G)
      <4>. HIDE DEF G
      <4>1. InOrder(s, Len(q) + 1, G)
        BY <3>5 DEF InOrder
      <4>2. ShowsAll(s, Len(q) + 1, G)
        BY <3>6 DEF ShowsAll
      <4>. QED BY <3>7, <4>1, <4>2
    <3>9. result.artifacts = ArtifactsOf(c)
      BY <2>2 DEF AllAdded
    <3>. QED BY <2>1, <3>1, <3>2, <3>8, <3>9 DEF AllAdded
  <2>. QED BY <2>1, <2>2
<1>. QED BY <1>3, <1>4

\* A result that nobody touches holds what it did.
LEMMA SameContent ==
  ASSUME NEW c \in Check, NEW a, Holds(a, c), adds' = adds, emitted'[c] = emitted[c], heap'[a] = heap[a],
         pc'[c] \in {"send", "completed"} <=> pc[c] \in {"send", "completed"}
  PROVE  Holds(a, c)'
<1>1. FindingsOf(c)' = FindingsOf(c) /\ ArtifactsOf(c)' = ArtifactsOf(c) /\ (Tags(c)' <=> Tags(c))
  BY SameTold
<1>2. CASE pc[c] \in {"send", "completed"}
  <2>1. CutToSize(heap[a], c) => CutToSize(heap[a], c)'
    <3>1. SummaryOf(heap[a].summary, FindingsOf(c), Tags(c)) =>
            SummaryOf(heap'[a].summary, FindingsOf(c)', Tags(c)')
      BY <1>1 DEF SummaryOf
    <3>. QED BY <1>1, <3>1 DEF CutToSize
  <2>. QED BY <1>2, <2>1 DEF Holds
<1>3. CASE pc[c] \notin {"send", "completed"}
  <2>1. AllAdded(heap[a], c) => AllAdded(heap[a], c)'
    BY <1>1 DEF AllAdded
  <2>. QED BY <1>3, <2>1 DEF Holds
<1>. QED BY <1>2, <1>3

LEMMA Began ==
  ASSUME UploaderInv, NEW c \in Check, EmitBegins(c) \/ CompleteBegins(c) PROVE UploaderInv'
<1>1. MoreTypes /\ HeapInv /\ OwnInv
  BY DEF UploaderInv
<1>2. /\ pc[c] = "idle" /\ GetTestResult(c) /\ emitted' = emitted /\ UNCHANGED <<name, adds, boxes, up, failed, closing>>
  BY DEF EmitBegins, CompleteBegins, uploadVars, boxes
<1>3. PICK s \in {"emit", "complete"} : pc' = [pc EXCEPT ![c] = s] /\ (s = "emit" => emitted[c] < MaxFindings)
  BY DEF EmitBegins, CompleteBegins
<1>4. PICK a \in 1..(Len(heap) + 1) :
           /\ ref' = [ref EXCEPT ![c] = a]
           /\ \/ /\ a \in DOMAIN heap /\ a = live[name[c]] /\ heap[a].name = name[c]
                 /\ UNCHANGED <<live, heap>>
              \/ /\ a = Len(heap) + 1 /\ live[name[c]] = 0
                 /\ heap' = Append(heap, NewResult(name[c]))
                 /\ live' = [live EXCEPT ![name[c]] = a]
  BY <1>1, <1>2, GotResult
<1>5. /\ heap \in Seq(Result) /\ Len(heap) \in Nat /\ DOMAIN heap = 1..Len(heap)
      /\ name[c] \in Name /\ NewResult(name[c]) \in Result
      /\ DOMAIN pc = Check /\ DOMAIN ref = Check /\ live \in [Name -> 0..Len(heap)]
      /\ \A d \in Check : name[d] \in Name /\ emitted[d] \in Nat /\ ref[d] \in Nat
  <2>1. /\ heap \in Seq(Result) /\ name[c] \in Name /\ DOMAIN pc = Check /\ DOMAIN ref = Check
        /\ live \in [Name -> 0..Len(heap)] /\ \A d \in Check : name[d] \in Name
    BY <1>1 DEF MoreTypes, UploaderTypeOK
  <2>2. NewResult(name[c]) \in Result
    BY <2>1 DEF NewResult, Result
  <2>3. \A d \in Check : emitted[d] \in Nat
    BY <1>1, UploaderAssumption DEF MoreTypes, UploaderTypeOK
  <2>4. \A d \in Check : ref[d] \in Nat
    <3>1. PICK m \in Nat : Address = 1..m
      BY CallsBounded
    <3>. QED BY <1>1, <3>1 DEF MoreTypes, UploaderTypeOK
  <2>. QED BY <2>1, <2>2, <2>3, <2>4
<1>6. /\ heap' \in Seq(Result) /\ Len(heap') \in Nat /\ DOMAIN heap' = 1..Len(heap') /\ a \in DOMAIN heap'
      /\ \A i \in DOMAIN heap : i \in DOMAIN heap' /\ heap'[i] = heap[i]
      /\ \A i \in DOMAIN heap' : i \in DOMAIN heap \/ (i = a /\ heap'[i] = NewResult(name[c]) /\ live[name[c]] = 0)
      /\ Len(heap) <= Len(heap') /\ live' \in [Name -> 0..Len(heap')]
      /\ live'[name[c]] = a /\ heap'[a].name = name[c]
      /\ \A n \in Name : n # name[c] => live'[n] = live[n]
      /\ a \notin DOMAIN heap => a = Len(heap) + 1 /\ heap'[a] = NewResult(name[c]) /\ live[name[c]] = 0
      /\ a \in DOMAIN heap => a = live[name[c]]
  <2>1. CASE UNCHANGED <<live, heap>> /\ a \in DOMAIN heap /\ a = live[name[c]] /\ heap[a].name = name[c]
    BY <1>5, <2>1
  <2>2. CASE a = Len(heap) + 1 /\ live[name[c]] = 0 /\ heap' = Append(heap, NewResult(name[c]))
               /\ live' = [live EXCEPT ![name[c]] = a]
    <3>1. /\ Append(heap, NewResult(name[c])) \in Seq(Result)
          /\ DOMAIN Append(heap, NewResult(name[c])) = 1..(Len(heap) + 1)
          /\ Len(Append(heap, NewResult(name[c]))) = Len(heap) + 1
          /\ \A i \in 1..Len(heap) : Append(heap, NewResult(name[c]))[i] = heap[i]
          /\ Append(heap, NewResult(name[c]))[Len(heap) + 1] = NewResult(name[c])
      BY <1>5, AppendProperties
    <3>2. NewResult(name[c]).name = name[c]
      BY DEF NewResult
    <3>. QED BY <1>5, <2>2, <3>1, <3>2
  <2>. QED BY <1>4, <2>1, <2>2
<1>7. Len(heap') <= Cardinality(BegunCalls') /\ Len(heap') <= Cardinality(Address)
  BY <1>1, CallBegins
<1>8. MoreTypes'
  <2>1. a \in Address
    <3>1. PICK m \in Nat : Address = 1..m /\ m = Cardinality(Address)
      BY CallsBounded
    <3>. QED BY <1>6, <1>7, <3>1
  <2>2. doneChecks' \in Seq(DOMAIN heap') /\ emitted' \in [Check -> 0..MaxFindings]
    BY <1>1, <1>2, <1>6 DEF MoreTypes, UploaderTypeOK, boxes
  <2>3. pc' \in [Check -> PcOfCheck]
    BY <1>1, <1>3 DEF MoreTypes, UploaderTypeOK, PcOfCheck
  <2>4. ref' \in [Check -> {0} \cup Address]
    BY <1>1, <1>4, <2>1 DEF MoreTypes, UploaderTypeOK
  <2>5. UNCHANGED <<name, adds, requests, posted, delivered, up, failed, closing>>
    BY <1>2 DEF boxes
  <2>6. live' \in [Name -> 0..Len(heap')] /\ heap' \in Seq(Result) /\ Len(heap) <= Len(heap')
    BY <1>6
  <2>. QED BY <1>1, <1>7, <2>2, <2>3, <2>4, <2>5, <2>6, CheckTypes
<1>9. HeapInv'
  <2>1. ASSUME NEW d \in Check PROVE RefInv(d)'
    <3>1. CASE d = c
      <4>1. ref'[c] = a /\ a # 0 /\ pc'[c] = s /\ s \notin {"send", "completed"}
        BY <1>3, <1>4, <1>5
      <4>2. emitted'[c] = emitted[c] /\ name' = name /\ a \in DOMAIN heap' /\ heap'[a].name = name[c]
        BY <1>2, <1>6
      <4>. QED BY <1>3, <3>1, <4>1, <4>2 DEF RefInv
    <3>2. CASE d # c
      <4>1. ref'[d] = ref[d] /\ pc'[d] = pc[d] /\ RefInv(d)
        BY <1>1, <1>3, <1>4, <1>5, <3>2 DEF HeapInv
      <4>. QED BY <1>2, <1>6, <4>1 DEF RefInv
    <3>. QED BY <3>1, <3>2
  <2>2. ASSUME NEW n \in Name, live'[n] # 0 PROVE heap'[live'[n]].name = n
    <3>1. CASE n = name[c]
      BY <1>6, <3>1
    <3>2. CASE n # name[c]
      <4>1. live'[n] = live[n] /\ live[n] \in DOMAIN heap
        BY <1>5, <1>6, <2>2, <3>2
      <4>. QED BY <1>1, <1>6, <2>2, <4>1 DEF HeapInv
    <3>. QED BY <3>1, <3>2
  <2>3. ASSUME NEW i \in DOMAIN heap', NEW d \in heap'[i].by
        PROVE  name[d] = heap'[i].name /\ ref'[d] = i /\ pc'[d] \in {"send", "completed"}
    <3>1. i \in DOMAIN heap /\ heap'[i] = heap[i]
      BY <1>6, <2>3 DEF NewResult
    <3>2. name[d] = heap[i].name /\ ref[d] = i /\ pc[d] \in {"send", "completed"}
      BY <1>1, <3>1 DEF HeapInv
    <3>3. d # c
      BY <1>2, <3>2
    <3>. QED BY <1>3, <1>4, <1>5, <3>1, <3>2, <3>3
  <2>4. ASSUME NEW i \in DOMAIN heap', InBox(i)' PROVE \E d \in heap'[i].by : pc'[d] = "completed"
    <3>1. InBox(i) /\ i \in DOMAIN heap
      BY <1>1, <1>2, <2>4 DEF InBox, boxes, MoreTypes, UploaderTypeOK
    <3>2. PICK d \in heap[i].by : pc[d] = "completed"
      BY <1>1, <3>1 DEF HeapInv
    <3>3. d # c
      BY <1>2, <3>2
    <3>. QED BY <1>3, <1>5, <1>6, <3>1, <3>2, <3>3
  <2>. QED BY <1>2, <1>7, <2>1, <2>2, <2>3, <2>4 DEF HeapInv
<1>10. ASSUME NEW d \in Check, Own(d) PROVE OwnResult(d)'
  <2>. SUFFICES ASSUME NEW i \in DOMAIN heap', heap'[i].name = name[d]
       PROVE  /\ i = ref'[d]
              /\ pc'[d] \notin {"send", "completed"} => live'[name[d]] = i
              /\ Holds(i, d)'
    BY <1>2 DEF OwnResult
  <2>1. OwnResult(d) /\ RefInv(d)
    BY <1>1, <1>10 DEF OwnInv, HeapInv
  <2>2. CASE d # c
    <3>1. name[d] # name[c] /\ ref'[d] = ref[d] /\ pc'[d] = pc[d] /\ live'[name[d]] = live[name[d]]
      BY <1>3, <1>4, <1>5, <1>6, <1>10, <2>2 DEF Own
    <3>2. i \in DOMAIN heap /\ heap'[i] = heap[i]
      BY <1>6, <3>1 DEF NewResult
    <3>3. Holds(i, d)
      BY <2>1, <3>1, <3>2 DEF OwnResult
    <3>4. Holds(i, d)'
      BY <1>2, <3>1, <3>2, <3>3, SameContent
    <3>. QED BY <2>1, <3>1, <3>2, <3>4 DEF OwnResult
  <2>3. CASE d = c
    <3>1. CASE i \in DOMAIN heap
      <4>1. heap'[i] = heap[i] /\ heap[i].name = name[c] /\ live[name[c]] = i
        BY <1>2, <1>6, <2>1, <2>3, <3>1 DEF OwnResult
      <4>2. a = i
        BY <1>5, <1>6, <3>1, <4>1
      <4>3. pc'[c] \notin {"send", "completed"} /\ pc[c] \notin {"send", "completed"}
        BY <1>2, <1>3, <1>5
      <4>4. Holds(i, c)
        BY <2>1, <2>3, <3>1, <4>1 DEF OwnResult
      <4>5. Holds(i, c)'
        BY <1>2, <4>1, <4>3, <4>4, SameContent
      <4>. QED BY <1>4, <1>5, <1>6, <2>3, <4>1, <4>2, <4>5
    <3>2. CASE i \notin DOMAIN heap
      <4>1. i = a /\ heap'[i] = NewResult(name[c]) /\ live[name[c]] = 0
        BY <1>6, <3>2
      <4>2. emitted[c] = 0
        <5>1. ref[c] = 0
          <6>1. ASSUME ref[c] # 0 PROVE FALSE
            <7>1. ref[c] \in DOMAIN heap /\ heap[ref[c]].name = name[c]
              BY <2>1, <2>3, <6>1 DEF RefInv
            <7>2. live[name[c]] = ref[c]
              BY <1>2, <2>1, <2>3, <7>1 DEF OwnResult
            <7>. QED BY <4>1, <6>1, <7>2
          <6>. QED BY <6>1
        <5>. QED BY <1>5, <2>1, <2>3, <5>1 DEF RefInv
      <4>3. Holds(i, c)'
        <5>1. FindingsOf(c)' = {} /\ ArtifactsOf(c)' = {}
          BY <1>2, <4>2 DEF FindingsOf, ArtifactsOf
        <5>2. heap'[i].summary = <<>> /\ heap'[i].artifacts = {} /\ heap'[i].tagged = FALSE
          BY <4>1 DEF NewResult
        <5>3. AllAdded(heap[i], c)'
          BY <5>1, <5>2 DEF AllAdded, InOrder, ShowsAll
        <5>4. pc'[c] \notin {"send", "completed"}
          BY <1>3, <1>5
        <5>. QED BY <5>3, <5>4 DEF Holds
      <4>. QED BY <1>4, <1>5, <1>6, <2>3, <4>1, <4>3
    <3>. QED BY <3>1, <3>2
  <2>. QED BY <2>2, <2>3
<1>11. /\ \A d \in Check : pc'[d] = "completed" <=> pc[d] = "completed"
       /\ \A d \in Check : pc[d] = "suppressed" => pc'[d] = "suppressed"
  BY <1>2, <1>3, <1>5
<1>12. ASSUME NEW d \in Check, pc[d] = "completed" PROVE heap'[ref'[d]] = heap[ref[d]]
  <2>1. d # c /\ ref[d] \in DOMAIN heap
    BY <1>1, <1>2, <1>12 DEF HeapInv, RefInv
  <2>. QED BY <1>4, <1>5, <1>6, <2>1
<1>. QED BY <1>2, <1>6, <1>8, <1>9, <1>10, <1>11, <1>12, QuietStep

LEMMA SameBegun ==
  ASSUME \A c \in Check : Begun(c)' = Begun(c) PROVE BegunCalls' = BegunCalls
<1>1. \A x \in Check \X (1..(MaxFindings + 1)) : x[1] \in Check
  OBVIOUS
<1>. QED BY <1>1 DEF BegunCalls

LEMMA Emitted == ASSUME UploaderInv, NEW c \in Check, EmitEnds(c) PROVE UploaderInv'
<1>. DEFINE r == ref[c]
            f == <<c, emitted[c] + 1>>
<1>0. PICK h : h = Added(heap[r], f)
  OBVIOUS
<1>1. MoreTypes /\ HeapInv /\ OwnInv
  BY DEF UploaderInv
<1>2. /\ pc[c] = "emit" /\ emitted' = [emitted EXCEPT ![c] = @ + 1] /\ pc' = [pc EXCEPT ![c] = "idle"]
      /\ heap' = [heap EXCEPT ![r] = h]
      /\ UNCHANGED <<name, adds, ref, live, boxes, up, failed, closing>>
  BY <1>0 DEF EmitEnds, uploadVars, boxes
<1>3. /\ r \in DOMAIN heap /\ heap[r].name = name[c] /\ emitted[c] < MaxFindings
  BY <1>1, <1>2 DEF HeapInv, RefInv
<1>4. /\ heap \in Seq(Result) /\ DOMAIN pc = Check /\ DOMAIN emitted = Check
      /\ emitted[c] \in Nat /\ emitted[c] + 1 \in 1..MaxFindings /\ emitted \in [Check -> 0..MaxFindings]
      /\ MaxFindings \in Nat
  <2>1. heap \in Seq(Result) /\ DOMAIN pc = Check
    BY <1>1 DEF MoreTypes, UploaderTypeOK
  <2>2. emitted \in [Check -> 0..MaxFindings]
    BY <1>1 DEF MoreTypes, UploaderTypeOK
  <2>3. MaxFindings \in Nat
    BY UploaderAssumption
  <2>4. emitted[c] \in 0..MaxFindings
    BY <2>2
  <2>. QED BY <1>3, <2>1, <2>2, <2>3, <2>4
<1>5. /\ heap[r] \in Result /\ h \in Result /\ h.name = heap[r].name /\ h.by = heap[r].by
      /\ AllAdded(heap[r], c) => AllAdded(h, c)'
  <2>1. heap[r] \in Result
    BY <1>3, <1>4
  <2>2. f \in Finding
    BY <1>4 DEF Finding
  <2>3. adds' = adds /\ emitted'[c] = emitted[c] + 1
    BY <1>2, <1>4
  <2>. HIDE DEF r, f
  <2>4. f = <<c, emitted[c] + 1>>
    BY DEF f
  <2>. QED BY <1>0, <1>4, <2>1, <2>2, <2>3, <2>4, AddedContent
<1>. HIDE DEF r, f
<1>6. /\ heap' \in Seq(Result) /\ Len(heap') = Len(heap) /\ DOMAIN heap' = DOMAIN heap
      /\ heap'[r] = h
      /\ \A i \in DOMAIN heap : i # r => heap'[i] = heap[i]
  <2>1. /\ [heap EXCEPT ![r] = h] \in Seq(Result) /\ Len([heap EXCEPT ![r] = h]) = Len(heap)
        /\ \A i \in 1..Len(heap) : [heap EXCEPT ![r] = h][i] = IF i = r THEN h ELSE heap[i]
    BY <1>3, <1>4, <1>5, ExceptSeq
  <2>. QED BY <1>2, <1>3, <1>4, <2>1
<1>7. heap'[r].name = heap[r].name /\ heap'[r].by = heap[r].by
  BY <1>5, <1>6
<1>8. \A i \in DOMAIN heap : heap'[i].name = heap[i].name /\ heap'[i].by = heap[i].by
  BY <1>6, <1>7
<1>9. MoreTypes'
  <2>1. pc' \in [Check -> PcOfCheck] /\ ref' \in [Check -> {0} \cup Address] /\ emitted' \in [Check -> 0..MaxFindings]
    BY <1>1, <1>2, <1>4 DEF MoreTypes, UploaderTypeOK, PcOfCheck
  <2>2. live' \in [Name -> 0..Len(heap')] /\ doneChecks' \in Seq(DOMAIN heap') /\ Len(heap') <= Cardinality(Address)
    BY <1>1, <1>2, <1>6 DEF MoreTypes, UploaderTypeOK, boxes
  <2>3. UNCHANGED <<name, adds, requests, posted, delivered, up, failed, closing>>
    BY <1>2 DEF boxes
  <2>4. Len(heap) <= Len(heap')
    BY <1>4, <1>6
  <2>. QED BY <1>1, <1>6, <2>1, <2>2, <2>3, <2>4, CheckTypes
<1>10. HeapInv'
  <2>1. BegunCalls' = BegunCalls
    <3>1. \A d \in Check : Begun(d)' = Begun(d)
      BY <1>2, <1>4 DEF Begun
    <3>. QED BY <3>1, SameBegun
  <2>2. ASSUME NEW d \in Check PROVE RefInv(d)'
    <3>1. RefInv(d)
      BY <1>1 DEF HeapInv
    <3>2. CASE d = c
      BY <1>2, <1>3, <1>4, <1>6, <1>7, <3>2 DEF RefInv, r
    <3>3. CASE d # c
      BY <1>2, <1>4, <1>6, <1>8, <3>1, <3>3 DEF RefInv
    <3>. QED BY <3>2, <3>3
  <2>3. \A n \in Name : live'[n] # 0 => heap'[live'[n]].name = n
    <3>1. \A n \in Name : live[n] # 0 => live[n] \in DOMAIN heap
      BY <1>1 DEF MoreTypes, UploaderTypeOK
    <3>. QED BY <1>1, <1>2, <1>8, <3>1 DEF HeapInv
  <2>4. ASSUME NEW i \in DOMAIN heap', NEW d \in heap'[i].by
        PROVE  name[d] = heap'[i].name /\ ref[d] = i /\ pc'[d] \in {"send", "completed"}
    <3>1. name[d] = heap[i].name /\ ref[d] = i /\ pc[d] \in {"send", "completed"}
      BY <1>1, <1>6, <1>8 DEF HeapInv
    <3>. QED BY <1>2, <1>4, <1>6, <1>8, <3>1
  <2>5. ASSUME NEW i \in DOMAIN heap', InBox(i)' PROVE \E d \in heap'[i].by : pc'[d] = "completed"
    <3>1. PICK d \in heap[i].by : pc[d] = "completed"
      BY <1>1, <1>2, <1>6, <2>5 DEF HeapInv, InBox, boxes
    <3>. QED BY <1>2, <1>4, <1>6, <1>8, <3>1
  <2>. QED BY <1>1, <1>2, <1>6, <2>1, <2>2, <2>3, <2>4, <2>5 DEF HeapInv
<1>11. ASSUME NEW d \in Check, Own(d) PROVE OwnResult(d)'
  <2>1. OwnResult(d)
    BY <1>1, <1>11 DEF OwnInv
  <2>2. CASE d # c
    <3>1. name[d] # name[c]
      BY <1>11, <2>2 DEF Own
    <3>2. pc'[d] = pc[d] /\ emitted'[d] = emitted[d] /\ adds' = adds
      BY <1>2, <1>4, <2>2
    <3>3. ASSUME NEW i \in DOMAIN heap, heap[i].name = name[d] PROVE Holds(i, d)'
      <4>1. heap'[i] = heap[i] /\ Holds(i, d)
        BY <1>3, <1>6, <2>1, <3>1, <3>3 DEF OwnResult
      <4>. QED BY <3>2, <4>1, SameContent
    <3>. QED BY <1>2, <1>6, <1>8, <2>1, <3>2, <3>3 DEF OwnResult
  <2>3. CASE d = c
    <3>1. ASSUME NEW i \in DOMAIN heap, heap[i].name = name[c]
          PROVE  i = r /\ live[name[c]] = i /\ Holds(i, c)'
      <4>1. i = r /\ live[name[c]] = i /\ AllAdded(heap[r], c)
        BY <1>2, <2>1, <2>3, <3>1 DEF OwnResult, r, Holds
      <4>2. pc'[c] \notin {"send", "completed"}
        BY <1>2, <1>4
      <4>3. AllAdded(heap[i], c)'
        BY <1>5, <1>6, <4>1 DEF AllAdded
      <4>. QED BY <4>1, <4>2, <4>3 DEF Holds
    <3>. QED BY <1>2, <1>6, <1>8, <2>3, <3>1 DEF OwnResult, r
  <2>. QED BY <2>2, <2>3
<1>12. /\ \A d \in Check : pc'[d] = "completed" <=> pc[d] = "completed"
       /\ \A d \in Check : pc[d] = "suppressed" => pc'[d] = "suppressed"
  BY <1>2, <1>4
<1>13. ASSUME NEW d \in Check, pc[d] = "completed", Own(d) PROVE heap'[ref'[d]] = heap[ref[d]]
  <2>1. ref[d] \in DOMAIN heap /\ heap[ref[d]].name = name[d] /\ d # c
    BY <1>1, <1>2, <1>13 DEF HeapInv, RefInv
  <2>2. ref[d] # r
    BY <1>3, <1>13, <2>1 DEF Own
  <2>. QED BY <1>2, <1>6, <2>1, <2>2
<1>. QED BY <1>2, <1>8, <1>9, <1>10, <1>11, <1>12, <1>13, QuietStep

LEMMA Marked == ASSUME UploaderInv, NEW c \in Check, CompleteMarks(c) PROVE UploaderInv'
<1>. DEFINE r == ref[c]
<1>1. MoreTypes /\ HeapInv /\ OwnInv
  BY DEF UploaderInv
<1>0. PICK note \in TagNotes(heap[r]) : heap' = [heap EXCEPT ![r] = CompletedBy(heap[r], c, note)]
  BY DEF CompleteMarks
<1>. DEFINE h == CompletedBy(heap[r], c, note)
<1>2. /\ pc[c] = "complete" /\ live' = [live EXCEPT ![name[c]] = 0] /\ pc' = [pc EXCEPT ![c] = "send"]
      /\ heap' = [heap EXCEPT ![r] = h]
      /\ UNCHANGED <<name, adds, ref, emitted, boxes, up, failed, closing>>
  BY <1>0 DEF CompleteMarks, uploadVars, boxes
<1>3. r \in DOMAIN heap /\ heap[r].name = name[c] /\ r # 0
  BY <1>1, <1>2 DEF HeapInv, RefInv
<1>4. heap \in Seq(Result) /\ DOMAIN pc = Check /\ live \in [Name -> 0..Len(heap)] /\ name \in [Check -> Name]
  BY <1>1 DEF MoreTypes, UploaderTypeOK
<1>5. h \in Result /\ h.name = heap[r].name /\ h.by = heap[r].by \cup {c}
      /\ (AllAdded(heap[r], c) => CutToSize(h, c))
  <2>1. heap[r] \in Result /\ emitted[c] \in 0..MaxFindings
    BY <1>1, <1>3, <1>4 DEF MoreTypes, UploaderTypeOK
  <2>. QED BY <2>1, CompletedContent, CompletedResult
<1>. HIDE DEF r, h
<1>6. /\ heap' \in Seq(Result) /\ Len(heap') = Len(heap) /\ DOMAIN heap' = DOMAIN heap
      /\ \A i \in DOMAIN heap : heap'[i] = IF i = r THEN h ELSE heap[i]
  <2>1. /\ [heap EXCEPT ![r] = h] \in Seq(Result) /\ Len([heap EXCEPT ![r] = h]) = Len(heap)
        /\ \A i \in 1..Len(heap) : [heap EXCEPT ![r] = h][i] = IF i = r THEN h ELSE heap[i]
    BY <1>3, <1>4, <1>5, ExceptSeq
  <2>. QED BY <1>2, <1>4, <2>1
<1>7. \A i \in DOMAIN heap : /\ heap'[i].name = heap[i].name
                             /\ heap'[i].by = IF i = r THEN heap[i].by \cup {c} ELSE heap[i].by
  BY <1>5, <1>6
<1>8. MoreTypes'
  <2>1. /\ pc' \in [Check -> PcOfCheck] /\ ref' \in [Check -> {0} \cup Address]
        /\ emitted' \in [Check -> 0..MaxFindings]
    BY <1>1, <1>2 DEF MoreTypes, UploaderTypeOK, PcOfCheck
  <2>2. doneChecks' \in Seq(DOMAIN heap') /\ Len(heap') <= Cardinality(Address)
    BY <1>1, <1>2, <1>6 DEF MoreTypes, UploaderTypeOK, boxes
  <2>3. UNCHANGED <<name, adds, requests, posted, delivered, up, failed, closing>>
    BY <1>2 DEF boxes
  <2>4. live' \in [Name -> 0..Len(heap')] /\ Len(heap) <= Len(heap')
    BY <1>2, <1>4, <1>6
  <2>. QED BY <1>1, <1>6, <2>1, <2>2, <2>3, <2>4, CheckTypes
<1>9. HeapInv'
  <2>1. BegunCalls' = BegunCalls
    <3>1. \A d \in Check : Begun(d)' = Begun(d)
      BY <1>2, <1>4 DEF Begun
    <3>. QED BY <3>1, SameBegun
  <2>2. ASSUME NEW d \in Check PROVE RefInv(d)'
    <3>1. RefInv(d)
      BY <1>1 DEF HeapInv
    <3>2. CASE d = c
      BY <1>2, <1>3, <1>4, <1>6, <1>7, <3>2 DEF RefInv, r
    <3>3. CASE d # c
      <4>1. pc'[d] = pc[d]
        BY <1>2, <1>4, <3>3
      <4>2. ref[d] \in DOMAIN heap => heap'[ref[d]].name = heap[ref[d]].name /\ heap[ref[d]].by \subseteq heap'[ref[d]].by
        BY <1>7
      <4>3. pc[d] \in {"send", "completed"} => d \in heap'[ref[d]].by
        BY <3>1, <4>2 DEF RefInv
      <4>. QED BY <1>2, <1>6, <3>1, <4>1, <4>2, <4>3 DEF RefInv
    <3>. QED BY <3>2, <3>3
  <2>3. ASSUME NEW n \in Name, live'[n] # 0 PROVE heap'[live'[n]].name = n
    <3>1. live'[n] = live[n] /\ live[n] \in DOMAIN heap
      BY <1>2, <1>4, <2>3
    <3>2. heap[live[n]].name = n
      BY <1>1, <2>3, <3>1 DEF HeapInv
    <3>3. heap'[live[n]].name = heap[live[n]].name
      BY <1>7, <3>1
    <3>. QED BY <3>1, <3>2, <3>3
  <2>4. ASSUME NEW i \in DOMAIN heap', NEW d \in heap'[i].by
        PROVE  name[d] = heap'[i].name /\ ref[d] = i /\ pc'[d] \in {"send", "completed"}
    <3>1. CASE d \in heap[i].by
      <4>1. name[d] = heap[i].name /\ ref[d] = i /\ pc[d] \in {"send", "completed"}
        BY <1>1, <1>6, <3>1 DEF HeapInv
      <4>2. d \in Check
        BY <1>1, <1>6, <3>1 DEF MoreTypes, UploaderTypeOK
      <4>3. pc'[d] \in {"send", "completed"} /\ heap'[i].name = heap[i].name
        BY <1>2, <1>4, <1>6, <1>7, <4>1, <4>2
      <4>. QED BY <1>2, <4>1, <4>3
    <3>2. CASE d \notin heap[i].by
      <4>1. i = r /\ d = c
        BY <1>6, <1>7, <2>4, <3>2
      <4>2. pc'[c] = "send" /\ heap'[i].name = name[c]
        BY <1>2, <1>3, <1>4, <1>7, <4>1
      <4>. QED BY <1>2, <4>1, <4>2 DEF r
    <3>. QED BY <3>1, <3>2
  <2>5. ASSUME NEW i \in DOMAIN heap', InBox(i)' PROVE \E d \in heap'[i].by : pc'[d] = "completed"
    <3>1. PICK d \in heap[i].by : pc[d] = "completed"
      BY <1>1, <1>2, <1>6, <2>5 DEF HeapInv, InBox, boxes
    <3>2. d # c /\ d \in heap'[i].by
      BY <1>2, <1>6, <1>7, <3>1
    <3>3. d \in Check
      BY <1>1, <1>6, <3>1 DEF MoreTypes, UploaderTypeOK
    <3>4. pc'[d] = "completed"
      BY <1>2, <1>4, <3>1, <3>2, <3>3
    <3>. QED BY <3>2, <3>4
  <2>6. Len(heap') <= Cardinality(BegunCalls')
    BY <1>1, <1>6, <2>1 DEF HeapInv
  <2>7. UNCHANGED <<name, adds, ref>>
    BY <1>2
  <2>8. \A i \in DOMAIN heap' : \A d \in heap'[i].by :
          name'[d] = heap'[i].name /\ ref'[d] = i /\ pc'[d] \in {"send", "completed"}
    BY <2>4, <2>7
  <2>9. \A i \in DOMAIN heap' : InBox(i)' => \E d \in heap'[i].by : pc'[d] = "completed"
    BY <2>5
  <2>10. \A n \in Name : live'[n] # 0 => heap'[live'[n]].name = n
    BY <2>3
  <2>. QED BY <2>2, <2>6, <2>8, <2>9, <2>10 DEF HeapInv
<1>10. ASSUME NEW d \in Check, Own(d) PROVE OwnResult(d)'
  <2>1. OwnResult(d)
    BY <1>1, <1>10 DEF OwnInv
  <2>2. CASE d # c
    <3>1. name[d] # name[c]
      BY <1>10, <2>2 DEF Own
    <3>2. live'[name[d]] = live[name[d]] /\ pc'[d] = pc[d]
      BY <1>2, <1>4, <2>2, <3>1
    <3>3. ASSUME NEW i \in DOMAIN heap, heap[i].name = name[d]
          PROVE  i = ref[d] /\ Holds(i, d)'
      <4>1. i = ref[d] /\ Holds(i, d) /\ heap'[i] = heap[i]
        BY <1>3, <1>6, <2>1, <3>1, <3>3 DEF OwnResult
      <4>. QED BY <1>2, <3>2, <4>1, SameContent
    <3>4. ASSUME NEW i \in DOMAIN heap, heap[i].name = name[d], pc'[d] \notin {"send", "completed"}
          PROVE  live'[name[d]] = i
      BY <2>1, <3>2, <3>4 DEF OwnResult
    <3>5. ASSUME NEW i \in DOMAIN heap', heap'[i].name = name'[d]
          PROVE  /\ i = ref'[d]
                 /\ pc'[d] \notin {"send", "completed"} => live'[name'[d]] = i
                 /\ Holds(i, d)'
      <4>1. i \in DOMAIN heap /\ heap[i].name = name[d]
        BY <1>2, <1>6, <1>7, <3>5
      <4>2. UNCHANGED <<name, adds, ref, emitted>>
        BY <1>2
      <4>. QED BY <3>3, <3>4, <4>1, <4>2
    <3>. QED BY <3>5 DEF OwnResult
  <2>3. CASE d = c
    <3>1. pc'[c] = "send"
      BY <1>2, <1>4
    <3>2. ASSUME NEW i \in DOMAIN heap, heap[i].name = name[c]
          PROVE  i = ref[c] /\ Holds(i, c)'
      <4>1. i = r /\ AllAdded(heap[r], c)
        BY <1>2, <2>1, <2>3, <3>2 DEF OwnResult, Holds, r
      <4>2. CutToSize(heap'[i], c) /\ adds' = adds /\ emitted' = emitted
        BY <1>2, <1>3, <1>5, <1>6, <4>1
      <4>3. CutToSize(heap[i], c)'
        <5>1. FindingsOf(c)' = FindingsOf(c) /\ ArtifactsOf(c)' = ArtifactsOf(c) /\ (Tags(c)' <=> Tags(c))
          BY <4>2, SameTold
        <5>2. SummaryOf(heap'[i].summary, FindingsOf(c)', Tags(c)')
          BY <4>2, <5>1 DEF CutToSize, SummaryOf
        <5>. QED BY <4>2, <5>1, <5>2 DEF CutToSize
      <4>. QED BY <3>1, <4>1, <4>3 DEF Holds, r
    <3>. QED BY <1>2, <1>6, <1>7, <2>3, <3>1, <3>2 DEF OwnResult
  <2>. QED BY <2>2, <2>3
<1>11. /\ \A d \in Check : pc'[d] = "completed" <=> pc[d] = "completed"
       /\ \A d \in Check : pc[d] = "suppressed" => pc'[d] = "suppressed"
  BY <1>2, <1>4
<1>12. ASSUME NEW d \in Check, pc[d] = "completed", Own(d) PROVE heap'[ref'[d]] = heap[ref[d]]
  <2>1. ref[d] \in DOMAIN heap /\ heap[ref[d]].name = name[d] /\ d # c
    BY <1>1, <1>2, <1>12 DEF HeapInv, RefInv
  <2>2. ref[d] # r
    BY <1>3, <1>12, <2>1 DEF Own
  <2>. QED BY <1>2, <1>6, <2>1, <2>2
<1>13. ASSUME NEW i \in DOMAIN heap, InBox(i), NEW d \in Check, pc[d] = "completed" \/ Own(d)
       PROVE  d \in heap'[i].by <=> d \in heap[i].by
  <2>1. CASE d = c /\ i = r
    <3>1. Own(c) /\ pc[c] # "completed"
      BY <1>2, <1>13, <2>1
    <3>2. heap[i].name # name[c]
      BY <1>1, <1>13, <3>1, NotSent
    <3>. QED BY <1>3, <2>1, <3>2
  <2>2. CASE ~(d = c /\ i = r)
    BY <1>7, <2>2
  <2>. QED BY <2>1, <2>2
<1>. QED BY <1>2, <1>8, <1>9, <1>10, <1>11, <1>12, <1>13, QuietStep

LEMMA LeftOut == ASSUME UploaderInv, NEW c \in Check, Suppressed(c) PROVE UploaderInv'
<1>1. MoreTypes /\ HeapInv /\ OwnInv
  BY DEF UploaderInv
<1>2. /\ pc[c] = "idle" /\ pc' = [pc EXCEPT ![c] = "suppressed"]
      /\ UNCHANGED <<name, adds, ref, emitted, live, heap, boxes, up, failed, closing>>
  BY DEF Suppressed, uploadVars, boxes
<1>3. DOMAIN pc = Check /\ heap \in Seq(Result)
  BY <1>1 DEF MoreTypes, UploaderTypeOK
<1>4. \A d \in Check : \A s \in {"emit", "complete", "send", "completed"} : pc'[d] = s <=> pc[d] = s
  BY <1>2, <1>3
<1>5. MoreTypes'
  <2>1. pc' \in [Check -> PcOfCheck]
    BY <1>1, <1>2 DEF MoreTypes, UploaderTypeOK, PcOfCheck
  <2>2. Len(heap) <= Len(heap')
    BY <1>2, <1>3
  <2>. QED BY <1>1, <1>2, <2>1, <2>2, CheckTypes DEF MoreTypes, UploaderTypeOK, boxes
<1>6. HeapInv'
  <2>1. BegunCalls' = BegunCalls
    <3>1. \A d \in Check : Begun(d)' = Begun(d)
      BY <1>2, <1>4 DEF Begun
    <3>. QED BY <3>1, SameBegun
  <2>2. \A d \in Check : RefInv(d)'
    BY <1>1, <1>2, <1>4 DEF HeapInv, RefInv
  <2>3. ASSUME NEW i \in DOMAIN heap, NEW d \in heap[i].by
        PROVE  name[d] = heap[i].name /\ ref[d] = i /\ pc'[d] \in {"send", "completed"}
    <3>1. d \in Check
      BY <1>1 DEF MoreTypes, UploaderTypeOK
    <3>. QED BY <1>1, <1>4, <3>1 DEF HeapInv
  <2>4. ASSUME NEW i \in DOMAIN heap, InBox(i) PROVE \E d \in heap[i].by : pc'[d] = "completed"
    <3>1. PICK d \in heap[i].by : pc[d] = "completed"
      BY <1>1, <2>4 DEF HeapInv
    <3>2. pc'[d] = "completed"
      BY <2>3, <1>2, <1>3, <3>1
    <3>. QED BY <3>1, <3>2
  <2>. QED BY <1>1, <1>2, <2>1, <2>2, <2>3, <2>4 DEF HeapInv, InBox, boxes
<1>7. ASSUME NEW d \in Check, Own(d) PROVE OwnResult(d)'
  <2>1. pc'[d] \notin {"send", "completed"} => pc[d] \notin {"send", "completed"}
    BY <1>4
  <2>2. OwnResult(d)
    BY <1>1, <1>7 DEF OwnInv
  <2>3. ASSUME NEW i \in DOMAIN heap, heap[i].name = name[d] PROVE Holds(i, d)'
    <3>1. Holds(i, d)
      BY <2>2, <2>3 DEF OwnResult
    <3>. QED BY <1>2, <1>4, <3>1, SameContent
  <2>. QED BY <1>2, <2>1, <2>2, <2>3 DEF OwnResult
<1>8. \A d \in Check : pc[d] = "suppressed" => pc'[d] = "suppressed"
  BY <1>2, <1>3
<1>. QED BY <1>2, <1>4, <1>5, <1>6, <1>7, <1>8, QuietStep

-----------------------------------------------------------------------------
(* Steps that move results                                                 *)

LEMMA BoxTypes ==
  ASSUME MoreTypes
  PROVE  /\ Channel \in Seq(Result) /\ Batch \in Seq(Result)
         /\ Len(Channel) = Len(doneChecks) /\ Len(Batch) = Len(requests)
         /\ \A i \in DOMAIN doneChecks : doneChecks[i] \in DOMAIN heap /\ InBox(doneChecks[i])
         /\ \A i \in DOMAIN requests : requests[i] \in DOMAIN heap /\ InBox(requests[i])
<1>1. /\ doneChecks \in Seq(DOMAIN heap) /\ requests \in Seq(DOMAIN heap)
      /\ \A a \in DOMAIN heap : heap[a] \in Result
  BY DEF MoreTypes, UploaderTypeOK
<1>2. /\ Len(doneChecks) \in Nat /\ DOMAIN doneChecks = 1..Len(doneChecks)
      /\ Len(requests) \in Nat /\ DOMAIN requests = 1..Len(requests)
      /\ \A i \in DOMAIN doneChecks : doneChecks[i] \in DOMAIN heap
      /\ \A i \in DOMAIN requests : requests[i] \in DOMAIN heap
  BY <1>1
<1>3. Channel \in [1..Len(doneChecks) -> Result] /\ Batch \in [1..Len(requests) -> Result]
  BY <1>1, <1>2 DEF Channel, Batch
<1>4. /\ Channel \in Seq(Result) /\ Batch \in Seq(Result)
      /\ DOMAIN Channel = 1..Len(doneChecks) /\ DOMAIN Batch = 1..Len(requests)
  BY <1>2, <1>3, SeqDef
<1>5. Len(Channel) = Len(doneChecks) /\ Len(Batch) = Len(requests)
  BY <1>2, <1>4
<1>. QED BY <1>2, <1>4, <1>5 DEF InBox

\* The only completed check of a result of its own is the check.
LEMMA OwnCompletes ==
  ASSUME MoreTypes, HeapInv, NEW c \in Check, Own(c), NEW a \in DOMAIN heap, c \in heap[a].by
  PROVE  /\ ref[c] = a /\ heap[a].name = name[c]
         /\ InBox(a) => pc[c] = "completed"
<1>1. ref[c] = a /\ heap[a].name = name[c]
  BY DEF HeapInv
<1>2. ASSUME InBox(a) PROVE pc[c] = "completed"
  <2>1. PICK d \in heap[a].by : pc[d] = "completed" /\ name[d] = heap[a].name
    BY <1>2 DEF HeapInv
  <2>2. d \in Check
    BY <2>1 DEF MoreTypes, UploaderTypeOK
  <2>. QED BY <1>1, <2>1, <2>2 DEF Own
<1>. QED BY <1>1, <1>2

\* What is left to show of a step of the upload goroutine, of a request or of Close.
LEMMA UploadStep ==
  ASSUME UploaderInv, MoreTypes', UNCHANGED checkVars,
         \A a \in DOMAIN heap : InBox(a)' => InBox(a),
         \A c \in Check : Own(c) => InOnePlace(c)' /\ Final(c)',
         KeptInv', ClosingInv'
  PROVE  UploaderInv'
<1>1. HeapInv /\ OwnInv
  BY DEF UploaderInv
<1>2. UNCHANGED <<name, adds, pc, ref, emitted, live, heap>>
  BY DEF checkVars
<1>3. BegunCalls' = BegunCalls /\ \A c \in Check : RefInv(c)' <=> RefInv(c)
  <2>1. \A c \in Check : Begun(c)' = Begun(c)
    BY <1>2 DEF Begun
  <2>2. \A c \in Check : RefInv(c)' <=> RefInv(c)
    BY <1>2 DEF RefInv
  <2>. QED BY <2>1, <2>2, SameBegun
<1>4. HeapInv'
  BY <1>1, <1>2, <1>3 DEF HeapInv
<1>5. ASSUME NEW c \in Check, Own(c)' PROVE OwnResult(c)' /\ InOnePlace(c)' /\ Final(c)'
  <2>1. Own(c)
    BY <1>2, <1>5 DEF Own
  <2>2. OwnResult(c)'
    <3>1. OwnResult(c)
      BY <1>1, <2>1 DEF OwnInv
    <3>2. ASSUME NEW i \in DOMAIN heap, heap[i].name = name[c] PROVE Holds(i, c)'
      <4>1. Holds(i, c)
        BY <3>1, <3>2 DEF OwnResult
      <4>. QED BY <1>2, <4>1, SameContent
    <3>. QED BY <1>2, <3>1, <3>2 DEF OwnResult
  <2>. QED BY <2>1, <2>2
<1>. QED BY <1>4, <1>5 DEF UploaderInv, OwnInv

LEMMA Received == ASSUME UploaderInv, Receive PROVE UploaderInv'
<1>. DEFINE h == Head(doneChecks)
            r == Head(Channel)
<1>1. MoreTypes /\ HeapInv /\ OwnInv /\ KeptInv /\ ClosingInv
  BY DEF UploaderInv
<1>2. /\ doneChecks # <<>> /\ requests' = Append(requests, h) /\ doneChecks' = Tail(doneChecks)
      /\ up \in {"recv", "batch"} /\ up' = "batch"
      /\ up = "batch" => Len(requests) < MaxBatch
      /\ UNCHANGED checkVars /\ UNCHANGED heap /\ UNCHANGED <<posted, delivered, failed, closing>>
  BY DEF Receive, Room, checkVars
<1>3. /\ doneChecks \in Seq(DOMAIN heap) /\ requests \in Seq(DOMAIN heap) /\ MaxBatch \in Nat \ {0}
      /\ up = "batch" <=> requests # <<>>
      /\ Channel \in Seq(Result) /\ Batch \in Seq(Result)
      /\ Len(Channel) = Len(doneChecks) /\ Len(Batch) = Len(requests)
  BY <1>1, BoxTypes, UploaderAssumption DEF MoreTypes, UploaderTypeOK
<1>4. /\ h \in DOMAIN heap /\ h = doneChecks[1] /\ Tail(doneChecks) \in Seq(DOMAIN heap)
      /\ Len(doneChecks) \in Nat \ {0} /\ DOMAIN doneChecks = 1..Len(doneChecks)
      /\ DOMAIN Tail(doneChecks) = 1..(Len(doneChecks) - 1)
      /\ \A i \in 1..(Len(doneChecks) - 1) : Tail(doneChecks)[i] = doneChecks[i + 1]
  BY <1>2, <1>3, HeadTailProperties
<1>5. /\ Append(requests, h) \in Seq(DOMAIN heap) /\ Len(Append(requests, h)) = Len(requests) + 1
      /\ Len(requests) \in Nat /\ DOMAIN requests = 1..Len(requests)
      /\ DOMAIN Append(requests, h) = 1..(Len(requests) + 1)
      /\ \A i \in 1..Len(requests) : Append(requests, h)[i] = requests[i]
      /\ Append(requests, h)[Len(requests) + 1] = h /\ Append(requests, h) # <<>>
  BY <1>3, <1>4, AppendProperties
<1>6. Channel # <<>> /\ r = heap[h] /\ r \in Result /\ Channel' = Tail(Channel)
  <2>1. Channel # <<>> /\ Len(Tail(Channel)) = Len(doneChecks) - 1 /\ Tail(Channel) \in Seq(Result)
    BY <1>3, <1>4, HeadTailProperties
  <2>2. /\ DOMAIN Channel = 1..Len(doneChecks) /\ r = Channel[1] /\ r \in Result
        /\ \A i \in 1..(Len(doneChecks) - 1) : Tail(Channel)[i] = Channel[i + 1]
        /\ DOMAIN Tail(Channel) = 1..(Len(doneChecks) - 1)
    BY <1>3, <2>1, HeadTailProperties
  <2>3. r = heap[h]
    BY <1>4, <2>2 DEF Channel
  <2>4. Channel' = [i \in 1..(Len(doneChecks) - 1) |-> heap[doneChecks[i + 1]]]
    BY <1>2, <1>4 DEF Channel
  <2>5. \A i \in 1..(Len(doneChecks) - 1) : Tail(Channel)[i] = heap[doneChecks[i + 1]]
    BY <1>4, <2>2 DEF Channel
  <2>6. Tail(Channel) = [i \in 1..(Len(doneChecks) - 1) |-> heap[doneChecks[i + 1]]]
    <3>. DEFINE t == Tail(Channel)
    <3>1. t \in Seq(Result) /\ DOMAIN t = 1..(Len(doneChecks) - 1)
          /\ \A i \in 1..(Len(doneChecks) - 1) : t[i] = heap[doneChecks[i + 1]]
      BY <2>1, <2>2, <2>5
    <3>. HIDE DEF t
    <3>2. t = [i \in 1..(Len(doneChecks) - 1) |-> heap[doneChecks[i + 1]]]
      BY <3>1
    <3>. QED BY <3>2 DEF t
  <2>. QED BY <2>1, <2>2, <2>3, <2>4, <2>6
<1>7. Batch' = Append(Batch, r)
  <2>1. /\ DOMAIN Append(Batch, r) = 1..(Len(requests) + 1)
        /\ \A i \in 1..Len(requests) : Append(Batch, r)[i] = Batch[i]
        /\ Append(Batch, r)[Len(requests) + 1] = r
        /\ Append(Batch, r) \in Seq(Result)
    BY <1>3, <1>6, AppendProperties
  <2>2. Batch' = [i \in 1..(Len(requests) + 1) |-> heap[requests'[i]]]
    BY <1>2, <1>5 DEF Batch
  <2>3. \A i \in 1..(Len(requests) + 1) : Append(Batch, r)[i] = heap[requests'[i]]
    BY <1>2, <1>5, <1>6, <2>1 DEF Batch
  <2>. QED BY <2>1, <2>2, <2>3
<1>. HIDE DEF r, h
<1>8. MoreTypes'
  <2>1. Len(requests') <= MaxBatch
    BY <1>2, <1>3, <1>5
  <2>2. UNCHANGED <<name, adds, pc, ref, emitted, live, heap>>
    BY <1>2 DEF checkVars
  <2>3. UploaderTypeOK'
    BY <1>1, <1>2, <1>4, <1>5, <2>2 DEF MoreTypes, UploaderTypeOK
  <2>. QED BY <1>1, <1>2, <2>1, <2>3 DEF MoreTypes
<1>9. ASSUME NEW a \in DOMAIN heap, InBox(a)' PROVE InBox(a)
  <2>1. CASE \E i \in DOMAIN doneChecks' : doneChecks'[i] = a
    <3>1. PICK i \in 1..(Len(doneChecks) - 1) : doneChecks[i + 1] = a
      BY <1>2, <1>4, <2>1
    <3>2. i + 1 \in DOMAIN doneChecks
      BY <1>4
    <3>. QED BY <3>1, <3>2 DEF InBox
  <2>2. CASE \E i \in DOMAIN requests' : requests'[i] = a
    <3>1. PICK i \in 1..(Len(requests) + 1) : requests'[i] = a
      BY <1>2, <1>5, <2>2
    <3>2. CASE i \in 1..Len(requests)
      BY <1>2, <1>5, <3>1, <3>2 DEF InBox
    <3>3. CASE i = Len(requests) + 1
      <4>1. a = doneChecks[1] /\ 1 \in DOMAIN doneChecks
        BY <1>2, <1>4, <1>5, <3>1, <3>3
      <4>. QED BY <4>1 DEF InBox
    <3>. QED BY <1>5, <3>2, <3>3
  <2>. QED BY <1>9, <2>1, <2>2 DEF InBox
<1>10. ASSUME NEW c \in Check
       PROVE  /\ Has(Channel, c) <=> Has(Channel', c) \/ c \in r.by
              /\ Once(Channel, c) => Once(Channel', c) /\ ~(Has(Channel', c) /\ c \in r.by)
              /\ Has(Batch', c) <=> Has(Batch, c) \/ c \in r.by
              /\ Once(Batch, c) /\ ~(Has(Batch, c) /\ c \in r.by) => Once(Batch', c)
  <2>1. /\ Has(Channel, c) <=> Has(Tail(Channel), c) \/ c \in r.by
        /\ Once(Channel, c) => Once(Tail(Channel), c) /\ ~(Has(Tail(Channel), c) /\ c \in r.by)
    BY <1>3, <1>6, TailHas DEF r
  <2>2. /\ Has(Append(Batch, r), c) <=> Has(Batch, c) \/ c \in r.by
        /\ Once(Batch, c) /\ ~(Has(Batch, c) /\ c \in r.by) => Once(Append(Batch, r), c)
    BY <1>3, <1>6, AppendHas
  <2>. QED BY <1>6, <1>7, <2>1, <2>2
<1>11. ASSUME NEW c \in Check, Own(c) PROVE InOnePlace(c)' /\ Final(c)'
  <2>1. InOnePlace(c) /\ Final(c)
    BY <1>1, <1>11 DEF OwnInv
  <2>2. InOnePlace(c)'
    BY <1>2, <1>10, <2>1 DEF InOnePlace
  <2>3. Final(c)'
    BY <1>2, <2>1 DEF Final, checkVars
  <2>. QED BY <2>2, <2>3
<1>12. KeptInv'
  <2>1. pc' = pc
    BY <1>2 DEF checkVars
  <2>2. ASSUME NEW c \in Check, pc[c] = "completed", ~failed
        PROVE  Has(Channel', c) \/ Has(Batch', c) \/ Has(delivered, c) \/ \E b \in posted : Has(b.results, c)
    BY <1>1, <1>10, <2>2 DEF KeptInv
  <2>. QED BY <1>2, <2>1, <2>2 DEF KeptInv
<1>13. ClosingInv'
  BY <1>1, <1>2 DEF ClosingInv, checkVars
<1>. QED BY <1>2, <1>8, <1>9, <1>11, <1>12, <1>13, UploadStep

LEMMA Sent == ASSUME UploaderInv, NEW c \in Check, CompleteSends(c) PROVE UploaderInv'
<1>. DEFINE a == ref[c]
            r == heap[a]
<1>1. MoreTypes /\ HeapInv /\ OwnInv /\ KeptInv /\ ClosingInv
  BY DEF UploaderInv
<1>2. /\ pc[c] = "send" /\ doneChecks' = Append(doneChecks, a) /\ pc' = [pc EXCEPT ![c] = "completed"]
      /\ UNCHANGED <<name, adds, ref, emitted, live, heap, requests, posted, delivered, up, failed, closing>>
  BY DEF CompleteSends, uploadVars
<1>3. /\ a \in DOMAIN heap /\ r.name = name[c] /\ c \in r.by /\ r \in Result
      /\ DOMAIN pc = Check /\ doneChecks \in Seq(DOMAIN heap) /\ heap \in Seq(Result)
      /\ Channel \in Seq(Result) /\ Len(Channel) = Len(doneChecks)
  <2>1. RefInv(c)
    BY <1>1 DEF HeapInv
  <2>2. a \in DOMAIN heap /\ r.name = name[c] /\ c \in r.by
    BY <1>2, <2>1 DEF RefInv
  <2>3. DOMAIN pc = Check /\ doneChecks \in Seq(DOMAIN heap) /\ heap \in Seq(Result)
    BY <1>1 DEF MoreTypes, UploaderTypeOK
  <2>. QED BY <1>1, <2>2, <2>3, BoxTypes
<1>4. /\ Append(doneChecks, a) \in Seq(DOMAIN heap)
      /\ Len(doneChecks) \in Nat /\ DOMAIN doneChecks = 1..Len(doneChecks)
      /\ DOMAIN Append(doneChecks, a) = 1..(Len(doneChecks) + 1)
      /\ \A i \in 1..Len(doneChecks) : Append(doneChecks, a)[i] = doneChecks[i]
      /\ Append(doneChecks, a)[Len(doneChecks) + 1] = a
  BY <1>3, AppendProperties
<1>5. Channel' = Append(Channel, r)
  <2>1. /\ DOMAIN Append(Channel, r) = 1..(Len(doneChecks) + 1)
        /\ \A i \in 1..Len(doneChecks) : Append(Channel, r)[i] = Channel[i]
        /\ Append(Channel, r)[Len(doneChecks) + 1] = r
        /\ Append(Channel, r) \in Seq(Result)
    BY <1>3, AppendProperties
  <2>2. Channel' = [i \in 1..(Len(doneChecks) + 1) |-> heap[doneChecks'[i]]]
    BY <1>2, <1>4 DEF Channel
  <2>3. \A i \in 1..(Len(doneChecks) + 1) : Append(Channel, r)[i] = heap[doneChecks'[i]]
    BY <1>2, <1>4, <2>1 DEF Channel
  <2>. QED BY <2>1, <2>2, <2>3
<1>6. ASSUME NEW d \in Check
      PROVE  /\ Has(Channel', d) <=> Has(Channel, d) \/ d \in r.by
             /\ Once(Channel, d) /\ ~(Has(Channel, d) /\ d \in r.by) => Once(Channel', d)
  <2>1. /\ Has(Append(Channel, r), d) <=> Has(Channel, d) \/ d \in r.by
        /\ Once(Channel, d) /\ ~(Has(Channel, d) /\ d \in r.by) => Once(Append(Channel, r), d)
    BY <1>3, AppendHas
  <2>. QED BY <1>5, <2>1
<1>. HIDE DEF a, r
<1>7. Batch' = Batch
  BY <1>2 DEF Batch
<1>8. \A d \in Check : d # c => pc'[d] = pc[d]
  BY <1>2, <1>3
<1>9. pc'[c] = "completed"
  BY <1>2, <1>3
<1>10. MoreTypes'
  <2>1. pc' \in [Check -> PcOfCheck]
    BY <1>1, <1>2 DEF MoreTypes, UploaderTypeOK, PcOfCheck
  <2>2. Len(heap) <= Len(heap')
    BY <1>2, <1>3
  <2>. QED BY <1>1, <1>2, <1>4, <2>1, <2>2, CheckTypes DEF MoreTypes, UploaderTypeOK
<1>11. HeapInv'
  <2>1. BegunCalls' = BegunCalls
    <3>1. \A d \in Check : Begun(d)' = Begun(d)
      BY <1>2, <1>8, <1>9 DEF Begun
    <3>. QED BY <3>1, SameBegun
  <2>2. ASSUME NEW d \in Check PROVE RefInv(d)'
    <3>1. RefInv(d)
      BY <1>1 DEF HeapInv
    <3>2. CASE d = c
      BY <1>2, <1>9, <3>1, <3>2 DEF RefInv
    <3>3. CASE d # c
      BY <1>2, <1>8, <3>1, <3>3 DEF RefInv
    <3>. QED BY <3>2, <3>3
  <2>3. ASSUME NEW i \in DOMAIN heap, NEW d \in heap[i].by
        PROVE  name[d] = heap[i].name /\ ref[d] = i /\ pc'[d] \in {"send", "completed"}
    <3>1. d \in Check
      BY <1>1 DEF MoreTypes, UploaderTypeOK
    <3>2. name[d] = heap[i].name /\ ref[d] = i /\ pc[d] \in {"send", "completed"}
      BY <1>1 DEF HeapInv
    <3>. QED BY <1>8, <1>9, <3>1, <3>2
  <2>4. ASSUME NEW i \in DOMAIN heap, InBox(i)' PROVE \E d \in heap[i].by : pc'[d] = "completed"
    <3>1. CASE i = a
      BY <1>3, <1>9, <3>1 DEF r
    <3>2. CASE i # a
      <4>1. InBox(i)
        <5>1. ASSUME NEW j \in DOMAIN doneChecks', doneChecks'[j] = i PROVE j \in DOMAIN doneChecks /\ doneChecks[j] = i
          BY <1>2, <1>4, <3>2, <5>1
        <5>. QED BY <1>2, <2>4, <5>1 DEF InBox
      <4>2. PICK d \in heap[i].by : pc[d] = "completed"
        BY <1>1, <4>1 DEF HeapInv
      <4>3. d \in Check
        BY <1>1, <4>2 DEF MoreTypes, UploaderTypeOK
      <4>. QED BY <1>8, <1>9, <4>2, <4>3
    <3>. QED BY <3>1, <3>2
  <2>5. UNCHANGED <<name, adds, ref, heap, live>> /\ Len(heap') <= Cardinality(BegunCalls')
    BY <1>1, <1>2, <2>1 DEF HeapInv
  <2>6. \A n \in Name : live'[n] # 0 => heap'[live'[n]].name = n
    BY <1>1, <2>5 DEF HeapInv
  <2>7. \A i \in DOMAIN heap' : \A d \in heap'[i].by :
          name'[d] = heap'[i].name /\ ref'[d] = i /\ pc'[d] \in {"send", "completed"}
    BY <2>3, <2>5
  <2>8. \A i \in DOMAIN heap' : InBox(i)' => \E d \in heap'[i].by : pc'[d] = "completed"
    BY <2>4, <2>5
  <2>. QED BY <2>2, <2>5, <2>6, <2>7, <2>8 DEF HeapInv
<1>12. ASSUME NEW d \in Check, Own(d)' PROVE OwnResult(d)' /\ InOnePlace(d)' /\ Final(d)'
  <2>1. Own(d)
    BY <1>2, <1>12 DEF Own
  <2>2. OwnResult(d) /\ InOnePlace(d) /\ Final(d)
    BY <1>1, <2>1 DEF OwnInv
  <2>3. OwnResult(d)'
    <3>1. pc'[d] \in {"send", "completed"} <=> pc[d] \in {"send", "completed"}
      BY <1>2, <1>8, <1>9
    <3>2. UNCHANGED <<name, adds, ref, emitted, heap, live>>
      BY <1>2
    <3>3. ASSUME NEW i \in DOMAIN heap, Holds(i, d) PROVE Holds(i, d)'
      <4>1. adds' = adds /\ emitted'[d] = emitted[d] /\ heap'[i] = heap[i]
        BY <3>2
      <4>. QED BY <3>1, <3>3, <4>1, SameContent
    <3>4. ASSUME NEW i \in DOMAIN heap, heap[i].name = name[d]
          PROVE  /\ i = ref[d] /\ Holds(i, d)'
                 /\ pc'[d] \notin {"send", "completed"} => live[name[d]] = i
      BY <2>2, <3>1, <3>3, <3>4 DEF OwnResult
    <3>. QED BY <3>2, <3>4 DEF OwnResult
  <2>4. CASE d = c
    <3>1. /\ ~Has(Channel, c) /\ ~Has(Batch, c) /\ ~Has(delivered, c)
          /\ \A b \in posted : ~Has(b.results, c)
      <4>1. pc[c] # "completed"
        BY <1>2
      <4>. QED BY <1>1, <2>1, <2>4, <4>1, NotSent
    <3>2. InOnePlace(d)'
      BY <1>2, <1>6, <1>7, <2>2, <2>4, <3>1 DEF InOnePlace
    <3>3. Final(d)'
      BY <1>2, <2>4, <3>1 DEF Final, Has
    <3>. QED BY <2>3, <3>2, <3>3
  <2>5. CASE d # c
    <3>1. d \notin r.by
      <4>1. name[d] # r.name
        BY <1>3, <2>1, <2>5 DEF Own
      <4>. QED BY <1>1, <1>3, <4>1 DEF HeapInv, r
    <3>2. InOnePlace(d)'
      BY <1>2, <1>6, <1>7, <2>2, <3>1 DEF InOnePlace
    <3>3. Final(d)'
      BY <1>2, <1>8, <2>2, <2>5 DEF Final
    <3>. QED BY <2>3, <3>2, <3>3
  <2>. QED BY <2>4, <2>5
<1>13. ASSUME NEW d \in Check, pc'[d] = "completed", ~failed
       PROVE  Has(Channel', d) \/ Has(Batch, d) \/ Has(delivered, d) \/ \E b \in posted : Has(b.results, d)
  <2>1. CASE d = c
    BY <1>3, <1>6, <2>1
  <2>2. CASE d # c
    BY <1>1, <1>6, <1>8, <1>13, <2>2 DEF KeptInv
  <2>. QED BY <2>1, <2>2
<1>14. KeptInv'
  BY <1>2, <1>7, <1>13 DEF KeptInv
<1>15. ClosingInv'
  <2>1. closing = "no" /\ up # "gone"
    BY <1>1, <1>2 DEF ClosingInv
  <2>. QED BY <1>2, <2>1 DEF ClosingInv
<1>. QED BY <1>10, <1>11, <1>12, <1>14, <1>15 DEF UploaderInv, OwnInv

LEMMA Posted == ASSUME UploaderInv, Post PROVE UploaderInv'
<1>. DEFINE q == Request
<1>1. MoreTypes /\ HeapInv /\ OwnInv /\ KeptInv /\ ClosingInv
  BY DEF UploaderInv
<1>2. /\ up = "batch" /\ up' = "recv" /\ posted' = posted \cup {q} /\ requests' = <<>>
      /\ UNCHANGED checkVars
      /\ UNCHANGED <<name, adds, pc, ref, emitted, live, heap, doneChecks, delivered, failed, closing>>
  BY DEF Post, checkVars
<1>3. /\ q.results = Batch /\ Batch \in Seq(Result) /\ Len(Batch) \in 1..MaxBatch
      /\ \A i \in DOMAIN Batch : Batch[i] = heap[requests[i]] /\ requests[i] \in DOMAIN heap /\ InBox(requests[i])
  <2>1. q.results = Batch
    BY DEF Request, Batch
  <2>2. /\ Batch \in Seq(Result) /\ Len(Batch) = Len(requests)
        /\ \A i \in DOMAIN requests : requests[i] \in DOMAIN heap /\ InBox(requests[i])
    BY <1>1, BoxTypes
  <2>3. Len(requests) \in 1..MaxBatch
    <3>1. requests \in Seq(DOMAIN heap) /\ requests # <<>> /\ Len(requests) <= MaxBatch
      BY <1>1, <1>2 DEF MoreTypes, UploaderTypeOK
    <3>2. Len(requests) \in Nat \ {0}
      BY <3>1
    <3>. QED BY <3>1, <3>2, UploaderAssumption
  <2>. QED BY <2>1, <2>2, <2>3 DEF Batch
<1>. HIDE DEF q
<1>4. Channel' = Channel /\ Batch' = <<>>
  BY <1>2 DEF Channel, Batch
<1>5. MoreTypes'
  <2>1. UploaderTypeOK'
    BY <1>1, <1>2 DEF MoreTypes, UploaderTypeOK
  <2>2. \A b \in posted' : b.results \in Seq(Result) /\ Len(b.results) \in 1..MaxBatch
    BY <1>1, <1>2, <1>3 DEF MoreTypes
  <2>3. Len(requests') <= MaxBatch
    BY <1>2, UploaderAssumption
  <2>. QED BY <1>1, <1>2, <2>1, <2>2, <2>3 DEF MoreTypes
<1>6. ASSUME NEW a \in DOMAIN heap, InBox(a)' PROVE InBox(a)
  BY <1>2, <1>6 DEF InBox
<1>7. ASSUME NEW c \in Check, Own(c) PROVE InOnePlace(c)' /\ Final(c)'
  <2>1. InOnePlace(c) /\ Final(c)
    BY <1>1, <1>7 DEF OwnInv
  <2>2. ~Has(Batch', c) /\ Once(Batch', c)
    BY <1>4, EmptyHas
  <2>3. InOnePlace(c)'
    <3>1. /\ Once(Channel', c) /\ Once(delivered', c)
          /\ \A b \in posted' : Once(b.results, c)
      BY <1>2, <1>3, <1>4, <2>1 DEF InOnePlace
    <3>2. Has(Channel', c) => ~Has(delivered', c) /\ \A b \in posted' : ~Has(b.results, c)
      BY <1>2, <1>3, <1>4, <2>1 DEF InOnePlace
    <3>3. Has(delivered', c) => \A b \in posted' : ~Has(b.results, c)
      BY <1>2, <1>3, <1>4, <2>1 DEF InOnePlace
    <3>4. \A b1, b2 \in posted' : Has(b1.results, c) /\ Has(b2.results, c) => b1 = b2
      BY <1>2, <1>3, <2>1 DEF InOnePlace
    <3>. QED BY <2>2, <3>1, <3>2, <3>3, <3>4 DEF InOnePlace
  <2>4. ASSUME NEW i \in Times(Batch, c) PROVE pc[c] = "completed" /\ Batch[i] = heap[ref[c]]
    <3>1. i \in DOMAIN Batch /\ c \in heap[requests[i]].by
      BY <1>3 DEF Times
    <3>. QED BY <1>1, <1>3, <1>7, <3>1, OwnCompletes
  <2>5. Final(c)'
    BY <1>2, <1>3, <2>1, <2>4 DEF Final
  <2>. QED BY <2>3, <2>5
<1>8. KeptInv'
  BY <1>1, <1>2, <1>3, <1>4 DEF KeptInv
<1>9. ClosingInv'
  BY <1>1, <1>2 DEF ClosingInv
<1>. QED BY <1>2, <1>5, <1>6, <1>7, <1>8, <1>9, UploadStep

\* A request ends; its results are delivered or it fails, or both.
LEMMA SentOut ==
  ASSUME UploaderInv, NEW b \in posted, SendSucceeds(b) \/ SendFails(b) PROVE UploaderInv'
<1>1. MoreTypes /\ HeapInv /\ OwnInv /\ KeptInv /\ ClosingInv
  BY DEF UploaderInv
<1>2. /\ posted' = posted \ {b} /\ UNCHANGED checkVars
      /\ UNCHANGED <<name, adds, pc, ref, emitted, live, heap, doneChecks, requests, up, closing>>
      /\ failed' \in BOOLEAN
      /\ \/ delivered' = delivered \o b.results /\ failed' = failed
         \/ delivered' \in {delivered, delivered \o b.results} /\ failed' = TRUE
  BY <1>1 DEF SendSucceeds, SendFails, checkVars, MoreTypes, UploaderTypeOK
<1>3. b.results \in Seq(Result) /\ delivered \in Seq(Result)
  BY <1>1 DEF MoreTypes
<1>4. Channel' = Channel /\ Batch' = Batch
  BY <1>2 DEF Channel, Batch
<1>5. MoreTypes'
  <2>1. UploaderTypeOK'
    BY <1>1, <1>2 DEF MoreTypes, UploaderTypeOK
  <2>2. delivered \o b.results \in Seq(Result)
    BY <1>3, ConcatProperties
  <2>3. \A x \in posted' : x.results \in Seq(Result) /\ Len(x.results) \in 1..MaxBatch
    BY <1>1, <1>2 DEF MoreTypes
  <2>4. heap' \in Seq(Result) /\ delivered' \in Seq(Result) /\ Len(requests') <= MaxBatch
    BY <1>1, <1>2, <1>3, <2>2 DEF MoreTypes
  <2>. QED BY <2>1, <2>3, <2>4 DEF MoreTypes
<1>6. \A a \in DOMAIN heap : InBox(a)' => InBox(a)
  BY <1>2 DEF InBox
<1>. DEFINE d == delivered \o b.results
            r == b.results
<1>7. r \in Seq(Result) /\ d = delivered \o r
  BY <1>3
<1>. HIDE DEF d, r
<1>8. delivered' \in {delivered, d}
  BY <1>2 DEF d
<1>9. ASSUME NEW c \in Check, Own(c) PROVE InOnePlace(c)' /\ Final(c)'
  <2>1. InOnePlace(c) /\ Final(c)
    BY <1>1, <1>9 DEF OwnInv
  <2>. DEFINE v == heap[ref[c]]
  <2>. HIDE DEF v
  <2>2. /\ Has(d, c) <=> Has(delivered, c) \/ Has(b.results, c)
        /\ Once(delivered, c) /\ Once(b.results, c) /\ ~(Has(delivered, c) /\ Has(b.results, c)) => Once(d, c)
        /\ Only(delivered, c, v) /\ Only(b.results, c, v) => Only(d, c, v)
    <3>1. /\ Has(d, c) <=> Has(delivered, c) \/ Has(r, c)
          /\ Once(delivered, c) /\ Once(r, c) /\ ~(Has(delivered, c) /\ Has(r, c)) => Once(d, c)
          /\ Only(delivered, c, v) /\ Only(r, c, v) => Only(d, c, v)
      BY <1>3, <1>7, ConcatHas
    <3>. QED BY <3>1 DEF r
  <2>3. Once(d, c)
    BY <2>1, <2>2 DEF InOnePlace
  <2>4. Once(delivered', c) /\ (Has(delivered', c) => Has(delivered, c) \/ Has(b.results, c))
    BY <1>8, <2>1, <2>2, <2>3 DEF InOnePlace
  <2>5. InOnePlace(c)'
    <3>1. /\ Once(Channel', c) /\ Once(Batch', c)
          /\ \A x \in posted' : Once(x.results, c)
      BY <1>2, <1>4, <2>1 DEF InOnePlace
    <3>2. Has(Channel', c) => ~Has(Batch', c) /\ ~Has(delivered', c) /\ \A x \in posted' : ~Has(x.results, c)
      BY <1>2, <1>4, <2>1, <2>4 DEF InOnePlace
    <3>3. Has(Batch', c) => ~Has(delivered', c) /\ \A x \in posted' : ~Has(x.results, c)
      BY <1>2, <1>4, <2>1, <2>4 DEF InOnePlace
    <3>4. Has(delivered', c) => \A x \in posted' : ~Has(x.results, c)
      BY <1>2, <2>1, <2>4 DEF InOnePlace
    <3>5. \A b1, b2 \in posted' : Has(b1.results, c) /\ Has(b2.results, c) => b1 = b2
      BY <1>2, <2>1 DEF InOnePlace
    <3>. QED BY <2>4, <3>1, <3>2, <3>3, <3>4, <3>5 DEF InOnePlace
  <2>6. \A i \in Times(d, c) : pc[c] = "completed" /\ d[i] = heap[ref[c]]
    <3>1. Only(delivered, c, v) /\ Only(b.results, c, v)
      BY <2>1 DEF Final, Only, v
    <3>2. Only(d, c, v)
      BY <2>2, <3>1
    <3>3. Has(d, c) => pc[c] = "completed"
      BY <2>1, <2>2 DEF Final, Has
    <3>. QED BY <3>2, <3>3 DEF Only, Has, v
  <2>7. \A i \in Times(delivered', c) : pc[c] = "completed" /\ delivered'[i] = heap[ref[c]]
    BY <1>8, <2>1, <2>6 DEF Final
  <2>8. Final(c)'
    BY <1>2, <2>1, <2>7 DEF Final
  <2>. QED BY <2>5, <2>8
<1>10. KeptInv'
  <2>1. CASE failed'
    BY <2>1 DEF KeptInv
  <2>2. CASE ~failed'
    <3>1. delivered' = d /\ ~failed
      BY <1>2, <2>2 DEF d
    <3>2. ASSUME NEW c \in Check, pc[c] = "completed"
          PROVE  Has(Channel, c) \/ Has(Batch, c) \/ Has(d, c) \/ \E x \in posted \ {b} : Has(x.results, c)
      <4>1. Has(d, c) <=> Has(delivered, c) \/ Has(b.results, c)
        <5>1. Has(d, c) <=> Has(delivered, c) \/ Has(r, c)
          BY <1>3, <1>7, ConcatHas
        <5>. QED BY <5>1 DEF r
      <4>. QED BY <1>1, <3>1, <3>2, <4>1 DEF KeptInv
    <3>. QED BY <1>2, <1>4, <3>1, <3>2 DEF KeptInv
  <2>. QED BY <1>2, <2>1, <2>2
<1>11. ClosingInv'
  BY <1>1, <1>2 DEF ClosingInv
<1>. QED BY <1>2, <1>5, <1>6, <1>9, <1>10, <1>11, UploadStep

\* The upload goroutine ends, Close closes the channel, or it returns.
LEMMA Ended == ASSUME UploaderInv, UploaderEnds \/ CloseChannel \/ CloseReturns PROVE UploaderInv'
<1>1. MoreTypes /\ HeapInv /\ OwnInv /\ KeptInv /\ ClosingInv
  BY DEF UploaderInv
<1>2. /\ UNCHANGED checkVars
      /\ UNCHANGED <<name, adds, pc, ref, emitted, live, heap, doneChecks, requests, posted, delivered, failed>>
      /\ up' \in {up, "gone"} /\ closing' \in {closing, "closed", "ok", "error"}
  BY DEF UploaderEnds, CloseChannel, CloseReturns, checkVars, uploadVars
<1>3. /\ up' = "gone" <=> up' # up \/ up = "gone"
      /\ up' # up => up = "recv" /\ doneChecks = <<>> /\ closing # "no" /\ closing' = closing
      /\ closing' = "closed" /\ closing # "closed" => \A c \in Check : pc[c] \in {"completed", "suppressed"}
      /\ closing' \in {"ok", "error"} /\ closing' # closing =>
           up = "gone" /\ posted = {} /\ closing = "closed" /\ (closing' = "ok" => ~failed)
  BY DEF UploaderEnds, CloseChannel, CloseReturns, uploadVars
<1>4. requests = <<>> \/ up = "batch"
  BY <1>1 DEF MoreTypes, UploaderTypeOK
<1>5. MoreTypes'
  BY <1>1, <1>2, <1>3 DEF MoreTypes, UploaderTypeOK
<1>6. \A a \in DOMAIN heap : InBox(a)' => InBox(a)
  BY <1>2 DEF InBox
<1>7. Channel' = Channel /\ Batch' = Batch
  BY <1>2 DEF Channel, Batch
<1>8. ASSUME NEW c \in Check, Own(c) PROVE InOnePlace(c)' /\ Final(c)'
  BY <1>1, <1>2, <1>7, <1>8 DEF OwnInv, InOnePlace, Final
<1>9. KeptInv'
  BY <1>1, <1>2, <1>7 DEF KeptInv
<1>10. ClosingInv'
  BY <1>1, <1>2, <1>3, <1>4 DEF ClosingInv
<1>. QED BY <1>2, <1>5, <1>6, <1>8, <1>9, <1>10, UploadStep

-----------------------------------------------------------------------------
(* The invariant                                                           *)

\* Every step of the reporter keeps the invariant.
THEOREM UploaderStepKeeps == UploaderInv /\ [UploaderNext]_uploaderVars => UploaderInv'
<1>. SUFFICES ASSUME UploaderInv, [UploaderNext]_uploaderVars PROVE UploaderInv'
  OBVIOUS
<1>1. CASE CheckCall
  BY <1>1, Began, Emitted, Marked, Sent, LeftOut DEF CheckCall
<1>2. CASE Upload
  BY <1>2, Received, Posted, Ended DEF Upload
<1>3. CASE Send
  BY <1>3, SentOut DEF Send
<1>4. CASE CloseChannel \/ CloseReturns
  BY <1>4, Ended
<1>5. CASE UNCHANGED uploaderVars
  <2>1. UNCHANGED checkVars /\ UNCHANGED <<doneChecks, up, requests, posted, delivered, failed, closing>>
        /\ UNCHANGED <<name, adds, pc, ref, emitted, live, heap>>
    BY <1>5 DEF uploaderVars, uploadVars, checkVars
  <2>2. MoreTypes'
    BY <2>1 DEF UploaderInv, MoreTypes, UploaderTypeOK
  <2>3. Channel' = Channel /\ Batch' = Batch /\ \A a \in DOMAIN heap : InBox(a)' => InBox(a)
    BY <2>1 DEF Channel, Batch, InBox
  <2>4. \A c \in Check : Own(c) => InOnePlace(c)' /\ Final(c)'
    BY <2>1, <2>3 DEF UploaderInv, OwnInv, InOnePlace, Final
  <2>5. KeptInv' /\ ClosingInv'
    BY <2>1, <2>3 DEF UploaderInv, KeptInv, ClosingInv
  <2>. QED BY <2>1, <2>2, <2>3, <2>4, <2>5, UploadStep
<1>. QED BY <1>1, <1>2, <1>3, <1>4, <1>5 DEF UploaderNext

\* It holds before the first call, whatever checks are selected.
THEOREM UploaderStarts ==
  ASSUME NEW selected, NEW names \in [Check -> Name],
         NEW adding \in [Finding -> {"artifact", "finding", "tagged"}], UploaderInit(selected, names, adding)
  PROVE  UploaderInv
<1>1. /\ name \in [Check -> Name] /\ adds \in [Finding -> {"artifact", "finding", "tagged"}] /\ heap = <<>> /\ doneChecks = <<>> /\ requests = <<>> /\ delivered = <<>>
      /\ posted = {} /\ failed = FALSE /\ closing = "no" /\ up = "recv"
      /\ ref = [c \in Check |-> 0] /\ emitted = [c \in Check |-> 0] /\ live = [n \in Name |-> 0]
      /\ pc = [c \in Check |-> IF c \in selected THEN "idle" ELSE "suppressed"]
  BY DEF UploaderInit
<1>2. Len(heap) = 0 /\ DOMAIN heap = {} /\ heap \in Seq(Result) /\ \A a : ~InBox(a)
  BY <1>1 DEF InBox
<1>3. MoreTypes
  <2>1. Len(heap) <= Cardinality(Address)
    <3>1. PICK m \in Nat : m = Cardinality(Address)
      BY CallsBounded
    <3>. QED BY <1>2, <3>1
  <2>2. /\ ref \in [Check -> {0} \cup Address] /\ emitted \in [Check -> 0..MaxFindings]
        /\ live \in [Name -> 0..Len(heap)]
    BY <1>1, <1>2, UploaderAssumption
  <2>3. pc \in [Check -> {"idle", "emit", "complete", "send", "completed", "suppressed"}]
    BY <1>1
  <2>4. UploaderTypeOK
    <3>1. doneChecks \in Seq(DOMAIN heap) /\ requests \in Seq(DOMAIN heap)
      BY <1>1
    <3>2. \A i \in DOMAIN heap : heap[i] \in [name : Name, by : SUBSET Check, summary : Seq(Piece), artifacts : SUBSET Finding, tagged : BOOLEAN]
      BY <1>2
    <3>3. (up = "batch") <=> (requests # <<>>)
      BY <1>1
    <3>4. /\ name \in [Check -> Name] /\ adds \in [Finding -> {"artifact", "finding", "tagged"}] /\ up \in {"recv", "batch", "gone"}
          /\ failed \in BOOLEAN /\ closing \in {"no", "closed", "ok", "error"}
      BY <1>1
    <3>. QED BY <2>1, <2>2, <2>3, <3>1, <3>2, <3>3, <3>4 DEF UploaderTypeOK
  <2>5. delivered \in Seq(Result) /\ Len(requests) <= MaxBatch
    BY <1>1, UploaderAssumption
  <2>. QED BY <1>1, <1>2, <2>4, <2>5 DEF MoreTypes
<1>4. HeapInv
  <2>1. Cardinality(BegunCalls) \in Nat
    <3>1. BegunCalls \in SUBSET (Check \X (1..(MaxFindings + 1)))
      BY DEF BegunCalls
    <3>. QED BY <3>1, CallsBounded
  <2>2. \A c \in Check : RefInv(c)
    BY <1>1 DEF RefInv
  <2>. QED BY <1>1, <1>2, <2>1, <2>2 DEF HeapInv
<1>5. ASSUME NEW c \in Check PROVE OwnResult(c) /\ InOnePlace(c) /\ Final(c)
  <2>1. Channel = <<>> /\ Batch = <<>>
    BY <1>1 DEF Channel, Batch
  <2>2. \A q : q = <<>> => ~Has(q, c) /\ Once(q, c)
    BY EmptyHas
  <2>3. OwnResult(c) /\ InOnePlace(c)
    BY <1>1, <1>2, <2>1, <2>2 DEF OwnResult, InOnePlace
  <2>4. Final(c)
    BY <1>1, <2>2 DEF Final, Has
  <2>. QED BY <2>3, <2>4
<1>6. KeptInv /\ ClosingInv
  BY <1>1 DEF KeptInv, ClosingInv
<1>. QED BY <1>3, <1>4, <1>5, <1>6 DEF UploaderInv, OwnInv

\* ResultDB holds each check as it was.
THEOREM UploadedRightFollows == UploaderInv => UploadedRight
<1>. SUFFICES ASSUME UploaderInv PROVE UploadedRight
  OBVIOUS
<1>1. MoreTypes /\ HeapInv /\ OwnInv /\ KeptInv /\ ClosingInv
  BY DEF UploaderInv
<1>2. ASSUME NEW c \in Check, Own(c), NEW i \in Uploaded(c)
      PROVE  /\ Uploaded(c) = {i}
             /\ delivered[i].by = {c}
             /\ delivered[i].artifacts = ArtifactsOf(c)
             /\ SummaryOf(delivered[i].summary, FindingsOf(c), Tags(c))
  <2>1. Uploaded(c) = Times(delivered, c)
    BY DEF Uploaded, Times
  <2>2. OwnResult(c) /\ InOnePlace(c) /\ Final(c) /\ RefInv(c)
    BY <1>1, <1>2 DEF OwnInv, HeapInv
  <2>3. Uploaded(c) = {i}
    BY <1>2, <2>1, <2>2 DEF InOnePlace, Once
  <2>4. delivered[i] = heap[ref[c]] /\ pc[c] = "completed"
    BY <1>2, <2>1, <2>2 DEF Final
  <2>5. ref[c] \in DOMAIN heap /\ heap[ref[c]].name = name[c] /\ c \in heap[ref[c]].by
    BY <2>2, <2>4 DEF RefInv
  <2>6. ASSUME NEW d \in heap[ref[c]].by PROVE d = c
    <3>1. d \in Check
      BY <1>1, <2>5 DEF MoreTypes, UploaderTypeOK
    <3>2. name[d] = name[c]
      BY <1>1, <2>5 DEF HeapInv
    <3>. QED BY <1>2, <3>1, <3>2 DEF Own
  <2>7. heap[ref[c]].by = {c} /\ CutToSize(heap[ref[c]], c)
    BY <2>2, <2>4, <2>5, <2>6 DEF OwnResult, Holds
  <2>. QED BY <2>3, <2>4, <2>7 DEF CutToSize
<1>3. ASSUME closing = "ok", NEW c \in Check, pc[c] = "completed" PROVE Uploaded(c) # {}
  <2>1. doneChecks = <<>> /\ requests = <<>> /\ posted = {} /\ ~failed
    BY <1>1, <1>3 DEF ClosingInv
  <2>2. Channel = <<>> /\ Batch = <<>>
    BY <2>1 DEF Channel, Batch
  <2>3. Has(delivered, c)
    BY <1>1, <1>3, <2>1, <2>2, EmptyHas DEF KeptInv
  <2>. QED BY <2>3 DEF Has, Times, Uploaded
<1>4. \A b \in posted : Len(b.results) \in 1..MaxBatch
  BY <1>1 DEF MoreTypes
<1>. QED BY <1>2, <1>3, <1>4 DEF UploadedRight, Own
=============================================================================

-------------------------- MODULE ReportersProofs --------------------------
(***************************************************************************)
(* What Reporters guarantees, for any checks, calls and setups.            *)
(***************************************************************************)
EXTENDS Reporters, UploaderProofs, EditsProofs

-----------------------------------------------------------------------------
(* ResultDB                                                                *)

\* Every step is one of the ResultDB reporter, or leaves it alone.
LEMMA StepsOfUploader == [Next]_vars => [UploaderNext]_uploaderVars
<1>1. ASSUME NEW c \in Check, CheckStep(c) PROVE CheckCall
  BY <1>1 DEF CheckStep, CallEmit, CallCompleted, LeavesOut, CheckCall
<1>2. ASSUME NEW c \in Check, ReporterStep(c) PROVE [UploaderNext]_uploaderVars
  <2>1. CASE UploaderTold(c)
    BY <2>1 DEF UploaderTold, UploaderNext, CheckCall
  <2>2. CASE ConsoleTold(c) \/ SarifTold(c)
    BY <2>2 DEF ConsoleTold, Overview, Highlight, NoArtifacts, CompletionPrinted, SarifTold
  <2>. QED BY <1>2, <2>1, <2>2 DEF ReporterStep
<1>3. Uploads => UploaderNext
  BY DEF Uploads, UploaderNext
<1>4. Closes => [UploaderNext]_uploaderVars
  BY DEF Closes, ClosesUploader, SarifCloses, UploaderNext
<1>5. Over \/ UNCHANGED vars => UNCHANGED uploaderVars
  BY DEF Over, vars
<1>. QED BY <1>1, <1>2, <1>3, <1>4, <1>5 DEF Next, UploaderNext

\* Who holds which result of ResultDB, and what it has in it, under every way to
\* call the reporters (resultdb.go: liveChecks, doneChecks and sendData).
THEOREM UploaderInvariance == Spec => []UploaderInv
<1>1. Init => UploaderInv
  <2>. SUFFICES ASSUME Init PROVE UploaderInv
    OBVIOUS
  <2>1. UploaderInit(setup.selected, setup.names, Adding) /\ setup.names \in [Check -> Name]
    BY ReportersAssumption DEF Init, Setup
  <2>2. Adding \in [Finding -> {"artifact", "finding", "tagged"}]
    BY DEF Adding, Adds
  <2>. QED BY <2>1, <2>2, UploaderStarts
<1>2. UploaderInv /\ [Next]_vars => UploaderInv'
  BY StepsOfUploader, UploaderStepKeeps
<1>. QED BY <1>1, <1>2, PTL DEF Spec

\* ResultDB holds each check as it was, and Close succeeds only if it holds all
\* that were completed (resultdb.go: doneChecks, requests and sendData).
THEOREM RightUpload == Spec => []UploadedRight
BY UploaderInvariance, UploadedRightFollows, PTL

-----------------------------------------------------------------------------
(* The other reporters                                                     *)

Answer == {"idle", "asked", "printing", "ok", "error"}
Entry  == [by : Check, number : Nat]
Output == [by : Check, number : Nat, part : {"overview", "lines", "completed"}]

ReporterTypes ==
  /\ setup \in Setups
  /\ told \in [Check -> [setup.reporters -> Answer]]
  /\ mutex \in {NoCheck} \cup Check
  /\ stdout \in Seq(Output)
  /\ results \in [Name -> Seq(Entry)]
  /\ crashed \in BOOLEAN

\* The calls that a reporter returns an error for.
FailsFor(r, call) == IF r = "console" THEN ConsoleFails(call) ELSE SarifFails(call)

\* Calls are numbered, and the reporters are asked of each.
AskedInv(c) ==
  /\ Number(c) <= Len(setup.calls[c])
  /\ \A r \in setup.reporters : told[c][r] = "idle" <=> Number(c) = 0 /\ ~Completes(c)

\* A call whose lines the console prints.
Prints(c) ==
  /\ ~Completes(c) /\ Console = "interactive" /\ "overview" \notin setup.broken
  /\ CallOf(c).kind # "artifact" /\ CallOf(c).line > 0

\* The answer a of r is the right one.
Right(c, r, a) ==
  /\ ~Completes(c) => (a = "error" => FailsFor(r, CallOf(c))) /\ (a = "ok" => ~FailsFor(r, CallOf(c)))
  /\ a = "printing" => r = "console" /\ Prints(c)

\* The answers to a call are right, and a call that fails is the last.
AnswerInv(c) ==
  /\ \A k \in 1..Number(c) : k < Number(c) => ~CallFails(setup.calls[c][k])
  /\ \A r \in setup.reporters : Right(c, r, told[c][r])

\* Who prints has the mutex, and the overview of its call is the last of stdout.
MutexInv ==
  /\ mutex # NoCheck => "console" \in setup.reporters /\ told[mutex]["console"] = "printing"
  /\ "console" \in setup.reporters /\ ~crashed =>
       \A c \in Check : told[c]["console"] = "printing" =>
         mutex = c /\ stdout # <<>> /\ stdout[Len(stdout)] = Chunk(c, "overview")

\* Calls that a reporter has handled; the overview of a finding comes before.
Handled(c, r, k) == k \in 1..Number(c) /\ (k < Number(c) \/ Completes(c) \/ ~Asked(c, r))
Shown(c, k) == Handled(c, "console", k) \/ (k = Number(c) /\ told[c]["console"] = "printing")

\* Each of them is there once, and nothing else.
SarifInv(c, k) ==
  IF /\ "sarif" \in setup.reporters /\ setup.calls[c][k].kind # "artifact" /\ ~SarifFails(setup.calls[c][k])
     /\ Handled(c, "sarif", k)
    THEN \E i \in DOMAIN results[name[c]] : Entries(c, k) = {<<name[c], i>>}
    ELSE Entries(c, k) = {}

StdoutInv(c, k) ==
  IF "console" \in setup.reporters /\ "overview" \notin setup.broken /\ setup.calls[c][k].kind # "artifact" /\ Shown(c, k)
    THEN \E i \in DOMAIN stdout : Chunks(c, k, "overview") = {i}
    ELSE Chunks(c, k, "overview") = {}

LinesInv ==
  \A i \in DOMAIN stdout : stdout[i].part = "lines" =>
    /\ i > 1 /\ stdout[i - 1].part = "overview"
    /\ stdout[i - 1].by = stdout[i].by /\ stdout[i - 1].number = stdout[i].number

\* The document has all the results: no call is under way.
DocumentInv ==
  /\ closing # "no" => \A c \in Check : Waited(c)
  /\ document # NoDocument => closing # "no" /\ document = <<results>> /\ "sarif" \in setup.reporters
  /\ sarifClosed \in {"no", "ok", "error"} /\ ((sarifClosed = "ok") <=> (document # NoDocument))

CallsInv   == \A c \in Check : AskedInv(c) /\ AnswerInv(c)
HandledInv == \A c \in Check : \A k \in 1..Len(setup.calls[c]) : SarifInv(c, k) /\ StdoutInv(c, k)

ReporterInv == ReporterTypes /\ CallsInv /\ MutexInv /\ HandledInv /\ LinesInv /\ DocumentInv

LEMMA CallTypes ==
  ASSUME MoreTypes, ReporterTypes, NEW c \in Check
  PROVE  /\ Number(c) \in Nat /\ emitted[c] \in Nat /\ name[c] \in Name
         /\ setup \in Setup /\ setup.calls[c] \in Seq(Call) /\ Len(setup.calls[c]) \in Nat
         /\ setup.reporters \subseteq {"console", "sarif"}
<1>1. emitted[c] \in Nat /\ name[c] \in Name
  BY UploaderAssumption DEF MoreTypes, UploaderTypeOK
<1>2. Number(c) \in Nat
  BY <1>1 DEF Number
<1>3. setup \in Setup
  BY ReportersAssumption DEF ReporterTypes
<1>4. setup.calls[c] \in Seq(Call) /\ setup.reporters \subseteq {"console", "sarif"}
  BY <1>3 DEF Setup
<1>. QED BY <1>1, <1>2, <1>3, <1>4

LEMMA SameFails ==
  ASSUME setup' = setup
  PROVE  /\ \A call : CallFails(call)' <=> CallFails(call)
         /\ \A r, call : FailsFor(r, call)' <=> FailsFor(r, call)
         /\ Console' = Console
<1>1. Console' = Console
  BY DEF Console
<1>2. \A call : ConsoleFails(call)' <=> ConsoleFails(call)
  BY <1>1 DEF ConsoleFails
<1>. QED BY <1>1, <1>2 DEF CallFails, FailsFor

\* The answers to the calls of a check stay right when nothing of it changes.
LEMMA SameAnswer ==
  ASSUME NEW d, setup' = setup, \A r \in setup.reporters : told'[d][r] = told[d][r],
         Number(d)' = Number(d), Completes(d)' <=> Completes(d), AnswerInv(d)
  PROVE  AnswerInv(d)'
<1>1. CallOf(d)' = CallOf(d)
  BY DEF CallOf
<1>2. Prints(d)' <=> Prints(d)
  BY <1>1, SameFails DEF Prints
<1>3. \A r, a : Right(d, r, a)' <=> Right(d, r, a)
  BY <1>1, <1>2, SameFails DEF Right
<1>. QED BY <1>3, SameFails DEF AnswerInv

\* No call is under way or made once Close was called.
LEMMA NotClosing ==
  ASSUME UploaderInv, ReporterInv, NEW c \in Check,
         pc[c] = "idle" \/ \E r \in setup.reporters : Asked(c, r)
  PROVE  closing = "no" /\ document = NoDocument
BY DEF UploaderInv, ClosingInv, ReporterInv, DocumentInv, Waited

\* What a step does that changes neither the calls nor what was made of them.
LEMMA SarifKept ==
  ASSUME NEW c, NEW k, UNCHANGED <<setup, results, name>>,
         Handled(c, "sarif", k)' <=> Handled(c, "sarif", k), SarifInv(c, k)
  PROVE  SarifInv(c, k)'
<1>1. Entries(c, k)' = Entries(c, k)
  BY DEF Entries
<1>. QED BY <1>1 DEF SarifInv

LEMMA StdoutKept ==
  ASSUME NEW c, NEW k, setup' = setup, DOMAIN stdout \subseteq DOMAIN stdout',
         Chunks(c, k, "overview")' = Chunks(c, k, "overview"),
         Shown(c, k)' <=> Shown(c, k), StdoutInv(c, k)
  PROVE  StdoutInv(c, k)'
BY DEF StdoutInv

LEMMA SameCall ==
  ASSUME UNCHANGED <<setup, told, stdout, results, name>>, ReporterInv,
         mutex' \in {NoCheck} \cup Check, crashed' \in BOOLEAN,
         \A c \in Check : Number(c)' = Number(c) /\ (Completes(c)' <=> Completes(c))
  PROVE  ReporterTypes' /\ CallsInv' /\ HandledInv' /\ LinesInv'
         /\ (UNCHANGED <<mutex, crashed>> => MutexInv')
<1>1. ReporterTypes' /\ LinesInv'
  BY DEF ReporterInv, ReporterTypes, LinesInv
<1>2. ASSUME NEW c \in Check PROVE AskedInv(c)'
  BY DEF ReporterInv, CallsInv, AskedInv
<1>3. ASSUME NEW c \in Check PROVE AnswerInv(c)'
  BY SameAnswer DEF ReporterInv, CallsInv
<1>4. UNCHANGED <<mutex, crashed>> => MutexInv'
  BY DEF ReporterInv, MutexInv, Chunk
<1>5. ASSUME NEW c \in Check, NEW k \in 1..Len(setup.calls[c]) PROVE SarifInv(c, k)' /\ StdoutInv(c, k)'
  <2>1. \A r \in {"console", "sarif"} : Handled(c, r, k)' <=> Handled(c, r, k)
    BY DEF Handled, Asked
  <2>2. Shown(c, k)' <=> Shown(c, k)
    BY <2>1 DEF Shown
  <2>3. Chunks(c, k, "overview")' = Chunks(c, k, "overview")
    BY DEF Chunks
  <2>. QED BY <2>1, <2>2, <2>3, SarifKept, StdoutKept DEF ReporterInv, HandledInv
<1>. QED BY <1>1, <1>2, <1>3, <1>4, <1>5 DEF CallsInv, HandledInv

LEMMA QuietReporters ==
  ASSUME UploaderInv, ReporterInv,
         \/ \E c \in Check : LeavesOut(c) \/ UploaderTold(c)
         \/ Uploads \/ Closes \/ Over \/ UNCHANGED vars
  PROVE  ReporterInv'
<1>1. MoreTypes /\ ReporterTypes /\ DocumentInv
  BY DEF UploaderInv, ReporterInv
<1>2. UNCHANGED <<setup, told, mutex, stdout, results, crashed, name>>
  BY DEF LeavesOut, UploaderTold, Uploads, Closes, ClosesUploader, SarifCloses, Over, vars, reporterVars,
         Suppressed, EmitEnds, CompleteMarks, CompleteSends, Upload, Send, Receive, Post, UploaderEnds,
         SendSucceeds, SendFails, CloseChannel, CloseReturns, uploaderVars, checkVars
<1>3. ASSUME NEW d \in Check PROVE Number(d)' = Number(d) /\ (Completes(d)' <=> Completes(d))
  <2>1. DOMAIN pc = Check /\ DOMAIN emitted = Check /\ emitted[d] \in Nat
    BY <1>1, UploaderAssumption DEF MoreTypes, UploaderTypeOK
  <2>2. CASE \E c \in Check : Suppressed(c) \/ CompleteMarks(c) \/ CompleteSends(c)
    <3>1. PICK c \in Check, s \in {"suppressed", "send", "completed"} :
            /\ pc' = [pc EXCEPT ![c] = s] /\ emitted' = emitted
            /\ pc[c] = (IF s = "suppressed" THEN "idle" ELSE IF s = "send" THEN "complete" ELSE "send")
      BY <2>2 DEF Suppressed, CompleteMarks, CompleteSends
    <3>. QED BY <2>1, <3>1 DEF Number, Completes
  <2>3. CASE \E c \in Check : EmitEnds(c)
    <3>1. PICK c \in Check : /\ pc[c] = "emit" /\ pc' = [pc EXCEPT ![c] = "idle"]
                             /\ emitted' = [emitted EXCEPT ![c] = @ + 1]
      BY <2>3 DEF EmitEnds
    <3>. QED BY <2>1, <3>1 DEF Number, Completes
  <2>4. CASE UNCHANGED <<pc, emitted>>
    BY <2>4 DEF Number, Completes
  <2>5. Uploads \/ Closes \/ Over \/ UNCHANGED vars => UNCHANGED <<pc, emitted>>
    BY DEF Uploads, Closes, ClosesUploader, SarifCloses, Over, vars, Upload, Send, Receive, Post, UploaderEnds,
         SendSucceeds, SendFails, CloseChannel, CloseReturns, uploaderVars, checkVars
  <2>. QED BY <2>2, <2>3, <2>4, <2>5 DEF LeavesOut, UploaderTold
<1>4. ReporterTypes' /\ CallsInv' /\ MutexInv' /\ HandledInv' /\ LinesInv'
  BY <1>1, <1>2, <1>3, SameCall DEF ReporterTypes
<1>5. DocumentInv'
  <2>1. CASE UNCHANGED <<closing, sarifClosed, document>>
    BY <1>1, <1>2, <2>1 DEF DocumentInv, Waited, Asked
  <2>2. CASE ClosesUploader
    <3>1. UNCHANGED <<sarifClosed, document>> /\ \A c \in Check : Waited(c)
      BY <2>2 DEF ClosesUploader, reporterVars, sarifCloseVars
    <3>2. closing # "no" => closing' # "no"
      BY <2>2 DEF ClosesUploader, CloseChannel, CloseReturns
    <3>. QED BY <1>1, <1>2, <3>1, <3>2 DEF DocumentInv, Waited, Asked
  <2>3. CASE SarifCloses
    <3>1. closing' = closing /\ closing # "no" /\ "sarif" \in setup.reporters /\ sarifClosed = "no"
      BY <2>3 DEF SarifCloses, uploaderVars
    <3>2. \/ sarifClosed' = "ok" /\ document' = <<results>>
          \/ sarifClosed' = "error" /\ document' = document
      BY <2>3 DEF SarifCloses
    <3>3. document = NoDocument /\ <<results>> # NoDocument
      BY <1>1, <3>1 DEF DocumentInv, NoDocument
    <3>. QED BY <1>1, <1>2, <3>1, <3>2, <3>3 DEF DocumentInv, Waited, Asked
  <2>4. \/ UNCHANGED <<closing, sarifClosed, document>> \/ Closes
    BY DEF LeavesOut, UploaderTold, Uploads, Over, vars, reporterVars, sarifCloseVars, uploaderVars,
         Suppressed, EmitEnds, CompleteMarks, CompleteSends, Upload, Send, Receive, Post, UploaderEnds,
         SendSucceeds, SendFails
  <2>. QED BY <2>1, <2>2, <2>3, <2>4 DEF Closes
<1>. QED BY <1>4, <1>5 DEF ReporterInv

\* A check makes a call: the one before is handled, and did not fail.
LEMMA Emits == ASSUME UploaderInv, ReporterInv, NEW c \in Check, CallEmit(c) PROVE ReporterInv'
<1>1. MoreTypes /\ ReporterTypes /\ CallsInv /\ MutexInv /\ HandledInv /\ LinesInv
  BY DEF UploaderInv, ReporterInv
<1>2. /\ pc[c] = "idle" /\ pc' = [pc EXCEPT ![c] = "emit"] /\ emitted' = emitted /\ name' = name
      /\ told' = [told EXCEPT ![c] = [r \in setup.reporters |-> "asked"]]
      /\ Number(c) < Len(setup.calls[c]) /\ Waited(c) /\ ~Failed(c) /\ closing' = closing
      /\ UNCHANGED <<setup, mutex, stdout, results, sarifClosed, document, crashed>> /\ ~crashed
  BY DEF CallEmit, EmitBegins, AskAll, sarifCloseVars
<1>3. /\ DOMAIN pc = Check /\ DOMAIN told = Check /\ told \in [Check -> [setup.reporters -> Answer]]
      /\ \A d \in Check : Number(d) \in Nat /\ Len(setup.calls[d]) \in Nat
  BY <1>1, CallTypes DEF MoreTypes, UploaderTypeOK, ReporterTypes
<1>4. /\ Number(c)' = Number(c) + 1 /\ ~Completes(c)' /\ ~Completes(c)
      /\ \A d \in Check : d # c => Number(d)' = Number(d) /\ (Completes(d)' <=> Completes(d)) /\ told'[d] = told[d]
      /\ \A r \in setup.reporters : told'[c][r] = "asked"
  BY <1>1, <1>2, <1>3 DEF Number, Completes, MoreTypes, UploaderTypeOK
<1>5. ReporterTypes'
  BY <1>1, <1>2, <1>3 DEF ReporterTypes, Answer
<1>6. ASSUME NEW d \in Check PROVE AskedInv(d)'
  <2>1. CASE d = c
    BY <1>2, <1>3, <1>4, <2>1 DEF AskedInv
  <2>2. CASE d # c
    BY <1>1, <1>2, <1>4, <2>2 DEF CallsInv, AskedInv
  <2>. QED BY <2>1, <2>2
<1>7. \A call : CallFails(call)' <=> CallFails(call)
  BY <1>2, SameFails
<1>8. ASSUME NEW d \in Check PROVE AnswerInv(d)'
  <2>1. AnswerInv(d) /\ AskedInv(d)
    BY <1>1 DEF CallsInv
  <2>2. CASE d = c
    <3>1. ASSUME Number(c) > 0 PROVE ~CallFails(CallOf(c))
      <4>1. ASSUME NEW r \in setup.reporters PROVE ~FailsFor(r, CallOf(c))
        <5>1. told[c][r] \in {"idle", "ok"}
          BY <1>2, <1>3, <4>1 DEF Waited, Failed, Asked, Answer
        <5>2. told[c][r] = "ok"
          BY <1>3, <2>1, <2>2, <3>1, <5>1 DEF AskedInv
        <5>. QED BY <1>4, <2>1, <2>2, <3>1, <5>2 DEF AnswerInv, Right
      <4>. QED BY <4>1 DEF CallFails, FailsFor
    <3>2. ASSUME NEW k \in 1..Number(c)', k < Number(c)' PROVE ~CallFails(setup.calls[c][k])
      <4>1. k \in 1..Number(c)
        BY <1>3, <1>4, <3>2
      <4>2. CASE k < Number(c)
        BY <2>1, <2>2, <3>2, <4>1, <4>2 DEF AnswerInv
      <4>3. CASE k = Number(c)
        BY <1>3, <3>1, <4>1, <4>3 DEF CallOf
      <4>. QED BY <1>3, <4>1, <4>2, <4>3
    <3>. QED BY <1>2, <1>4, <1>7, <2>2, <3>2 DEF AnswerInv, Right
  <2>3. CASE d # c
    BY <1>2, <1>4, <2>1, <2>3, SameAnswer
  <2>. QED BY <2>2, <2>3
<1>9. MutexInv'
  <2>1. ASSUME mutex # NoCheck PROVE mutex # c /\ mutex \in Check
    BY <1>1, <1>2, <2>1 DEF MutexInv, ReporterTypes, Waited, Asked
  <2>2. \A d \in Check : d # c => Chunk(d, "overview")' = Chunk(d, "overview")
    BY <1>4 DEF Chunk
  <2>. QED BY <1>1, <1>2, <1>4, <2>1, <2>2 DEF MutexInv
<1>10. ASSUME NEW d \in Check, NEW k \in 1..Len(setup.calls[d]) PROVE SarifInv(d, k)' /\ StdoutInv(d, k)'
  <2>1. ASSUME NEW r \in setup.reporters PROVE Handled(d, r, k)' <=> Handled(d, r, k)
    <3>1. CASE d = c
      <4>1. Handled(c, r, k) <=> k \in 1..Number(c)
        BY <1>2, <2>1 DEF Handled, Waited
      <4>2. Handled(c, r, k)' <=> k \in 1..(Number(c) + 1) /\ k < Number(c) + 1
        BY <1>2, <1>4, <2>1 DEF Handled, Asked
      <4>. QED BY <1>3, <3>1, <4>1, <4>2
    <3>2. CASE d # c
      BY <1>2, <1>4, <3>2 DEF Handled, Asked
    <3>. QED BY <3>1, <3>2
  <2>2. ASSUME "console" \in setup.reporters PROVE Shown(d, k)' <=> Shown(d, k)
    <3>1. CASE d = c
      BY <1>2, <1>4, <2>1, <2>2, <3>1 DEF Shown, Waited, Asked
    <3>2. CASE d # c
      BY <1>2, <1>4, <2>1, <2>2, <3>2 DEF Shown
    <3>. QED BY <3>1, <3>2
  <2>3. Entries(d, k)' = Entries(d, k) /\ Chunks(d, k, "overview")' = Chunks(d, k, "overview")
    BY <1>2 DEF Entries, Chunks
  <2>4. SarifInv(d, k) /\ StdoutInv(d, k)
    BY <1>1 DEF HandledInv
  <2>5. SarifInv(d, k)'
    BY <1>2, <2>1, <2>3, <2>4 DEF SarifInv
  <2>6. StdoutInv(d, k)'
    BY <1>2, <2>2, <2>3, <2>4 DEF StdoutInv
  <2>. QED BY <2>5, <2>6
<1>11. closing = "no" /\ document = NoDocument
  BY <1>2, NotClosing
<1>12. DocumentInv' /\ LinesInv'
  BY <1>1, <1>2, <1>11 DEF ReporterInv, DocumentInv, LinesInv
<1>. QED BY <1>2, <1>5, <1>6, <1>8, <1>9, <1>10, <1>12 DEF ReporterInv, CallsInv, HandledInv

LEMMA CompletionCalled == ASSUME UploaderInv, ReporterInv, NEW c \in Check, CallCompleted(c) PROVE ReporterInv'
<1>1. MoreTypes /\ ReporterTypes /\ CallsInv /\ MutexInv /\ HandledInv /\ LinesInv
  BY DEF UploaderInv, ReporterInv
<1>2. /\ pc[c] = "idle" /\ pc' = [pc EXCEPT ![c] = "complete"] /\ emitted' = emitted /\ name' = name
      /\ told' = [told EXCEPT ![c] = [r \in setup.reporters |-> "asked"]]
      /\ Waited(c) /\ closing' = closing
      /\ UNCHANGED <<setup, mutex, stdout, results, sarifClosed, document, crashed>> /\ ~crashed
  BY DEF CallCompleted, CompleteBegins, AskAll, sarifCloseVars
<1>3. /\ DOMAIN pc = Check /\ DOMAIN told = Check /\ told \in [Check -> [setup.reporters -> Answer]]
      /\ \A d \in Check : Number(d) \in Nat /\ Len(setup.calls[d]) \in Nat
  BY <1>1, CallTypes DEF MoreTypes, UploaderTypeOK, ReporterTypes
<1>4. /\ Number(c)' = Number(c) /\ Completes(c)' /\ ~Completes(c)
      /\ \A d \in Check : Number(d)' = Number(d)
      /\ \A d \in Check : d # c => (Completes(d)' <=> Completes(d)) /\ told'[d] = told[d]
      /\ \A r \in setup.reporters : told'[c][r] = "asked"
  BY <1>1, <1>2, <1>3 DEF Number, Completes, MoreTypes, UploaderTypeOK
<1>5. ReporterTypes'
  BY <1>1, <1>2, <1>3 DEF ReporterTypes, Answer
<1>6. ASSUME NEW d \in Check PROVE AskedInv(d)'
  <2>1. CASE d = c
    BY <1>1, <1>2, <1>3, <1>4, <2>1 DEF CallsInv, AskedInv
  <2>2. CASE d # c
    BY <1>1, <1>2, <1>4, <2>2 DEF CallsInv, AskedInv
  <2>. QED BY <2>1, <2>2
<1>7. \A call : CallFails(call)' <=> CallFails(call)
  BY <1>2, SameFails
<1>8. ASSUME NEW d \in Check PROVE AnswerInv(d)'
  <2>1. AnswerInv(d)
    BY <1>1 DEF CallsInv
  <2>2. CASE d = c
    BY <1>2, <1>4, <1>7, <2>1, <2>2 DEF AnswerInv, Right
  <2>3. CASE d # c
    BY <1>2, <1>4, <2>1, <2>3, SameAnswer
  <2>. QED BY <2>2, <2>3
<1>9. MutexInv'
  <2>1. ASSUME mutex # NoCheck PROVE mutex # c /\ mutex \in Check
    BY <1>1, <1>2, <2>1 DEF MutexInv, ReporterTypes, Waited, Asked
  <2>2. \A d \in Check : Chunk(d, "overview")' = Chunk(d, "overview")
    BY <1>4 DEF Chunk
  <2>. QED BY <1>1, <1>2, <1>4, <2>1, <2>2 DEF MutexInv
<1>10. ASSUME NEW d \in Check, NEW k \in 1..Len(setup.calls[d]) PROVE SarifInv(d, k)' /\ StdoutInv(d, k)'
  <2>1. ASSUME NEW r \in setup.reporters PROVE Handled(d, r, k)' <=> Handled(d, r, k)
    <3>1. CASE d = c
      BY <1>2, <1>4, <2>1, <3>1 DEF Handled, Waited
    <3>2. CASE d # c
      BY <1>2, <1>4, <3>2 DEF Handled, Asked
    <3>. QED BY <3>1, <3>2
  <2>2. ASSUME "console" \in setup.reporters PROVE Shown(d, k)' <=> Shown(d, k)
    <3>1. CASE d = c
      BY <1>2, <1>4, <2>1, <2>2, <3>1 DEF Shown, Waited, Asked
    <3>2. CASE d # c
      BY <1>2, <1>4, <2>1, <2>2, <3>2 DEF Shown
    <3>. QED BY <3>1, <3>2
  <2>3. Entries(d, k)' = Entries(d, k) /\ Chunks(d, k, "overview")' = Chunks(d, k, "overview")
    BY <1>2 DEF Entries, Chunks
  <2>4. SarifInv(d, k) /\ StdoutInv(d, k)
    BY <1>1 DEF HandledInv
  <2>5. SarifInv(d, k)'
    BY <1>2, <2>1, <2>3, <2>4 DEF SarifInv
  <2>6. StdoutInv(d, k)'
    BY <1>2, <2>2, <2>3, <2>4 DEF StdoutInv
  <2>. QED BY <2>5, <2>6
<1>11. closing = "no" /\ document = NoDocument
  BY <1>2, NotClosing
<1>12. DocumentInv' /\ LinesInv'
  BY <1>1, <1>2, <1>11 DEF ReporterInv, DocumentInv, LinesInv
<1>. QED BY <1>2, <1>5, <1>6, <1>8, <1>9, <1>10, <1>12 DEF ReporterInv, CallsInv, HandledInv

-----------------------------------------------------------------------------
(* Answers                                                                 *)

\* What a reporter's answer leaves to show: types, and the calls of the others.
LEMMA Answered ==
  ASSUME UploaderInv, ReporterInv, NEW c \in Check, NEW r \in setup.reporters, NEW a \in Answer \ {"idle"},
         Asked(c, r), Tell(c, r, a), UNCHANGED <<setup, uploaderVars, sarifClosed, document>>,
         mutex' \in {NoCheck} \cup Check, stdout' \in Seq(Output), results' \in [Name -> Seq(Entry)],
         crashed' \in BOOLEAN, Right(c, r, a)
  PROVE  /\ ReporterTypes' /\ DocumentInv' /\ CallsInv'
         /\ told'[c][r] = a
         /\ \A d \in Check : \A s \in setup.reporters : d # c \/ s # r => told'[d][s] = told[d][s]
         /\ \A d \in Check : Number(d)' = Number(d) /\ (Completes(d)' <=> Completes(d)) /\ CallOf(d)' = CallOf(d)
         /\ name' = name /\ Number(c) \in Nat
<1>1. MoreTypes /\ ReporterTypes /\ CallsInv
  BY DEF UploaderInv, ReporterInv
<1>2. told \in [Check -> [setup.reporters -> Answer]] /\ told' = [told EXCEPT ![c][r] = a]
  BY <1>1 DEF ReporterTypes, Tell
<1>3. /\ told' \in [Check -> [setup.reporters -> Answer]] /\ told'[c][r] = a
      /\ \A d \in Check : \A s \in setup.reporters : d # c \/ s # r => told'[d][s] = told[d][s]
  BY <1>2
<1>4. UNCHANGED <<pc, emitted, name, closing>>
  BY DEF uploaderVars, checkVars
<1>5. \A d \in Check : Number(d)' = Number(d) /\ (Completes(d)' <=> Completes(d)) /\ CallOf(d)' = CallOf(d)
  BY <1>4 DEF Number, Completes, CallOf
<1>6. ReporterTypes'
  BY <1>1, <1>3 DEF ReporterTypes
<1>7. closing = "no" /\ document = NoDocument
  BY NotClosing
<1>8. DocumentInv'
  BY <1>4, <1>7 DEF ReporterInv, DocumentInv
<1>9. ASSUME NEW d \in Check PROVE AskedInv(d)'
  <2>1. AskedInv(d)
    BY <1>1 DEF CallsInv
  <2>2. \A s \in setup.reporters : told'[d][s] = "idle" <=> told[d][s] = "idle"
    BY <1>3 DEF Asked
  <2>. QED BY <1>3, <1>5, <2>1, <2>2 DEF AskedInv
<1>10. ASSUME NEW d \in Check PROVE AnswerInv(d)'
  <2>1. AnswerInv(d)
    BY <1>1 DEF CallsInv
  <2>2. CASE d = c
    <3>1. \A s, b : Right(c, s, b)' <=> Right(c, s, b)
      <4>1. Prints(c)' <=> Prints(c)
        BY <1>5, SameFails DEF Prints
      <4>. QED BY <1>5, <4>1, SameFails DEF Right
    <3>2. \A s \in setup.reporters : Right(c, s, told'[c][s])
      BY <1>3, <2>1, <2>2 DEF AnswerInv
    <3>. QED BY <1>5, <2>1, <2>2, <3>1, <3>2, SameFails DEF AnswerInv
  <2>3. CASE d # c
    BY <1>3, <1>5, <2>1, <2>3, SameAnswer
  <2>. QED BY <2>2, <2>3
<1>11. Number(c) \in Nat
  BY <1>1, CallTypes
<1>. QED BY <1>3, <1>4, <1>5, <1>6, <1>8, <1>9, <1>10, <1>11 DEF CallsInv

\* Entries, of any results.
EntriesOf(res, c, k) ==
  UNION {{n} \X {i \in DOMAIN res[n] : res[n][i].by = c /\ res[n][i].number = k} : n \in Name}

With(old, n, x) == [old EXCEPT ![n] = Append(@, x)]

LEMMA AddedResult ==
  ASSUME NEW old \in [Name -> Seq(Entry)], NEW n \in Name, NEW x \in Entry,
         NEW c, NEW k
  PROVE  /\ With(old, n, x) \in [Name -> Seq(Entry)]
         /\ Len(old[n]) + 1 \in DOMAIN With(old, n, x)[n]
         /\ \A m \in Name : DOMAIN old[m] \subseteq DOMAIN With(old, n, x)[m]
         /\ x.by = c /\ x.number = k =>
              \A y : y \in EntriesOf(With(old, n, x), c, k) <=> y \in EntriesOf(old, c, k) \/ y = <<n, Len(old[n]) + 1>>
         /\ ~(x.by = c /\ x.number = k) => EntriesOf(With(old, n, x), c, k) = EntriesOf(old, c, k)
<1>. DEFINE new == With(old, n, x)
            L == Len(old[n]) + 1
            I(f, m) == {i \in DOMAIN f[m] : f[m][i].by = c /\ f[m][i].number = k}
<1>1. /\ Append(old[n], x) \in Seq(Entry) /\ Len(old[n]) \in Nat
      /\ DOMAIN old[n] = 1..Len(old[n]) /\ DOMAIN Append(old[n], x) = 1..(Len(old[n]) + 1)
      /\ \A i \in 1..Len(old[n]) : Append(old[n], x)[i] = old[n][i]
      /\ Append(old[n], x)[Len(old[n]) + 1] = x
  BY AppendProperties
<1>2. new[n] = Append(old[n], x) /\ \A m \in Name : m # n => new[m] = old[m]
  BY DEF With
<1>3. new \in [Name -> Seq(Entry)]
  BY <1>1 DEF With
<1>. HIDE DEF new
<1>4. \A m \in Name : m # n => I(new, m) = I(old, m)
  BY <1>2
<1>5. I(new, n) = IF x.by = c /\ x.number = k THEN I(old, n) \cup {L} ELSE I(old, n)
  <2>1. /\ DOMAIN new[n] = DOMAIN old[n] \cup {L} /\ L \notin DOMAIN old[n]
        /\ new[n][L] = x /\ \A i \in DOMAIN old[n] : new[n][i] = old[n][i]
    BY <1>1, <1>2
  <2>. QED BY <2>1
<1>. HIDE DEF I, L
<1>6. \A y : y \in EntriesOf(old, c, k) <=> \E m \in Name : \E i \in I(old, m) : y = <<m, i>>
  BY DEF EntriesOf, I
<1>7. \A y : y \in EntriesOf(new, c, k) <=> \E m \in Name : \E i \in I(new, m) : y = <<m, i>>
  BY DEF EntriesOf, I
<1>8. ASSUME x.by = c /\ x.number = k
      PROVE  \A y : y \in EntriesOf(new, c, k) <=> y \in EntriesOf(old, c, k) \/ y = <<n, L>>
  <2>1. ASSUME NEW m \in Name, NEW i \in I(new, m) PROVE i \in I(old, m) \/ (m = n /\ i = L)
    BY <1>4, <1>5, <1>8
  <2>2. ASSUME NEW m \in Name, NEW i \in I(old, m) PROVE i \in I(new, m)
    BY <1>4, <1>5, <1>8
  <2>3. L \in I(new, n)
    BY <1>5, <1>8
  <2>. QED BY <1>6, <1>7, <2>1, <2>2, <2>3
<1>9. ASSUME ~(x.by = c /\ x.number = k) PROVE EntriesOf(new, c, k) = EntriesOf(old, c, k)
  <2>1. \A m \in Name : I(new, m) = I(old, m)
    BY <1>4, <1>5, <1>9
  <2>2. \A y : y \in EntriesOf(new, c, k) <=> y \in EntriesOf(old, c, k)
    BY <1>6, <1>7, <2>1
  <2>. QED BY <2>2
<1>10. L \in DOMAIN new[n] /\ \A m \in Name : DOMAIN old[m] \subseteq DOMAIN new[m]
  BY <1>1, <1>2 DEF L
<1>. QED BY <1>3, <1>8, <1>9, <1>10 DEF L, new

LEMMA Reported == ASSUME UploaderInv, ReporterInv, NEW c \in Check, SarifTold(c) PROVE ReporterInv'
<1>1. MoreTypes /\ ReporterTypes /\ CallsInv /\ MutexInv /\ HandledInv /\ LinesInv
  BY DEF UploaderInv, ReporterInv
<1>. DEFINE x == [by |-> c, number |-> Number(c)]
            kept == ~Completes(c) /\ CallOf(c).kind # "artifact" /\ ~SarifFails(CallOf(c))
            a == IF Completes(c) \/ ~SarifFails(CallOf(c)) THEN "ok" ELSE "error"
<1>2. /\ Asked(c, "sarif") /\ Tell(c, "sarif", a)
      /\ UNCHANGED <<setup, uploaderVars, mutex, stdout, sarifClosed, document, crashed>>
      /\ "sarif" \in setup.reporters /\ ~crashed
      /\ results' = IF kept THEN [results EXCEPT ![name[c]] = Append(@, x)] ELSE results
  <2>1. CallOf(c).kind = "artifact" => ~SarifFails(CallOf(c))
    BY DEF SarifFails
  <2>. QED BY <2>1 DEF SarifTold, Asked, sarifCloseVars
<1>3. /\ Number(c) \in Nat /\ name[c] \in Name /\ x \in Entry /\ Len(setup.calls[c]) \in Nat
      /\ results \in [Name -> Seq(Entry)]
  BY <1>1, CallTypes DEF Entry, ReporterTypes
<1>. HIDE DEF x, kept, a
<1>4. kept => /\ results' \in [Name -> Seq(Entry)]
              /\ Len(results[name[c]]) + 1 \in DOMAIN results'[name[c]]
              /\ \A m \in Name : DOMAIN results[m] \subseteq DOMAIN results'[m]
              /\ \A d, k : Entries(d, k)' = IF x.by = d /\ x.number = k
                                              THEN Entries(d, k) \cup {<<name[c], Len(results[name[c]]) + 1>>}
                                            ELSE Entries(d, k)
  <2>. DEFINE n == name[c]
  <2>. HIDE DEF n
  <2>1. n \in Name
    BY <1>3 DEF n
  <2>2. ASSUME kept PROVE results' = With(results, n, x)
    BY <1>2, <2>2 DEF With, n
  <2>3. /\ With(results, n, x) \in [Name -> Seq(Entry)]
        /\ Len(results[n]) + 1 \in DOMAIN With(results, n, x)[n]
        /\ \A m \in Name : DOMAIN results[m] \subseteq DOMAIN With(results, n, x)[m]
    BY <1>3, <2>1, AddedResult
  <2>4. ASSUME kept, NEW d, NEW k
        PROVE  Entries(d, k)' = IF x.by = d /\ x.number = k
                                  THEN Entries(d, k) \cup {<<n, Len(results[n]) + 1>>} ELSE Entries(d, k)
    <3>1. x.by = d /\ x.number = k =>
            \A y : y \in EntriesOf(With(results, n, x), d, k) <=>
                     y \in EntriesOf(results, d, k) \/ y = <<n, Len(results[n]) + 1>>
      BY <1>3, <2>1, AddedResult
    <3>3. ~(x.by = d /\ x.number = k) => EntriesOf(With(results, n, x), d, k) = EntriesOf(results, d, k)
      BY <1>3, <2>1, AddedResult
    <3>2. Entries(d, k) = EntriesOf(results, d, k) /\ Entries(d, k)' = EntriesOf(results', d, k)
      BY DEF Entries, EntriesOf
    <3>. QED BY <2>2, <2>4, <3>1, <3>2, <3>3
  <2>. QED BY <2>2, <2>3, <2>4 DEF n
<1>5. results' \in [Name -> Seq(Entry)]
  BY <1>2, <1>3, <1>4
<1>6. /\ ReporterTypes' /\ DocumentInv' /\ CallsInv'
      /\ told'[c]["sarif"] \in {"ok", "error"}
      /\ \A d \in Check : \A s \in setup.reporters : d # c \/ s # "sarif" => told'[d][s] = told[d][s]
      /\ \A d \in Check : Number(d)' = Number(d) /\ (Completes(d)' <=> Completes(d)) /\ CallOf(d)' = CallOf(d)
      /\ name' = name
  <2>1. a \in {"ok", "error"} /\ a \in Answer \ {"idle"}
    BY DEF a, Answer
  <2>2. Right(c, "sarif", a)
    BY DEF a, Right, FailsFor
  <2>. QED BY <1>1, <1>2, <1>5, <2>1, <2>2, Answered DEF ReporterTypes
<1>8. MutexInv' /\ LinesInv'
  <2>1. \A d \in Check : Chunk(d, "overview")' = Chunk(d, "overview")
    BY <1>6 DEF Chunk
  <2>2. mutex # NoCheck => mutex \in Check
    BY <1>1 DEF ReporterTypes
  <2>. QED BY <1>1, <1>2, <1>6, <2>1, <2>2 DEF MutexInv, LinesInv
<1>9. ASSUME NEW d \in Check, NEW k \in 1..Len(setup.calls[d]) PROVE StdoutInv(d, k)'
  <2>1. StdoutInv(d, k)
    BY <1>1 DEF HandledInv
  <2>2. CASE "console" \in setup.reporters
    <3>1. Shown(d, k)' <=> Shown(d, k)
      BY <1>2, <1>6, <2>2 DEF Shown, Handled, Asked
    <3>2. Chunks(d, k, "overview")' = Chunks(d, k, "overview")
      BY <1>2 DEF Chunks
    <3>. QED BY <1>2, <2>1, <3>1, <3>2, StdoutKept
  <2>3. CASE "console" \notin setup.reporters
    BY <1>2, <2>1, <2>3 DEF StdoutInv, Chunks
  <2>. QED BY <2>2, <2>3
<1>10. ASSUME NEW d \in Check, NEW k \in 1..Len(setup.calls[d]) PROVE SarifInv(d, k)'
  <2>1. SarifInv(d, k)
    BY <1>1 DEF HandledInv
  <2>2. CASE d = c /\ k = Number(c) /\ ~Completes(c)
    <3>1. ~Handled(d, "sarif", k)
      BY <1>2, <2>2 DEF Handled
    <3>2. Entries(d, k) = {}
      BY <2>1, <3>1 DEF SarifInv
    <3>3. Handled(d, "sarif", k)'
      <4>1. k \in 1..Number(c)
        BY <1>3, <2>2
      <4>. QED BY <1>2, <1>6, <2>2, <4>1 DEF Handled, Asked
    <3>4. CASE kept
      <4>1. Entries(d, k)' = {<<name[c], Len(results[name[c]]) + 1>>}
        BY <1>4, <2>2, <3>2, <3>4 DEF x
      <4>2. setup.calls[d][k].kind # "artifact" /\ ~SarifFails(setup.calls[d][k])
        BY <2>2, <3>4 DEF kept, CallOf
      <4>. QED BY <1>2, <1>4, <1>6, <2>2, <3>3, <3>4, <4>1, <4>2 DEF SarifInv
    <3>5. CASE ~kept
      <4>1. setup.calls[d][k].kind = "artifact" \/ SarifFails(setup.calls[d][k])
        BY <2>2, <3>5 DEF kept, CallOf
      <4>2. Entries(d, k)' = {}
        BY <1>2, <3>2, <3>5 DEF Entries
      <4>. QED BY <1>2, <4>1, <4>2 DEF SarifInv
    <3>. QED BY <3>4, <3>5
  <2>3. CASE ~(d = c /\ k = Number(c) /\ ~Completes(c))
    <3>1. Handled(d, "sarif", k)' <=> Handled(d, "sarif", k)
      <4>1. CASE d # c
        BY <1>2, <1>6, <4>1 DEF Handled, Asked
      <4>2. CASE d = c
        BY <1>2, <1>3, <1>6, <2>3, <4>2 DEF Handled, Asked
      <4>. QED BY <4>1, <4>2
    <3>2. Entries(d, k)' = Entries(d, k)
      <4>1. CASE kept
        BY <1>4, <2>3, <4>1 DEF x, kept
      <4>2. CASE ~kept
        BY <1>2, <4>2 DEF Entries
      <4>. QED BY <4>1, <4>2
    <3>3. DOMAIN results[name[d]] \subseteq DOMAIN results'[name[d]]
      <4>1. name[d] \in Name
        BY <1>1, CallTypes
      <4>. QED BY <1>2, <1>4, <4>1
    <3>. QED BY <1>2, <1>6, <2>1, <3>1, <3>2, <3>3 DEF SarifInv
  <2>. QED BY <2>2, <2>3
<1>. QED BY <1>2, <1>6, <1>8, <1>9, <1>10 DEF ReporterInv, HandledInv

-----------------------------------------------------------------------------
(* The console                                                             *)

\* Chunks, of any output.
ChunksOf(out, c, k, part) == {i \in DOMAIN out : out[i].by = c /\ out[i].number = k /\ out[i].part = part}

LEMMA AddedOutput ==
  ASSUME NEW old \in Seq(Output), NEW x \in Output, NEW c, NEW k, NEW part
  PROVE  /\ Append(old, x) \in Seq(Output) /\ Append(old, x) # <<>>
         /\ Len(old) \in Nat /\ DOMAIN old = 1..Len(old)
         /\ Len(Append(old, x)) = Len(old) + 1 /\ DOMAIN Append(old, x) = 1..(Len(old) + 1)
         /\ Append(old, x)[Len(old) + 1] = x
         /\ \A i \in 1..Len(old) : Append(old, x)[i] = old[i]
         /\ x.by = c /\ x.number = k /\ x.part = part =>
              \A i : i \in ChunksOf(Append(old, x), c, k, part) <=> i \in ChunksOf(old, c, k, part) \/ i = Len(old) + 1
         /\ ~(x.by = c /\ x.number = k /\ x.part = part) =>
              ChunksOf(Append(old, x), c, k, part) = ChunksOf(old, c, k, part)
<1>1. /\ Append(old, x) \in Seq(Output) /\ Append(old, x) # <<>>
      /\ Len(old) \in Nat /\ DOMAIN old = 1..Len(old)
      /\ Len(Append(old, x)) = Len(old) + 1 /\ DOMAIN Append(old, x) = 1..(Len(old) + 1)
      /\ Append(old, x)[Len(old) + 1] = x
      /\ \A i \in 1..Len(old) : Append(old, x)[i] = old[i]
  BY AppendProperties
<1>2. ASSUME x.by = c, x.number = k, x.part = part, NEW i
      PROVE  i \in ChunksOf(Append(old, x), c, k, part) <=> i \in ChunksOf(old, c, k, part) \/ i = Len(old) + 1
  <2>. DEFINE new == Append(old, x)
  <2>1. /\ DOMAIN new = DOMAIN old \cup {Len(old) + 1} /\ new[Len(old) + 1] = x
        /\ \A j \in DOMAIN old : new[j] = old[j]
    BY <1>1
  <2>. HIDE DEF new
  <2>2. i \in ChunksOf(new, c, k, part) <=> i \in ChunksOf(old, c, k, part) \/ i = Len(old) + 1
    BY <1>2, <2>1 DEF ChunksOf
  <2>. QED BY <2>2 DEF new
<1>3. ASSUME ~(x.by = c /\ x.number = k /\ x.part = part)
      PROVE  ChunksOf(Append(old, x), c, k, part) = ChunksOf(old, c, k, part)
  <2>. DEFINE new == Append(old, x)
  <2>1. /\ DOMAIN new = DOMAIN old \cup {Len(old) + 1} /\ new[Len(old) + 1] = x
        /\ \A j \in DOMAIN old : new[j] = old[j]
    BY <1>1
  <2>. HIDE DEF new
  <2>2. ChunksOf(new, c, k, part) = ChunksOf(old, c, k, part)
    BY <1>3, <2>1 DEF ChunksOf
  <2>. QED BY <2>2 DEF new
<1>. QED BY <1>1, <1>2, <1>3

LEMMA SameChunks == \A d, k, part : /\ Chunks(d, k, part) = ChunksOf(stdout, d, k, part)
                                    /\ Chunks(d, k, part)' = ChunksOf(stdout', d, k, part)
BY DEF Chunks, ChunksOf

\* What the console's answer leaves to show.
LEMMA ConsoleAnswered ==
  ASSUME UploaderInv, ReporterInv, NEW c \in Check, NEW a \in {"printing", "ok", "error"},
         Asked(c, "console"), Tell(c, "console", a), UNCHANGED <<setup, uploaderVars, sarifClosed, document, results>>,
         mutex' \in {NoCheck} \cup Check, crashed' \in BOOLEAN, stdout' \in Seq(Output),
         MutexInv', LinesInv', Right(c, "console", a),
         \A d \in Check : \A k \in 1..Len(setup.calls[d]) : StdoutInv(d, k)'
  PROVE  ReporterInv'
<1>1. ReporterTypes /\ CallsInv /\ HandledInv
  BY DEF ReporterInv
<1>2. "console" \in setup.reporters
  BY DEF Asked
<1>3. /\ ReporterTypes' /\ DocumentInv' /\ CallsInv'
      /\ \A d \in Check : \A s \in setup.reporters : d # c \/ s # "console" => told'[d][s] = told[d][s]
      /\ \A d \in Check : Number(d)' = Number(d) /\ (Completes(d)' <=> Completes(d)) /\ CallOf(d)' = CallOf(d)
      /\ name' = name
  BY <1>1, <1>2, Answered DEF ReporterTypes, Answer
<1>4. ASSUME NEW d \in Check, NEW k \in 1..Len(setup.calls[d]) PROVE SarifInv(d, k)'
  <2>1. SarifInv(d, k)
    BY <1>1 DEF HandledInv
  <2>2. Handled(d, "sarif", k)' <=> Handled(d, "sarif", k)
    BY <1>3 DEF Handled, Asked
  <2>. QED BY <1>3, <2>1, <2>2, SarifKept
<1>. QED BY <1>3, <1>4 DEF ReporterInv, HandledInv

LEMMA NowShown ==
  ASSUME UploaderInv, ReporterInv, NEW c \in Check, NEW a \in {"printing", "ok", "error"},
         Asked(c, "console"), Tell(c, "console", a), UNCHANGED <<setup, uploaderVars>>,
         NEW d \in Check, NEW k \in 1..Len(setup.calls[d])
  PROVE  Shown(d, k)' <=> Shown(d, k) \/ (d = c /\ k = Number(c))
<1>1. /\ told \in [Check -> [setup.reporters -> Answer]] /\ "console" \in setup.reporters
      /\ Number(d) \in Nat /\ Len(setup.calls[d]) \in Nat
  BY CallTypes DEF UploaderInv, ReporterInv, ReporterTypes, Asked
<1>2. told'[c]["console"] = a /\ (d # c => told'[d] = told[d])
  BY <1>1 DEF Tell
<1>3. Number(d)' = Number(d) /\ (Completes(d)' <=> Completes(d))
  BY DEF Number, Completes, uploaderVars, checkVars
<1>4. CASE d = c
  <2>1. Shown(c, k) => k \in 1..Number(c)
    BY <1>1, <1>4 DEF Shown, Handled
  <2>2. k < Number(c) => Shown(c, k)
    BY <1>1, <1>4 DEF Shown, Handled
  <2>3. Shown(c, k)' <=> k \in 1..Number(c)
    BY <1>1, <1>2, <1>3, <1>4 DEF Shown, Handled, Asked
  <2>. QED BY <1>1, <1>4, <2>1, <2>2, <2>3
<1>5. CASE d # c
  BY <1>2, <1>3, <1>5 DEF Shown, Handled, Asked
<1>. QED BY <1>4, <1>5

\* An answer with no overview: it was written before, or there is none to write.
LEMMA NoOverview ==
  ASSUME UploaderInv, ReporterInv, NEW c \in Check, NEW a \in {"printing", "ok", "error"},
         Asked(c, "console"), Tell(c, "console", a), UNCHANGED <<setup, uploaderVars>>,
         Shown(c, Number(c)) \/ "overview" \in setup.broken \/ CallOf(c).kind = "artifact",
         stdout' = stdout \/ \E x \in Output : stdout' = Append(stdout, x) /\ x.part # "overview"
  PROVE  \A d \in Check : \A k \in 1..Len(setup.calls[d]) : StdoutInv(d, k)'
<1>1. stdout \in Seq(Output) /\ HandledInv
  BY DEF ReporterInv, ReporterTypes
<1>2. ASSUME NEW d \in Check, NEW k \in 1..Len(setup.calls[d]) PROVE StdoutInv(d, k)'
  <2>1. Chunks(d, k, "overview")' = Chunks(d, k, "overview") /\ DOMAIN stdout \subseteq DOMAIN stdout'
    <3>1. CASE stdout' = stdout
      BY <3>1 DEF Chunks
    <3>2. CASE stdout' # stdout
      <4>1. PICK x \in Output : stdout' = Append(stdout, x) /\ x.part # "overview"
        BY <3>2
      <4>2. ChunksOf(Append(stdout, x), d, k, "overview") = ChunksOf(stdout, d, k, "overview")
        BY <1>1, <4>1, AddedOutput
      <4>3. DOMAIN stdout \subseteq DOMAIN Append(stdout, x)
        BY <1>1, AddedOutput
      <4>. QED BY <4>1, <4>2, <4>3, SameChunks
    <3>. QED BY <3>1, <3>2
  <2>2. Shown(d, k)' <=> Shown(d, k) \/ (d = c /\ k = Number(c))
    BY NowShown
  <2>3. StdoutInv(d, k)
    BY <1>1 DEF HandledInv
  <2>. QED BY <2>1, <2>2, <2>3 DEF StdoutInv, CallOf
<1>. QED BY <1>2

\* The overview is written, for the first time.
LEMMA OverviewWritten ==
  ASSUME UploaderInv, ReporterInv, NEW c \in Check, NEW a \in {"printing", "ok", "error"},
         Asked(c, "console"), Tell(c, "console", a), UNCHANGED <<setup, uploaderVars>>,
         ~Shown(c, Number(c)), "overview" \notin setup.broken, CallOf(c).kind # "artifact",
         stdout' = Append(stdout, Chunk(c, "overview"))
  PROVE  \A d \in Check : \A k \in 1..Len(setup.calls[d]) : StdoutInv(d, k)'
<1>. DEFINE x == Chunk(c, "overview")
<1>1. stdout \in Seq(Output) /\ HandledInv /\ "console" \in setup.reporters
  BY DEF ReporterInv, ReporterTypes, Asked
<1>2. x \in Output /\ x.by = c /\ x.number = Number(c) /\ x.part = "overview"
  <2>1. Number(c) \in Nat
    BY CallTypes DEF UploaderInv, ReporterInv
  <2>. QED BY <2>1 DEF Chunk, Output
<1>. HIDE DEF x
<1>3. ASSUME NEW d \in Check, NEW k \in 1..Len(setup.calls[d]) PROVE StdoutInv(d, k)'
  <2>1. Shown(d, k)' <=> Shown(d, k) \/ (d = c /\ k = Number(c))
    BY NowShown
  <2>2. StdoutInv(d, k)
    BY <1>1 DEF HandledInv
  <2>3. /\ DOMAIN Append(stdout, x) = 1..(Len(stdout) + 1) /\ Len(stdout) \in Nat /\ DOMAIN stdout = 1..Len(stdout)
    BY <1>1, <1>2, AddedOutput
  <2>4. CASE d = c /\ k = Number(c)
    <3>1. Chunks(d, k, "overview") = {}
      BY <2>2, <2>4 DEF StdoutInv
    <3>2. \A i : i \in ChunksOf(Append(stdout, x), d, k, "overview")
                   <=> i \in ChunksOf(stdout, d, k, "overview") \/ i = Len(stdout) + 1
      BY <1>1, <1>2, <2>4, AddedOutput
    <3>3. Chunks(d, k, "overview")' = {Len(stdout) + 1}
      BY <3>1, <3>2, SameChunks DEF x
    <3>. QED BY <1>1, <2>1, <2>3, <2>4, <3>3 DEF StdoutInv, CallOf, x
  <2>5. CASE ~(d = c /\ k = Number(c))
    <3>1. ChunksOf(Append(stdout, x), d, k, "overview") = ChunksOf(stdout, d, k, "overview")
      BY <1>1, <1>2, <2>5, AddedOutput
    <3>2. Chunks(d, k, "overview")' = Chunks(d, k, "overview") /\ DOMAIN stdout \subseteq DOMAIN stdout'
      BY <2>3, <3>1, SameChunks DEF x
    <3>. QED BY <2>1, <2>2, <2>5, <3>2 DEF StdoutInv
  <2>. QED BY <2>4, <2>5
<1>. QED BY <1>3

\* Output that is not the lines of a file.
LEMMA OtherLines ==
  ASSUME stdout \in Seq(Output), LinesInv, NEW x \in Output, x.part # "lines",
         stdout' = stdout \/ stdout' = Append(stdout, x)
  PROVE  LinesInv'
<1>1. CASE stdout' = stdout
  BY <1>1 DEF LinesInv
<1>2. CASE stdout' = Append(stdout, x)
  <2>1. /\ Len(stdout) \in Nat /\ DOMAIN stdout = 1..Len(stdout) /\ DOMAIN stdout' = 1..(Len(stdout) + 1)
        /\ stdout'[Len(stdout) + 1] = x /\ \A i \in 1..Len(stdout) : stdout'[i] = stdout[i]
    BY <1>2, AddedOutput
  <2>2. ASSUME NEW i \in DOMAIN stdout', stdout'[i].part = "lines"
        PROVE  /\ i > 1 /\ stdout'[i - 1].part = "overview"
               /\ stdout'[i - 1].by = stdout'[i].by /\ stdout'[i - 1].number = stdout'[i].number
    <3>1. i \in 1..Len(stdout)
      BY <2>1, <2>2
    <3>2. stdout[i].part = "lines" /\ i \in DOMAIN stdout
      BY <2>1, <2>2, <3>1
    <3>3. /\ i > 1 /\ stdout[i - 1].part = "overview"
          /\ stdout[i - 1].by = stdout[i].by /\ stdout[i - 1].number = stdout[i].number
      BY <3>2 DEF LinesInv
    <3>4. i - 1 \in 1..Len(stdout)
      BY <2>1, <3>1, <3>3
    <3>. QED BY <2>1, <3>1, <3>3, <3>4
  <2>. QED BY <2>2 DEF LinesInv
<1>. QED BY <1>1, <1>2

\* The call that the console is asked for is one of the check's, which
\* ctx.emit.finding has accepted.
LEMMA AskedCall ==
  ASSUME UploaderInv, ReporterInv, NEW c \in Check, Asked(c, "console"), ~Completes(c)
  PROVE  /\ Number(c) \in 1..Len(setup.calls[c]) /\ CallOf(c) \in Call /\ Accepted(CallOf(c))
         /\ CallOf(c).line \in Nat
<1>1. /\ Number(c) \in Nat /\ setup \in Setups /\ setup.calls[c] \in Seq(Call) /\ AskedInv(c)
      /\ Len(setup.calls[c]) \in Nat
  BY CallTypes DEF UploaderInv, ReporterInv, ReporterTypes, CallsInv
<1>2. Number(c) \in 1..Len(setup.calls[c])
  BY <1>1 DEF AskedInv, Asked
<1>3. CallOf(c) \in Call /\ Accepted(CallOf(c))
  BY <1>1, <1>2, ReportersAssumption DEF CallOf
<1>4. CallOf(c).line \in Nat
  <2>. DEFINE call == CallOf(c)
  <2>1. call \in Call
    BY <1>3
  <2>. HIDE DEF call
  <2>2. call.line \in Nat
    BY <2>1 DEF Call
  <2>. QED BY <2>2 DEF call
<1>. QED BY <1>2, <1>3, <1>4

LEMMA OverviewKeeps == ASSUME UploaderInv, ReporterInv, NEW c \in Check, Overview(c) PROVE ReporterInv'
<1>. DEFINE a == IF "overview" \in setup.broken THEN "error" ELSE IF OneWrite(c) THEN "ok" ELSE "printing"
            x == Chunk(c, "overview")
<1>1. /\ ~crashed /\ Asked(c, "console") /\ told[c]["console"] = "asked" /\ ~Completes(c)
      /\ CallOf(c).kind # "artifact" /\ mutex = NoCheck /\ Tell(c, "console", a)
      /\ mutex' = IF "overview" \in setup.broken \/ OneWrite(c) THEN NoCheck ELSE c
      /\ stdout' = IF "overview" \in setup.broken THEN stdout ELSE Append(stdout, x)
      /\ UNCHANGED <<setup, uploaderVars, results, sarifClosed, document, crashed>>
  BY DEF Overview, sarifCloseVars
<1>2. a \in {"printing", "ok", "error"} /\ "console" \in setup.reporters
  BY <1>1 DEF Asked
<1>3. /\ UploaderInv /\ ReporterTypes /\ MutexInv /\ LinesInv /\ CallsInv /\ stdout \in Seq(Output)
      /\ told \in [Check -> [setup.reporters -> Answer]] /\ NoCheck \notin Check
  BY ReportersAssumption DEF ReporterInv, ReporterTypes
<1>4. /\ Number(c) \in Nat /\ x \in Output /\ x.part = "overview" /\ Chunk(c, "overview")' = x
      /\ Number(c)' = Number(c) /\ CallOf(c)' = CallOf(c) /\ (Completes(c)' <=> Completes(c))
  <2>1. Number(c) \in Nat
    BY CallTypes DEF UploaderInv, ReporterInv
  <2>2. Number(c)' = Number(c) /\ (Completes(c)' <=> Completes(c))
    BY <1>1 DEF Number, Completes, uploaderVars, checkVars
  <2>. QED BY <1>1, <2>1, <2>2 DEF Chunk, Output, CallOf
<1>5. /\ told'[c]["console"] = a /\ \A d \in Check : d # c => told'[d] = told[d]
      /\ \A d \in Check : told[d]["console"] # "printing"
  <2>1. told' = [told EXCEPT ![c]["console"] = a]
    BY <1>1 DEF Tell
  <2>. HIDE DEF a
  <2>2. told'[c]["console"] = a /\ \A d \in Check : d # c => told'[d] = told[d]
    BY <1>2, <1>3, <2>1
  <2>3. \A d \in Check : told[d]["console"] # "printing"
    BY <1>1, <1>2, <1>3 DEF MutexInv
  <2>. QED BY <2>2, <2>3
<1>6. /\ Append(stdout, x) \in Seq(Output) /\ Append(stdout, x) # <<>>
      /\ Len(stdout) \in Nat /\ DOMAIN stdout = 1..Len(stdout)
      /\ Len(Append(stdout, x)) = Len(stdout) + 1 /\ DOMAIN Append(stdout, x) = 1..(Len(stdout) + 1)
      /\ Append(stdout, x)[Len(stdout) + 1] = x
      /\ \A i \in 1..Len(stdout) : Append(stdout, x)[i] = stdout[i]
  <2>. HIDE DEF x
  <2>. QED BY <1>3, <1>4, AddedOutput
<1>. HIDE DEF a, x
<1>7. MutexInv'
  <2>1. CASE a = "printing"
    <3>1. mutex' = c /\ stdout' = Append(stdout, x)
      BY <1>1, <2>1 DEF a
    <3>2. stdout' # <<>> /\ stdout'[Len(stdout')] = Chunk(c, "overview")'
      BY <1>4, <1>6, <3>1
    <3>3. \A d \in Check : told'[d]["console"] = "printing" => d = c
      BY <1>5
    <3>. QED BY <1>1, <1>2, <1>5, <2>1, <3>1, <3>2, <3>3 DEF MutexInv
  <2>2. CASE a # "printing"
    <3>1. mutex' = NoCheck
      BY <1>1, <2>2 DEF a
    <3>2. \A d \in Check : told'[d]["console"] # "printing"
      BY <1>5, <2>2
    <3>. QED BY <3>1, <3>2 DEF MutexInv
  <2>. QED BY <2>1, <2>2
<1>8. LinesInv'
  BY <1>1, <1>3, <1>4, OtherLines
<1>9. Right(c, "console", a)
  <2>1. CallOf(c).line \in Nat /\ Accepted(CallOf(c))
    BY <1>1, AskedCall
  <2>2. a = "error" => ConsoleFails(CallOf(c))
    BY DEF a, ConsoleFails
  <2>3. a = "ok" => ~ConsoleFails(CallOf(c))
    <3>1. ASSUME a = "ok" PROVE "overview" \notin setup.broken /\ OneWrite(c)
      BY <3>1 DEF a
    <3>2. CallOf(c).kind = "finding" /\ ~CallOf(c).file => CallOf(c).line = 0
      BY <2>1 DEF Accepted
    <3>. QED BY <1>1, <2>1, <3>1, <3>2 DEF ConsoleFails, OneWrite
  <2>4. a = "printing" => Prints(c)
    BY <1>1, <2>1 DEF a, OneWrite, Prints
  <2>. QED BY <2>2, <2>3, <2>4 DEF Right, FailsFor
<1>10. ~Shown(c, Number(c))
  BY <1>1, <1>4 DEF Shown, Handled
<1>11. \A d \in Check : \A k \in 1..Len(setup.calls[d]) : StdoutInv(d, k)'
  <2>1. CASE "overview" \in setup.broken
    BY <1>1, <1>2, <2>1, NoOverview
  <2>2. CASE "overview" \notin setup.broken
    BY <1>1, <1>2, <1>10, <2>2, OverviewWritten DEF x
  <2>. QED BY <2>1, <2>2
<1>12. mutex' \in {NoCheck} \cup Check /\ crashed' \in BOOLEAN /\ stdout' \in Seq(Output)
  BY <1>1, <1>3, <1>6 DEF ReporterTypes
<1>. QED BY <1>1, <1>2, <1>7, <1>8, <1>9, <1>11, <1>12, ConsoleAnswered

\* The lines of the file follow the overview of their finding.
LEMMA HighlightKeeps == ASSUME UploaderInv, ReporterInv, NEW c \in Check, Highlight(c) PROVE ReporterInv'
<1>. DEFINE x == Chunk(c, "lines")
            span   == SpanOf(CallOf(c))
            lines  == SplitLines(CallOf(c).text)
            unread == CallOf(c).kind = "finding" /\ ~CallOf(c).readable
            fails  == unread \/ (IsPrinted(span, lines) /\ "lines" \in setup.broken)
            a      == IF fails THEN "error" ELSE "ok"
<1>1. /\ ~crashed /\ Asked(c, "console") /\ told[c]["console"] = "printing" /\ mutex' = NoCheck
      /\ UNCHANGED <<setup, uploaderVars, results, sarifClosed, document>>
      /\ \/ crashed' = TRUE /\ UNCHANGED <<told, stdout>>
         \/ Tell(c, "console", a) /\ stdout' \in {stdout, Append(stdout, x)} /\ UNCHANGED crashed
  BY DEF Highlight, PrintPanics, sarifCloseVars
<1>2. /\ UploaderInv /\ ReporterTypes /\ MutexInv /\ LinesInv /\ CallsInv /\ stdout \in Seq(Output)
      /\ told \in [Check -> [setup.reporters -> Answer]] /\ NoCheck \notin Check /\ AnswerInv(c)
      /\ "console" \in setup.reporters /\ DocumentInv
  BY <1>1, ReportersAssumption DEF ReporterInv, ReporterTypes, CallsInv, Asked
<1>. HIDE DEF x, span, lines, unread, fails, a
<1>3. Prints(c)
  BY <1>1, <1>2 DEF AnswerInv, Right
<1>4. /\ mutex = c /\ stdout # <<>> /\ stdout[Len(stdout)] = Chunk(c, "overview")
      /\ \A d \in Check : d # c => told[d]["console"] # "printing"
  BY <1>1, <1>2 DEF MutexInv
<1>5. \A d \in Check : /\ Number(d)' = Number(d) /\ (Completes(d)' <=> Completes(d))
                       /\ CallOf(d)' = CallOf(d)
  BY <1>1 DEF Number, Completes, CallOf, uploaderVars, checkVars
<1>6. CASE crashed'
  <2>1. UNCHANGED <<told, stdout, name, closing>>
    BY <1>1, <1>6 DEF uploaderVars, checkVars
  <2>2. ReporterTypes' /\ CallsInv' /\ HandledInv' /\ LinesInv'
    BY <1>1, <1>5, <1>6, <2>1, SameCall
  <2>3. MutexInv'
    BY <1>1, <1>6 DEF MutexInv
  <2>4. DocumentInv'
    BY <1>1, <1>2, <2>1 DEF DocumentInv, Waited, Asked
  <2>. QED BY <2>2, <2>3, <2>4 DEF ReporterInv
<1>7. CASE ~crashed'
  <2>1. /\ Tell(c, "console", a) /\ a \in {"ok", "error"} /\ crashed' = crashed
        /\ stdout' \in {stdout, Append(stdout, x)}
    BY <1>1, <1>7 DEF a
  <2>2. /\ x \in Output /\ x.part = "lines" /\ x.by = c /\ x.number = Number(c)
    <3>1. Number(c) \in Nat
      BY CallTypes DEF UploaderInv, ReporterInv
    <3>. QED BY <3>1 DEF x, Chunk, Output
  <2>3. /\ Append(stdout, x) \in Seq(Output)
        /\ Len(stdout) \in Nat /\ DOMAIN stdout = 1..Len(stdout)
        /\ DOMAIN Append(stdout, x) = 1..(Len(stdout) + 1)
        /\ Append(stdout, x)[Len(stdout) + 1] = x
        /\ \A i \in 1..Len(stdout) : Append(stdout, x)[i] = stdout[i]
    BY <1>2, <2>2, AddedOutput
  <2>4. told'[c]["console"] = a /\ \A d \in Check : d # c => told'[d] = told[d]
    BY <1>2, <2>1 DEF Tell
  <2>5. MutexInv'
    <3>1. \A d \in Check : told'[d]["console"] # "printing"
      BY <1>4, <2>1, <2>4
    <3>. QED BY <1>1, <3>1 DEF MutexInv
  <2>6. LinesInv'
    <3>1. CASE stdout' = stdout
      BY <1>2, <3>1 DEF LinesInv
    <3>2. CASE stdout' # stdout
      <4>1. stdout' = Append(stdout, x) /\ Len(stdout) # 0
        BY <1>2, <1>4, <2>1, <3>2
      <4>2. ASSUME NEW i \in DOMAIN stdout', stdout'[i].part = "lines"
            PROVE  /\ i > 1 /\ stdout'[i - 1].part = "overview"
                   /\ stdout'[i - 1].by = stdout'[i].by /\ stdout'[i - 1].number = stdout'[i].number
        <5>1. CASE i = Len(stdout) + 1
          <6>. DEFINE n == Len(stdout)
          <6>0. n \in 1..Len(stdout) /\ i - 1 = n /\ i > 1
            BY <2>3, <4>1, <5>1
          <6>1. stdout'[i - 1] = Chunk(c, "overview") /\ i > 1
            <7>1. Append(stdout, x)[n] = stdout[n]
              BY <2>3, <6>0
            <7>2. stdout'[i - 1] = Append(stdout, x)[n]
              BY <4>1, <6>0
            <7>. QED BY <1>4, <6>0, <7>1, <7>2
          <6>2. stdout'[i] = x
            BY <2>3, <4>1, <5>1
          <6>. QED BY <2>2, <6>1, <6>2 DEF Chunk
        <5>2. CASE i # Len(stdout) + 1
          <6>1. i \in DOMAIN stdout /\ stdout'[i] = stdout[i]
            BY <2>3, <4>1, <4>2, <5>2
          <6>2. /\ i > 1 /\ stdout[i - 1].part = "overview"
                /\ stdout[i - 1].by = stdout[i].by /\ stdout[i - 1].number = stdout[i].number
            BY <1>2, <4>2, <6>1 DEF LinesInv
          <6>3. stdout'[i - 1] = stdout[i - 1]
            BY <2>3, <4>1, <6>1, <6>2
          <6>. QED BY <6>1, <6>2, <6>3
        <5>. QED BY <5>1, <5>2
      <4>. QED BY <4>2 DEF LinesInv
    <3>. QED BY <3>1, <3>2
  <2>7. Right(c, "console", a)
    <3>1. fails <=> ConsoleFails(CallOf(c))
      BY <1>3 DEF Prints, ConsoleFails, fails, unread, span, lines
    <3>. QED BY <3>1 DEF Right, FailsFor, a
  <2>8. Shown(c, Number(c))
    BY <1>1 DEF Shown
  <2>9. \A d \in Check : \A k \in 1..Len(setup.calls[d]) : StdoutInv(d, k)'
    BY <1>1, <2>1, <2>2, <2>8, NoOverview
  <2>10. mutex' \in {NoCheck} \cup Check /\ crashed' \in BOOLEAN /\ stdout' \in Seq(Output)
    BY <1>1, <1>2, <2>1, <2>3 DEF ReporterTypes
  <2>. QED BY <1>1, <2>1, <2>5, <2>6, <2>7, <2>9, <2>10, ConsoleAnswered
<1>. QED BY <1>6, <1>7

LEMMA NoArtifactsKeeps == ASSUME UploaderInv, ReporterInv, NEW c \in Check, NoArtifacts(c) PROVE ReporterInv'
<1>1. /\ ~crashed /\ Asked(c, "console") /\ ~Completes(c) /\ CallOf(c).kind = "artifact" /\ mutex = NoCheck
      /\ Tell(c, "console", "error") /\ UNCHANGED <<setup, uploaderVars, mutex, stdout, results, sarifClosed, document, crashed>>
      /\ "console" \in setup.reporters
  BY DEF NoArtifacts, Asked, sarifCloseVars
<1>2. /\ ReporterTypes /\ MutexInv /\ LinesInv /\ AnswerInv(c) /\ stdout \in Seq(Output)
      /\ told \in [Check -> [setup.reporters -> Answer]] /\ NoCheck \notin Check
  BY ReportersAssumption DEF ReporterInv, ReporterTypes, CallsInv
<1>3. /\ told'[c]["console"] = "error" /\ \A d \in Check : d # c => told'[d] = told[d]
      /\ \A d \in Check : told[d]["console"] # "printing"
  <2>1. told'[c]["console"] = "error" /\ \A d \in Check : d # c => told'[d] = told[d]
    BY <1>1, <1>2 DEF Tell
  <2>. QED BY <1>1, <1>2, <2>1 DEF MutexInv
<1>4. MutexInv' /\ LinesInv'
  BY <1>1, <1>2, <1>3 DEF MutexInv, LinesInv
<1>5. Right(c, "console", "error")
  BY <1>1 DEF Right, FailsFor, ConsoleFails
<1>6. \A d \in Check : \A k \in 1..Len(setup.calls[d]) : StdoutInv(d, k)'
  BY <1>1, NoOverview
<1>. QED BY <1>1, <1>2, <1>4, <1>5, <1>6, ConsoleAnswered DEF ReporterTypes

LEMMA CompletionPrintedKeeps ==
  ASSUME UploaderInv, ReporterInv, NEW c \in Check, CompletionPrinted(c) PROVE ReporterInv'
<1>. DEFINE x == Chunk(c, "completed")
<1>1. /\ ~crashed /\ Asked(c, "console") /\ Completes(c) /\ mutex = NoCheck
      /\ Tell(c, "console", "ok") /\ stdout' \in {stdout, Append(stdout, x)}
      /\ UNCHANGED <<setup, uploaderVars, mutex, results, sarifClosed, document, crashed>>
      /\ "console" \in setup.reporters
  BY DEF CompletionPrinted, Asked, sarifCloseVars
<1>2. /\ ReporterTypes /\ MutexInv /\ LinesInv /\ AnswerInv(c) /\ stdout \in Seq(Output)
      /\ told \in [Check -> [setup.reporters -> Answer]] /\ NoCheck \notin Check /\ UploaderInv
  BY ReportersAssumption DEF ReporterInv, ReporterTypes, CallsInv
<1>3. /\ told'[c]["console"] = "ok" /\ \A d \in Check : d # c => told'[d] = told[d]
      /\ \A d \in Check : told[d]["console"] # "printing"
  <2>1. told'[c]["console"] = "ok" /\ \A d \in Check : d # c => told'[d] = told[d]
    BY <1>1, <1>2 DEF Tell
  <2>. QED BY <1>1, <1>2, <2>1 DEF MutexInv
<1>4. x \in Output /\ x.part = "completed" /\ Number(c) \in Nat /\ Len(setup.calls[c]) \in Nat
  <2>1. Number(c) \in Nat /\ Len(setup.calls[c]) \in Nat
    BY CallTypes DEF UploaderInv, ReporterInv
  <2>. QED BY <2>1 DEF Chunk, Output
<1>. HIDE DEF x
<1>5. Append(stdout, x) \in Seq(Output)
  BY <1>2, <1>4, AddedOutput
<1>6. MutexInv'
  BY <1>1, <1>2, <1>3 DEF MutexInv
<1>7. LinesInv'
  BY <1>1, <1>2, <1>4, OtherLines
<1>9. Right(c, "console", "ok")
  BY <1>1 DEF Right
<1>10. \A d \in Check : \A k \in 1..Len(setup.calls[d]) : StdoutInv(d, k)'
  <2>1. Number(c) > 0 => Shown(c, Number(c))
    BY <1>1, <1>4 DEF Shown, Handled
  <2>2. CASE Number(c) > 0
    BY <1>1, <1>4, <2>1, <2>2, NoOverview
  <2>3. CASE Number(c) = 0
    <3>1. ASSUME NEW d \in Check, NEW k \in 1..Len(setup.calls[d]) PROVE StdoutInv(d, k)'
      <4>1. ChunksOf(Append(stdout, x), d, k, "overview") = ChunksOf(stdout, d, k, "overview")
            /\ DOMAIN stdout \subseteq DOMAIN Append(stdout, x)
        BY <1>2, <1>4, AddedOutput
      <4>2. Chunks(d, k, "overview")' = Chunks(d, k, "overview") /\ DOMAIN stdout \subseteq DOMAIN stdout'
        BY <1>1, <4>1, SameChunks
      <4>3. Shown(d, k)' <=> Shown(d, k) \/ (d = c /\ k = Number(c))
        BY <1>1, NowShown
      <4>4. ~(d = c /\ k = Number(c))
        BY <1>4, <2>3
      <4>5. StdoutInv(d, k)
        BY DEF ReporterInv, HandledInv
      <4>. QED BY <1>1, <4>2, <4>3, <4>4, <4>5, StdoutKept
    <3>. QED BY <3>1
  <2>. QED BY <1>4, <2>2, <2>3
<1>. QED BY <1>1, <1>2, <1>5, <1>6, <1>7, <1>9, <1>10, ConsoleAnswered DEF ReporterTypes

-----------------------------------------------------------------------------
(* The theorems                                                            *)

LEMMA ReportersStart == Init => ReporterInv
<1>. SUFFICES ASSUME Init PROVE ReporterInv
  OBVIOUS
<1>1. /\ setup \in Setups /\ pc = [c \in Check |-> IF c \in setup.selected THEN "idle" ELSE "suppressed"]
      /\ emitted = [c \in Check |-> 0] /\ closing = "no"
      /\ told = [c \in Check |-> [r \in setup.reporters |-> "idle"]]
      /\ mutex = NoCheck /\ stdout = <<>> /\ results = [n \in Name |-> <<>>]
      /\ sarifClosed = "no" /\ document = NoDocument /\ crashed = FALSE
  BY DEF Init, UploaderInit
<1>2. \A c \in Check : Number(c) = 0 /\ ~Completes(c) /\ setup.calls[c] \in Seq(Call)
  BY <1>1, ReportersAssumption DEF Number, Completes, Setup
<1>3. ReporterTypes
  <2>1. told \in [Check -> [setup.reporters -> Answer]]
    BY <1>1 DEF Answer
  <2>2. stdout \in Seq(Output) /\ results \in [Name -> Seq(Entry)]
    BY <1>1
  <2>. QED BY <1>1, <2>1, <2>2 DEF ReporterTypes
<1>4. CallsInv
  BY <1>1, <1>2 DEF CallsInv, AskedInv, AnswerInv, Right
<1>5. MutexInv /\ LinesInv /\ DocumentInv
  BY <1>1, ReportersAssumption DEF MutexInv, LinesInv, DocumentInv, Waited, Asked
<1>6. ASSUME NEW c \in Check, NEW k PROVE SarifInv(c, k) /\ StdoutInv(c, k)
  <2>1. Entries(c, k) = {} /\ Chunks(c, k, "overview") = {}
    BY <1>1 DEF Entries, Chunks
  <2>2. \A r : ~Handled(c, r, k)
    BY <1>2 DEF Handled
  <2>3. "console" \in setup.reporters => ~Shown(c, k)
    BY <1>1, <2>2 DEF Shown
  <2>. QED BY <2>1, <2>2, <2>3 DEF SarifInv, StdoutInv
<1>. QED BY <1>3, <1>4, <1>5, <1>6 DEF ReporterInv, HandledInv

LEMMA ReportersStepKeeps == UploaderInv /\ ReporterInv /\ [Next]_vars => ReporterInv'
<1>. SUFFICES ASSUME UploaderInv, ReporterInv, [Next]_vars PROVE ReporterInv'
  OBVIOUS
<1>1. ASSUME NEW c \in Check, CheckStep(c) PROVE ReporterInv'
  BY <1>1, Emits, CompletionCalled, QuietReporters DEF CheckStep
<1>2. ASSUME NEW c \in Check, ReporterStep(c) PROVE ReporterInv'
  <2>1. CASE UploaderTold(c)
    BY <2>1, QuietReporters
  <2>2. CASE ConsoleTold(c)
    BY <2>2, OverviewKeeps, HighlightKeeps, NoArtifactsKeeps, CompletionPrintedKeeps DEF ConsoleTold
  <2>3. CASE SarifTold(c)
    BY <2>3, Reported
  <2>. QED BY <1>2, <2>1, <2>2, <2>3 DEF ReporterStep
<1>3. Uploads \/ Closes \/ Over \/ UNCHANGED vars => ReporterInv'
  BY QuietReporters
<1>. QED BY <1>1, <1>2, <1>3 DEF Next

\* What MultiReport, the console and SARIF keep true of the calls of all the checks
\* (multi.go: do; reporting.go: synchronized; sarif.go: resultsByCheck).
THEOREM ReporterInvariance == Spec => [](UploaderInv /\ ReporterInv)
<1>1. UploaderInv /\ ReporterInv /\ [Next]_vars => ReporterInv'
  BY ReportersStepKeeps
<1>. QED BY <1>1, ReportersStart, UploaderInvariance, PTL DEF Spec

\* The types of all that the reporters keep.
THEOREM TypeCorrect == Spec => []TypeOK
<1>1. UploaderInv /\ ReporterInv => TypeOK
  <2>. SUFFICES ASSUME UploaderInv, ReporterInv PROVE TypeOK
    OBVIOUS
  <2>1. UploaderTypeOK /\ ReporterTypes /\ MutexInv /\ DocumentInv
    BY DEF UploaderInv, MoreTypes, ReporterInv
  <2>2. setup \in Setup
    BY <2>1, ReportersAssumption DEF ReporterTypes
  <2>3. ASSUME NEW n \in Name, NEW i \in DOMAIN results[n] PROVE results[n][i].by \in Check
    <3>1. results[n] \in Seq(Entry)
      BY <2>1 DEF ReporterTypes
    <3>2. results[n][i] \in Entry
      BY <2>3, <3>1
    <3>. QED BY <3>2 DEF Entry
  <2>. QED BY <2>1, <2>2, <2>3 DEF TypeOK, ReporterTypes, MutexInv, DocumentInv, Answer
<1>. QED BY <1>1, ReporterInvariance, PTL

\* The calls that have returned are handled by all the reporters.
LEMMA ReturnedIsHandled ==
  ASSUME UploaderInv, ReporterInv, NEW c \in Check, NEW k \in ReturnedCalls(c)
  PROVE  /\ k \in 1..Number(c) /\ k \in 1..emitted[c] /\ k \in 1..Len(setup.calls[c])
         /\ \A r \in setup.reporters : Handled(c, r, k)
<1>1. /\ Number(c) \in Nat /\ emitted[c] \in Nat /\ Len(setup.calls[c]) \in Nat
      /\ Number(c) <= Len(setup.calls[c])
  BY CallTypes DEF UploaderInv, ReporterInv, CallsInv, AskedInv
<1>2. k \in 1..emitted[c] /\ emitted[c] <= Number(c)
  BY <1>1 DEF ReturnedCalls, Number
<1>3. k \in 1..Number(c) /\ k \in 1..Len(setup.calls[c])
  BY <1>1, <1>2
<1>4. ASSUME NEW r \in setup.reporters, ~Completes(c), Asked(c, r) PROVE k < Number(c)
  <2>1. ~Waited(c)
    BY <1>4 DEF Waited
  <2>2. CASE pc[c] = "emit"
    BY <1>1, <1>2, <2>2 DEF Number
  <2>3. CASE pc[c] # "emit"
    BY <1>1, <1>4, <2>1, <2>3 DEF Number, ReturnedCalls
  <2>. QED BY <2>2, <2>3
<1>. QED BY <1>2, <1>3, <1>4 DEF Handled

\* A call that has returned and failed is the last of its check, which was told.
LEMMA FailureIsTold ==
  ASSUME UploaderInv, ReporterInv, NEW c \in Check, NEW k \in ReturnedCalls(c)
  PROVE  /\ CallFails(setup.calls[c][k]) => Number(c) = k
         /\ pc[c] = "idle" /\ k = emitted[c] => (Failed(c) <=> CallFails(setup.calls[c][k]))
<1>1. k \in 1..Number(c) /\ k \in 1..emitted[c] /\ Number(c) \in Nat /\ emitted[c] \in Nat
  BY ReturnedIsHandled, CallTypes DEF UploaderInv, ReporterInv
<1>2. /\ told[c] \in [setup.reporters -> Answer] /\ AnswerInv(c) /\ AskedInv(c)
      /\ setup.reporters \subseteq {"console", "sarif"}
  BY CallTypes DEF UploaderInv, ReporterInv, CallsInv, ReporterTypes
<1>3. CallFails(setup.calls[c][k]) => Number(c) = k
  BY <1>1, <1>2 DEF AnswerInv
<1>4. ASSUME pc[c] = "idle", k = emitted[c] PROVE Failed(c) <=> CallFails(setup.calls[c][k])
  <2>1. Number(c) = k /\ ~Completes(c) /\ CallOf(c) = setup.calls[c][k] /\ Number(c) > 0
    BY <1>1, <1>4 DEF Number, Completes, CallOf
  <2>2. ASSUME NEW r \in setup.reporters
        PROVE  told[c][r] \in {"ok", "error"} /\ (told[c][r] = "error" <=> FailsFor(r, CallOf(c)))
    <3>1. Handled(c, r, k)
      BY ReturnedIsHandled
    <3>2. ~Asked(c, r)
      BY <1>1, <2>1, <3>1 DEF Handled
    <3>3. told[c][r] \in {"ok", "error"}
      BY <1>2, <2>1, <3>2 DEF Asked, Answer, AskedInv
    <3>. QED BY <1>2, <2>1, <3>3 DEF AnswerInv, Right
  <2>3. Failed(c) <=> \E r \in setup.reporters : FailsFor(r, CallOf(c))
    BY <2>2 DEF Failed
  <2>4. CallFails(CallOf(c)) <=> \E r \in setup.reporters : FailsFor(r, CallOf(c))
    BY <1>2 DEF CallFails, FailsFor
  <2>. QED BY <2>1, <2>3, <2>4
<1>. QED BY <1>3, <1>4

\* SARIF has the call once, under the name of its check, and stdout has it once.
LEMMA ToldOnce ==
  ASSUME UploaderInv, ReporterInv, NEW c \in Check, NEW k \in ReturnedCalls(c)
  PROVE  /\ "sarif" \in setup.reporters /\ setup.calls[c][k].kind # "artifact" =>
              /\ Cardinality(Entries(c, k)) = IF SarifFails(setup.calls[c][k]) THEN 0 ELSE 1
              /\ \A e \in Entries(c, k) : e[1] = name[c]
         /\ "console" \in setup.reporters =>
              Cardinality(Chunks(c, k, "overview")) =
                IF "overview" \in setup.broken \/ setup.calls[c][k].kind = "artifact" THEN 0 ELSE 1
<1>1. /\ k \in 1..Len(setup.calls[c]) /\ SarifInv(c, k) /\ StdoutInv(c, k)
      /\ \A r \in setup.reporters : Handled(c, r, k)
  BY ReturnedIsHandled DEF ReporterInv, HandledInv
<1>2. ASSUME "sarif" \in setup.reporters, setup.calls[c][k].kind # "artifact"
      PROVE  /\ Cardinality(Entries(c, k)) = IF SarifFails(setup.calls[c][k]) THEN 0 ELSE 1
             /\ \A e \in Entries(c, k) : e[1] = name[c]
  <2>1. CASE SarifFails(setup.calls[c][k])
    <3>1. Entries(c, k) = {}
      BY <1>1, <2>1 DEF SarifInv
    <3>. QED BY <2>1, <3>1, FS_EmptySet
  <2>2. CASE ~SarifFails(setup.calls[c][k])
    <3>1. PICK i : Entries(c, k) = {<<name[c], i>>}
      BY <1>1, <1>2, <2>2 DEF SarifInv
    <3>2. Cardinality(Entries(c, k)) = 1
      BY <3>1, FS_Singleton
    <3>. QED BY <2>2, <3>1, <3>2
  <2>. QED BY <2>1, <2>2
<1>3. ASSUME "console" \in setup.reporters
      PROVE  Cardinality(Chunks(c, k, "overview")) =
               IF "overview" \in setup.broken \/ setup.calls[c][k].kind = "artifact" THEN 0 ELSE 1
  <2>1. CASE "overview" \in setup.broken \/ setup.calls[c][k].kind = "artifact"
    <3>1. Chunks(c, k, "overview") = {}
      BY <1>1, <2>1 DEF StdoutInv
    <3>. QED BY <2>1, <3>1, FS_EmptySet
  <2>2. CASE ~("overview" \in setup.broken \/ setup.calls[c][k].kind = "artifact")
    <3>1. PICK i : Chunks(c, k, "overview") = {i}
      BY <1>1, <1>3, <2>2 DEF StdoutInv, Shown
    <3>2. Cardinality({i}) = 1
      BY FS_Singleton
    <3>. QED BY <2>2, <3>1, <3>2
  <2>. QED BY <2>1, <2>2
<1>. QED BY <1>2, <1>3

\* The document has the results of all the calls.
LEMMA DocumentComplete ==
  ASSUME UploaderInv, ReporterInv, document # NoDocument, NEW c \in Check, NEW k \in 1..emitted[c],
         setup.calls[c][k].kind # "artifact", ~SarifFails(setup.calls[c][k])
  PROVE  \E i \in DOMAIN document[1][name[c]] :
           document[1][name[c]][i].by = c /\ document[1][name[c]][i].number = k
<1>1. closing # "no" /\ document = <<results>> /\ "sarif" \in setup.reporters /\ Waited(c)
  BY DEF ReporterInv, DocumentInv
<1>2. k \in ReturnedCalls(c)
  <2>1. emitted[c] \in Nat
    BY CallTypes DEF UploaderInv, ReporterInv
  <2>2. ReturnedCalls(c) = 1..(emitted[c] - 0)
    BY <1>1 DEF ReturnedCalls
  <2>. QED BY <2>1, <2>2
<1>3. SarifInv(c, k) /\ Handled(c, "sarif", k)
  BY <1>1, <1>2, ReturnedIsHandled DEF ReporterInv, HandledInv
<1>4. PICK i \in DOMAIN results[name[c]] : Entries(c, k) = {<<name[c], i>>}
  BY <1>1, <1>3 DEF SarifInv
<1>5. results[name[c]][i].by = c /\ results[name[c]][i].number = k
  <2>1. PICK n \in Name : <<name[c], i>> \in
          {n} \X {j \in DOMAIN results[n] : results[n][j].by = c /\ results[n][j].number = k}
    BY <1>4 DEF Entries
  <2>. QED BY <2>1
<1>. QED BY <1>1, <1>4, <1>5

\* When a call of MultiReport has returned, every reporter has it, once and in one
\* piece, and its error is not lost; what Close of SARIF writes is complete
\* (multi.go: do; reporting.go: synchronized; sarif.go: Close).
THEOREM AllAreTold == Spec => []EveryReporterTold
<1>1. UploaderInv /\ ReporterInv => EveryReporterTold
  <2>. SUFFICES ASSUME UploaderInv, ReporterInv PROVE EveryReporterTold
    OBVIOUS
  <2>1. LinesInv
    BY DEF ReporterInv
  <2>. QED BY <2>1, FailureIsTold, ToldOnce, DocumentComplete DEF EveryReporterTold, LinesInv
<1>. QED BY <1>1, ReporterInvariance, PTL

-----------------------------------------------------------------------------
(* What the reporters render                                               *)

\* A span of numbers that does not end before its first line.
SpanFacts(s) ==
  /\ s.line \in Nat /\ s.col \in Nat /\ s.endLine \in Nat /\ s.endCol \in Nat
  /\ s.endLine > 0 => s.endLine >= s.line

\* Where the highlight is in a line of the span: just what the span covers.
LEMMA MarkedIs ==
  ASSUME NEW s, SpanFacts(s), NEW lines \in Seq(Text), IsPrinted(s, lines), ~PrintPanics(s, lines),
         NEW k \in 1..Len(lines), k \in s.line..LastOf(s)
  PROVE  /\ MarkedFrom(s, k) \in 1..Len(lines[k]) + 1
         /\ MarkedTo(s, lines, k) \in MarkedFrom(s, k)..Len(lines[k]) + 1
         /\ InSpan(s, lines, k) = MarkedFrom(s, k)..(MarkedTo(s, lines, k) - 1)
<1>. DEFINE n    == Len(lines[k])
            from == MarkedFrom(s, k)
            to   == MarkedTo(s, lines, k)
<1>1. /\ s.line \in Nat /\ s.line > 0 /\ s.col \in Nat /\ s.endLine \in Nat /\ s.endCol \in Nat
      /\ k \in Nat /\ k > 0 /\ n \in Nat /\ DOMAIN lines[k] = 1..n
  <2>1. lines[k] \in Seq(Char)
    BY LinesAre DEF Text
  <2>2. n \in Nat /\ DOMAIN lines[k] = 1..n
    BY <2>1, LenProperties
  <2>3. Len(lines) \in Nat
    BY LinesAre
  <2>. QED BY <2>2, <2>3 DEF SpanFacts, IsPrinted
<1>2. from = IF k = s.line /\ s.col > 0 THEN s.col ELSE 1
  BY DEF MarkedFrom
<1>3. to = IF s.endCol > 0 /\ k = s.endLine THEN IF s.endCol <= n + 1 THEN s.endCol ELSE n + 1 ELSE n + 1
  <2>1. n + 1 \in Int /\ s.endCol \in Int
    BY <1>1
  <2>2. Clipped(s.endCol, lines[k]) = IF s.endCol <= n + 1 THEN s.endCol ELSE n + 1
    BY <2>1, SmallerIs DEF Clipped
  <2>. QED BY <2>2 DEF MarkedTo
<1>4. k = s.line => from - 1 <= n /\ from <= to
  <2>1. ~(MarkedFrom(s, s.line) - 1 > Len(lines[s.line])) /\ ~(MarkedTo(s, lines, s.line) < MarkedFrom(s, s.line))
    BY DEF PrintPanics
  <2>2. from \in Int /\ to \in Int
    BY <1>1, <1>2, <1>3
  <2>. QED BY <2>1, <2>2, <1>1
<1>. HIDE DEF from, to, n
<1>5. from \in Nat /\ to \in Nat /\ 1 <= from /\ from <= to /\ to <= n + 1
  <2>1. from \in Nat /\ to \in Nat /\ 1 <= from /\ to <= n + 1 /\ 1 <= to
    BY <1>1, <1>2, <1>3
  <2>2. k # s.line => from = 1
    BY <1>2
  <2>. QED BY <2>1, <2>2, <1>4
<1>6. ASSUME NEW i \in 1..n
      PROVE  ((k = s.line /\ s.col > 0 => i >= s.col) /\ (k = s.endLine /\ s.endCol > 0 => i < s.endCol))
             <=> i \in from..(to - 1)
  <2>1. (k = s.line /\ s.col > 0 => i >= s.col) <=> from <= i
    BY <1>1, <1>2
  <2>2. (k = s.endLine /\ s.endCol > 0 => i < s.endCol) <=> i < to
    BY <1>1, <1>3
  <2>3. i \in from..(to - 1) <=> from <= i /\ i < to
    BY <1>5
  <2>. QED BY <2>1, <2>2, <2>3
<1>7. from..(to - 1) \subseteq 1..n
  BY <1>1, <1>5
<1>8. InSpan(s, lines, k) = {i \in 1..n : /\ k = s.line /\ s.col > 0 => i >= s.col
                                          /\ k = s.endLine /\ s.endCol > 0 => i < s.endCol}
  BY <1>1 DEF InSpan
<1>9. InSpan(s, lines, k) = from..(to - 1)
  BY <1>6, <1>7, <1>8
<1>. QED BY <1>1, <1>5, <1>9 DEF from, to, n

\* Which lines are printed.
LEMMA PrintedIs ==
  ASSUME NEW s, SpanFacts(s), NEW lines \in Seq(Text), IsPrinted(s, lines)
  PROVE  \E a, b \in Nat :
           /\ 1 <= a /\ a <= b /\ b <= Len(lines)
           /\ PrintedLines(s, lines) = a..b /\ Min(PrintedLines(s, lines)) = a
           /\ Cardinality(PrintedLines(s, lines)) = b - a + 1
<1>. DEFINE n    == Len(lines)
            last == LastOf(s) + 1
            a    == IF 1 <= s.line - 1 THEN s.line - 1 ELSE 1
            b    == IF last <= n THEN last ELSE n
<1>1. /\ s.line \in Nat /\ s.line > 0 /\ s.line < n /\ n \in Nat /\ LastOf(s) \in Nat /\ LastOf(s) >= s.line
  BY LinesAre DEF SpanFacts, IsPrinted, LastOf
<1>2. Max({1, s.line - 1}) = a /\ Min({last, n}) = b
  <2>1. 1 \in Int /\ s.line - 1 \in Int /\ last \in Int /\ n \in Int
    BY <1>1
  <2>. HIDE DEF last, n
  <2>2. Max({1, s.line - 1}) = a
    BY <2>1, LargerIs
  <2>3. Min({last, n}) = b
    BY <2>1, SmallerIs
  <2>. QED BY <2>2, <2>3
<1>3. PrintedLines(s, lines) = a..b
  BY <1>2 DEF PrintedLines
<1>4. a \in Nat /\ b \in Nat /\ 1 <= a /\ a <= b /\ b <= n
  BY <1>1
<1>. HIDE DEF a, b, n, last
<1>5. Min(a..b) = a
  <2>1. a \in a..b /\ a..b \subseteq Int /\ \A x \in a..b : a <= x
    BY <1>4
  <2>. QED BY <2>1, MinIs
<1>6. Cardinality(a..b) = b - a + 1
  <2>1. Cardinality(a..b) = IF a > b THEN 0 ELSE b - a + 1
    BY <1>4, FS_Interval
  <2>. QED BY <2>1, <1>4
<1>. QED BY <1>3, <1>4, <1>5, <1>6 DEF n

\* The lines that are printed are whole, with just the span highlighted, unless
\* slicing panics (reporting.go: printHighlightedLines).
THEOREM HighlightedRight ==
  ASSUME NEW s, SpanFacts(s), s.line > 0, NEW lines \in Seq(Text), ~PrintPanics(s, lines)
  PROVE  ShowsSpan(Highlighted(s, lines), s, lines)
<1>. SUFFICES ASSUME s.line < Len(lines), NEW k \in PrintedLines(s, lines)
              PROVE  LET cut == Highlighted(s, lines)[k - Min(PrintedLines(s, lines)) + 1] IN
                     /\ cut.before \o cut.marked \o cut.after = lines[k]
                     /\ InSpan(s, lines, k) =
                          IF cut.marked = <<>> THEN {}
                          ELSE (Len(cut.before) + 1)..(Len(cut.before) + Len(cut.marked))
  BY DEF ShowsSpan
<1>1. IsPrinted(s, lines)
  BY DEF IsPrinted
<1>. DEFINE PL == PrintedLines(s, lines)
            piece(h) == IF h \in s.line..LastOf(s) THEN Cut(lines[h], MarkedFrom(s, h), MarkedTo(s, lines, h))
                        ELSE Cut(lines[h], 1, 1)
<1>2. PICK a \in Nat, b \in Nat :
        /\ 1 <= a /\ a <= b /\ b <= Len(lines)
        /\ PL = a..b /\ Min(PL) = a /\ Cardinality(PL) = b - a + 1
  BY <1>1, PrintedIs
<1>3. Highlighted(s, lines) = [i \in 1..Cardinality(PL) |-> piece(Min(PL) + i - 1)]
  BY <1>1 DEF Highlighted
<1>. HIDE DEF PL, piece
<1>4. k \in a..b /\ k \in 1..Len(lines) /\ lines[k] \in Text
  <2>1. k \in a..b
    BY <1>2 DEF PL
  <2>2. k \in 1..Len(lines)
    BY <2>1, <1>2, LinesAre
  <2>. QED BY <2>1, <2>2, LinesAre
<1>5. Highlighted(s, lines)[k - Min(PL) + 1] = piece(k)
  <2>1. k - a + 1 \in 1..b - a + 1 /\ a + (k - a + 1) - 1 = k
    BY <1>2, <1>4
  <2>2. Highlighted(s, lines) = [i \in 1..b - a + 1 |-> piece(a + i - 1)]
    BY <1>2, <1>3
  <2>3. Highlighted(s, lines)[k - a + 1] = piece(a + (k - a + 1) - 1)
    BY <2>1, <2>2
  <2>. QED BY <2>1, <2>3, <1>2
<1>. DEFINE cut  == piece(k)
            from == IF k \in s.line..LastOf(s) THEN MarkedFrom(s, k) ELSE 1
            to   == IF k \in s.line..LastOf(s) THEN MarkedTo(s, lines, k) ELSE 1
<1>6. cut = Cut(lines[k], from, to)
  BY DEF piece
<1>7. from \in 1..Len(lines[k]) + 1 /\ to \in from..Len(lines[k]) + 1 /\ InSpan(s, lines, k) = from..(to - 1)
  <2>1. Len(lines[k]) \in Nat
    BY <1>4, LenProperties DEF Text
  <2>2. CASE k \in s.line..LastOf(s)
    BY <2>2, <1>1, <1>4, MarkedIs
  <2>3. CASE k \notin s.line..LastOf(s)
    <3>1. InSpan(s, lines, k) = {}
      BY <2>3 DEF InSpan
    <3>2. 1..(1 - 1) = {}
      OBVIOUS
    <3>. QED BY <2>1, <2>3, <3>1, <3>2
  <2>. QED BY <2>2, <2>3
<1>. HIDE DEF cut, from, to
<1>8. /\ cut.before \o cut.marked \o cut.after = lines[k]
      /\ Len(cut.before) = from - 1 /\ Len(cut.marked) = to - from
  BY <1>4, <1>6, <1>7, CutIs
<1>9. cut.marked = <<>> => to = from
  <2>1. Len(<<>>) = 0
    OBVIOUS
  <2>2. Len(lines[k]) \in Nat
    BY <1>4, LenProperties DEF Text
  <2>. QED BY <2>1, <2>2, <1>7, <1>8
<1>10. InSpan(s, lines, k) = IF cut.marked = <<>> THEN {}
                            ELSE (Len(cut.before) + 1)..(Len(cut.before) + Len(cut.marked))
  <2>1. from \in Int /\ to \in Int
    <3>1. Len(lines[k]) \in Nat
      BY <1>4, LenProperties DEF Text
    <3>. QED BY <3>1, <1>7
  <2>2. (from - 1) + 1 = from /\ (from - 1) + (to - from) = to - 1
    BY <2>1
  <2>3. to = from => from..(to - 1) = {}
    BY <2>1
  <2>. QED BY <2>2, <2>3, <1>7, <1>8, <1>9
<1>. QED BY <1>5, <1>8, <1>10 DEF PL, cut

\* What printing panics for.
LEMMA PanicIs ==
  ASSUME NEW s, s.line \in Nat, s.col \in Nat, s.endLine \in Nat, s.endCol \in Nat, ValidSpan(s),
         NEW lines \in Seq(Text), PrintPanics(SpanOf(s), lines),
         SpanOf(s).line = s.line, SpanOf(s).col = s.col, SpanOf(s).endCol = s.endCol,
         SpanOf(s).endLine = IF s.line > 0 /\ s.endLine = 0 /\ s.endCol > 0 THEN s.line ELSE s.endLine
  PROVE  s.col > Len(lines[s.line]) + 1 \/ (s.endLine = 0 /\ s.endCol \in 1..(s.col - 1))
<1>. DEFINE t    == SpanOf(s)
            n    == Len(lines[s.line])
            from == MarkedFrom(t, t.line)
            to   == MarkedTo(t, lines, t.line)
<1>1. n \in Nat /\ s.line > 0
  <2>1. s.line > 0 /\ s.line < Len(lines) /\ Len(lines) \in Nat
    BY LinesAre DEF PrintPanics, IsPrinted
  <2>2. lines[s.line] \in Seq(Char)
    <3>1. s.line \in 1..Len(lines)
      BY <2>1
    <3>. QED BY <3>1, LinesAre DEF Text
  <2>. QED BY <2>1, <2>2, LenProperties
<1>2. from - 1 > n \/ to < from
  BY DEF PrintPanics
<1>3. from = IF s.col > 0 THEN s.col ELSE 1
  BY DEF MarkedFrom
<1>4. to = IF s.endCol > 0 /\ s.line = t.endLine THEN IF s.endCol <= n + 1 THEN s.endCol ELSE n + 1 ELSE n + 1
  <2>1. n + 1 \in Int /\ s.endCol \in Int
    BY <1>1
  <2>2. Clipped(s.endCol, lines[s.line]) = IF s.endCol <= n + 1 THEN s.endCol ELSE n + 1
    BY <2>1, SmallerIs DEF Clipped
  <2>. QED BY <2>2 DEF MarkedTo
<1>. HIDE DEF n, from, to
<1>5. CASE s.col > n + 1
  BY <1>5 DEF n
<1>6. CASE ~(s.col > n + 1)
  <2>1. s.endCol > 0 /\ s.line = t.endLine /\ s.endCol < s.col
    BY <1>1, <1>2, <1>3, <1>4, <1>6
  <2>2. s.endLine = 0
    BY <1>1, <2>1 DEF ValidSpan
  <2>. QED BY <2>1, <2>2
<1>. QED BY <1>5, <1>6

\* What is known of the call that a check made.
LEMMA CallIs ==
  ASSUME ReporterTypes, NEW c \in Check, NEW k \in 1..Len(setup.calls[c])
  PROVE  LET call == setup.calls[c][k] IN
         /\ call.text \in Text /\ call.replacements \in Seq(Text)
         /\ call.line \in Nat /\ call.col \in Nat /\ call.endLine \in Nat /\ call.endCol \in Nat
         /\ ValidSpan(call) /\ Diffed(call)
         /\ SpanOf(call).line = call.line /\ SpanOf(call).col = call.col /\ SpanOf(call).endCol = call.endCol
         /\ SpanOf(call).endLine =
              IF call.line > 0 /\ call.endLine = 0 /\ call.endCol > 0 THEN call.line ELSE call.endLine
<1>. DEFINE call == setup.calls[c][k]
<1>1. setup \in Setups /\ setup \in Setup
  BY ReportersAssumption DEF ReporterTypes
<1>2. setup.calls[c] \in Seq(Call)
  BY <1>1 DEF Setup
<1>3. call \in Call /\ k \in DOMAIN setup.calls[c]
  BY <1>2
<1>4. Accepted(call) /\ Diffed(call)
  BY <1>1, <1>3, ReportersAssumption
<1>. HIDE DEF call
<1>5. /\ call.text \in Text /\ call.replacements \in Seq(Text)
      /\ call.line \in Nat /\ call.col \in Nat /\ call.endLine \in Nat /\ call.endCol \in Nat
      /\ {"line", "col", "endLine", "endCol"} \subseteq DOMAIN call
  BY <1>3 DEF Call
<1>6. /\ SpanOf(call).line = call.line /\ SpanOf(call).col = call.col /\ SpanOf(call).endCol = call.endCol
      /\ SpanOf(call).endLine =
           IF call.line > 0 /\ call.endLine = 0 /\ call.endCol > 0 THEN call.line ELSE call.endLine
  BY <1>5 DEF SpanOf
<1>. QED BY <1>4, <1>5, <1>6 DEF Accepted, call

LEMMA SpanHasFacts ==
  ASSUME ReporterTypes, NEW c \in Check, NEW k \in 1..Len(setup.calls[c])
  PROVE  SpanFacts(SpanOf(setup.calls[c][k]))
<1>. DEFINE call == setup.calls[c][k]
            s    == SpanOf(call)
<1>1. /\ call.line \in Nat /\ call.col \in Nat /\ call.endLine \in Nat /\ call.endCol \in Nat
      /\ ValidSpan(call) /\ s.line = call.line /\ s.col = call.col /\ s.endCol = call.endCol
      /\ s.endLine = IF call.line > 0 /\ call.endLine = 0 /\ call.endCol > 0 THEN call.line ELSE call.endLine
  BY CallIs
<1>. HIDE DEF call, s
<1>2. SpanFacts(s)
  BY <1>1 DEF SpanFacts, ValidSpan
<1>. QED BY <1>2 DEF s, call

\* The fixes of a call that replaces a whole file make the file that it suggests.
LEMMA FixesAreRight ==
  ASSUME ReporterTypes, NEW c \in Check, NEW k \in 1..Len(setup.calls[c]),
         setup.calls[c][k].line = 0, setup.calls[c][k].kind = "finding",
         NEW j \in DOMAIN setup.calls[c][k].replacements
  PROVE  LET call  == setup.calls[c][k]
             lines == Lines(call.text)
         IN AllAtOnce({Normalize(e, lines) : e \in Fixes(call)[j]}, lines) = call.replacements[j]
<1>. DEFINE call  == setup.calls[c][k]
            old   == Lines(call.text)
            text  == call.replacements[j]
            new   == Lines(text)
            M     == call.diffs[j]
            s     == SpanOf(call)
<1>1. /\ call.text \in Text /\ call.replacements \in Seq(Text) /\ call.endCol \in Nat /\ call.col \in Nat
      /\ call.endLine \in Nat /\ ValidSpan(call) /\ Diffed(call)
      /\ s.line = call.line /\ s.col = call.col /\ s.endCol = call.endCol
      /\ s.endLine = IF call.line > 0 /\ call.endLine = 0 /\ call.endCol > 0 THEN call.line ELSE call.endLine
      /\ call.line = 0 /\ call.kind = "finding" /\ j \in DOMAIN call.replacements
  BY CallIs
<1>. HIDE DEF call, s
<1>2. text \in Text
  BY <1>1
<1>3. s.line = 0 /\ s.col = 0 /\ s.endLine = 0 /\ s.endCol = 0
  BY <1>1 DEF ValidSpan
<1>4. Fixes(call)[j] = FixOf(s, text, M, call.text, call.readable)
  BY <1>1 DEF Fixes, s
<1>. HIDE DEF text, M
<1>5. /\ old \in Seq(Text) /\ Len(old) > 0 /\ Join(old) = call.text
      /\ new \in Seq(Text) /\ Len(new) > 0 /\ Join(new) = text
  BY <1>1, <1>2, LinesProperties
<1>6. CASE call.readable
  <2>1. Fixes(call)[j] = {Replacement(g, new) : g \in Groups(M, old, new)}
    BY <1>3, <1>4, <1>6 DEF FixOf
  <2>2. M \in Alignments(old, new)
    BY <1>1, <1>6 DEF Diffed, M, text
  <2>3. ASSUME NEW p \in M PROVE p[1] = Len(old) <=> p[2] = Len(new)
    <3>1. p[1] \in DOMAIN old /\ p[2] \in DOMAIN new /\ old[p[1]] = new[p[2]]
      BY <2>2, <2>3 DEF Alignments
    <3>2. p[1] \in 1..Len(old) /\ p[2] \in 1..Len(new)
      BY <1>5, <3>1, LinesAre
    <3>. QED BY <1>1, <1>2, <3>1, <3>2, LastLinesOnly
  <2>4. Paired(M, old, new)
    BY <1>5, <2>2, <2>3 DEF Paired
  <2>5. {Normalize(e, old) : e \in Fixes(call)[j]} = EditsOf(M, old, new)
    BY <2>1, EditsOfAre
  <2>6. AllAtOnce(EditsOf(M, old, new), old) = Join(new)
    BY <2>4, EditsMakeNew
  <2>. QED BY <1>5, <2>5, <2>6 DEF call, text
<1>7. CASE ~call.readable
  <2>. DEFINE e == [line |-> 0, col |-> 0, endLine |-> 0, endCol |-> 0, text |-> text]
  <2>1. Fixes(call)[j] = {e}
    BY <1>3, <1>4, <1>7 DEF FixOf
  <2>2. {Normalize(x, old) : x \in Fixes(call)[j]} = {Normalize(e, old)}
    BY <2>1
  <2>3. AllAtOnce({Normalize(e, old)}, old) = text
    BY <1>2, <1>5, WholeMakesNew
  <2>. QED BY <2>2, <2>3 DEF call, text
<1>. QED BY <1>6, <1>7

\* What is in the output and in the results is from a call of the check, and lines
\* are printed where this does not panic; if it does, it is for a call.
Printing(call) == call.line > 0 /\ PrintPanics(SpanOf(call), SplitLines(call.text))

RenderedInv ==
  /\ \A n \in Name : \A i \in DOMAIN results[n] :
       results[n][i].number \in 1..Len(setup.calls[results[n][i].by])
  /\ \A i \in DOMAIN stdout : stdout[i].part = "lines" =>
       /\ stdout[i].number \in 1..Len(setup.calls[stdout[i].by])
       /\ LET call == setup.calls[stdout[i].by][stdout[i].number]
          IN call.line > 0 /\ ~PrintPanics(SpanOf(call), SplitLines(call.text))
  /\ crashed => \E c \in Check : \E k \in 1..Len(setup.calls[c]) : Printing(setup.calls[c][k])

LEMMA RenderedFollows == UploaderInv /\ ReporterInv /\ RenderedInv => RenderingRight
<1>. SUFFICES ASSUME UploaderInv, ReporterInv, RenderedInv PROVE RenderingRight
  OBVIOUS
<1>1. MoreTypes /\ ReporterTypes /\ stdout \in Seq(Output) /\ results \in [Name -> Seq(Entry)]
  BY DEF UploaderInv, ReporterInv, ReporterTypes
<1>2. ASSUME NEW i \in DOMAIN stdout, stdout[i].part = "lines"
      PROVE  LET call  == setup.calls[stdout[i].by][stdout[i].number]
                 lines == SplitLines(call.text)
             IN ShowsSpan(Highlighted(SpanOf(call), lines), SpanOf(call), lines)
  <2>. DEFINE c    == stdout[i].by
              k    == stdout[i].number
              call == setup.calls[c][k]
              s    == SpanOf(call)
  <2>1. c \in Check
    <3>1. stdout[i] \in Output
      BY <1>1, <1>2
    <3>. QED BY <3>1 DEF Output
  <2>2. k \in 1..Len(setup.calls[c]) /\ call.line > 0 /\ ~PrintPanics(s, SplitLines(call.text))
    BY <1>2 DEF RenderedInv
  <2>. HIDE DEF c, k
  <2>3. SpanFacts(s) /\ s.line > 0 /\ call.text \in Text
    BY <1>1, <2>1, <2>2, CallIs, SpanHasFacts
  <2>4. SplitLines(call.text) \in Seq(Text)
    BY <2>3, SplitLinesIs
  <2>. HIDE DEF call, s
  <2>5. ShowsSpan(Highlighted(s, SplitLines(call.text)), s, SplitLines(call.text))
    BY <2>2, <2>3, <2>4, HighlightedRight
  <2>. QED BY <2>5 DEF s, call, c, k
<1>3. ASSUME NEW n \in Name, NEW i \in DOMAIN results[n]
      PROVE  LET call  == setup.calls[results[n][i].by][results[n][i].number]
                 lines == Lines(call.text)
             IN call.line = 0 /\ call.kind = "finding" =>
                  \A j \in DOMAIN call.replacements :
                    AllAtOnce({Normalize(e, lines) : e \in Fixes(call)[j]}, lines) = call.replacements[j]
  <2>1. results[n] \in Seq(Entry)
    BY <1>1
  <2>2. results[n][i].by \in Check
    <3>1. results[n][i] \in Entry
      BY <1>3, <2>1
    <3>. QED BY <3>1 DEF Entry
  <2>3. results[n][i].number \in 1..Len(setup.calls[results[n][i].by])
    BY <1>3 DEF RenderedInv
  <2>. QED BY <1>1, <2>2, <2>3, FixesAreRight
<1>4. ASSUME crashed
      PROVE  \E c \in Check : \E k \in DOMAIN setup.calls[c] :
               LET call == setup.calls[c][k]
                   line == SplitLines(call.text)[call.line]
               IN call.col > Len(line) + 1 \/ (call.endLine = 0 /\ call.endCol \in 1..(call.col - 1))
  <2>0. PICK c \in Check : \E k \in 1..Len(setup.calls[c]) : Printing(setup.calls[c][k])
    BY <1>4 DEF RenderedInv
  <2>1. PICK k \in 1..Len(setup.calls[c]) : Printing(setup.calls[c][k])
    BY <2>0
  <2>2. k \in DOMAIN setup.calls[c]
    <3>1. setup.calls[c] \in Seq(Call)
      BY <1>1, CallTypes
    <3>. QED BY <3>1
  <2>. DEFINE call == setup.calls[c][k]
  <2>3. /\ call.text \in Text /\ PrintPanics(SpanOf(call), SplitLines(call.text))
        /\ call.line \in Nat /\ call.col \in Nat /\ call.endLine \in Nat /\ call.endCol \in Nat /\ ValidSpan(call)
        /\ SpanOf(call).line = call.line /\ SpanOf(call).col = call.col /\ SpanOf(call).endCol = call.endCol
        /\ SpanOf(call).endLine =
             IF call.line > 0 /\ call.endLine = 0 /\ call.endCol > 0 THEN call.line ELSE call.endLine
    BY <1>1, <2>1, CallIs DEF Printing
  <2>. HIDE DEF call
  <2>4. SplitLines(call.text) \in Seq(Text)
    BY <2>3, SplitLinesIs
  <2>5. \/ call.col > Len(SplitLines(call.text)[call.line]) + 1
        \/ call.endLine = 0 /\ call.endCol \in 1..(call.col - 1)
    BY <2>3, <2>4, PanicIs
  <2>. QED BY <2>2, <2>5 DEF call
<1>. QED BY <1>2, <1>3, <1>4 DEF RenderingRight

LEMMA RenderedStepKeeps ==
  ASSUME UploaderInv, ReporterInv, RenderedInv, [Next]_vars
  PROVE  RenderedInv'
<1>1. MoreTypes /\ ReporterTypes /\ stdout \in Seq(Output) /\ results \in [Name -> Seq(Entry)]
  BY DEF UploaderInv, ReporterInv, ReporterTypes
<1>2. UNCHANGED <<setup, results, stdout, crashed>> => RenderedInv'
  BY DEF RenderedInv
<1>3. ASSUME NEW c \in Check, Overview(c) \/ NoArtifacts(c) \/ CompletionPrinted(c) PROVE RenderedInv'
  <2>1. /\ UNCHANGED <<setup, results, crashed>>
        /\ \/ stdout' = stdout
           \/ stdout' = Append(stdout, Chunk(c, "overview")) \/ stdout' = Append(stdout, Chunk(c, "completed"))
    BY <1>3 DEF Overview, NoArtifacts, CompletionPrinted
  <2>2. ASSUME NEW part \in {"overview", "completed"}, stdout' = Append(stdout, Chunk(c, part)),
               NEW i \in DOMAIN stdout', stdout'[i].part = "lines"
        PROVE  i \in DOMAIN stdout /\ stdout'[i] = stdout[i]
    <3>1. Len(stdout) \in Nat /\ DOMAIN stdout = 1..Len(stdout) /\ DOMAIN stdout' = 1..Len(stdout) + 1
          /\ stdout'[Len(stdout) + 1] = Chunk(c, part) /\ \A h \in 1..Len(stdout) : stdout'[h] = stdout[h]
      BY <1>1, <2>2
    <3>2. Chunk(c, part).part = part
      BY DEF Chunk
    <3>. QED BY <2>2, <3>1, <3>2
  <2>3. ASSUME NEW i \in DOMAIN stdout', stdout'[i].part = "lines"
        PROVE  i \in DOMAIN stdout /\ stdout'[i] = stdout[i]
    BY <2>1, <2>2, <2>3
  <2>. QED BY <2>1, <2>3 DEF RenderedInv
<1>4. ASSUME NEW c \in Check, Highlight(c) PROVE RenderedInv'
  <2>. DEFINE call   == CallOf(c)
              panics == PrintPanics(SpanOf(call), SplitLines(call.text))
  <2>1. /\ UNCHANGED <<setup, results>> /\ Asked(c, "console") /\ told[c]["console"] = "printing"
        /\ \/ UNCHANGED <<stdout, crashed>>
           \/ panics /\ crashed' = TRUE /\ UNCHANGED stdout
           \/ ~panics /\ stdout' = Append(stdout, Chunk(c, "lines")) /\ UNCHANGED crashed
    BY <1>4 DEF Highlight
  <2>2. ~Completes(c) /\ call.line > 0
    BY <2>1 DEF ReporterInv, CallsInv, AnswerInv, Right, Prints, Asked
  <2>3. Number(c) \in 1..Len(setup.calls[c])
    BY <2>1, <2>2, AskedCall
  <2>4. call = setup.calls[c][Number(c)]
    BY DEF CallOf
  <2>. HIDE DEF call
  <2>5. CASE UNCHANGED <<stdout, crashed>>
    BY <2>1, <2>5, <1>2
  <2>6. CASE panics /\ crashed' = TRUE /\ UNCHANGED stdout
    <3>1. Printing(setup.calls[c][Number(c)])
      BY <2>2, <2>4, <2>6 DEF Printing
    <3>2. \E d \in Check : \E k \in 1..Len(setup.calls[d]) : Printing(setup.calls[d][k])
      BY <2>3, <3>1
    <3>. QED BY <2>1, <2>6, <3>2 DEF RenderedInv, Printing
  <2>7. CASE ~panics /\ stdout' = Append(stdout, Chunk(c, "lines")) /\ UNCHANGED crashed
    <3>1. Len(stdout) \in Nat /\ DOMAIN stdout = 1..Len(stdout) /\ DOMAIN stdout' = 1..Len(stdout) + 1
          /\ stdout'[Len(stdout) + 1] = Chunk(c, "lines") /\ \A h \in 1..Len(stdout) : stdout'[h] = stdout[h]
      BY <1>1, <2>7
    <3>2. Chunk(c, "lines").by = c /\ Chunk(c, "lines").number = Number(c)
      BY DEF Chunk
    <3>3. ASSUME NEW i \in DOMAIN stdout', stdout'[i].part = "lines"
          PROVE  /\ stdout'[i].number \in 1..Len(setup.calls[stdout'[i].by])
                 /\ setup.calls[stdout'[i].by][stdout'[i].number].line > 0
                 /\ ~PrintPanics(SpanOf(setup.calls[stdout'[i].by][stdout'[i].number]),
                                 SplitLines(setup.calls[stdout'[i].by][stdout'[i].number].text))
      <4>1. CASE i \in 1..Len(stdout)
        BY <3>1, <3>3, <4>1 DEF RenderedInv
      <4>2. CASE i = Len(stdout) + 1
        BY <3>1, <3>2, <4>2, <2>2, <2>3, <2>4, <2>7
      <4>. QED BY <3>1, <3>3, <4>1, <4>2
    <3>. QED BY <2>1, <2>7, <3>3 DEF RenderedInv
  <2>. QED BY <2>1, <2>5, <2>6, <2>7
<1>5. ASSUME NEW c \in Check, SarifTold(c) PROVE RenderedInv'
  <2>. DEFINE x == [by |-> c, number |-> Number(c)]
  <2>1. /\ UNCHANGED <<setup, stdout, crashed>> /\ Asked(c, "sarif")
        /\ \/ results' = results
           \/ ~Completes(c) /\ results' = [results EXCEPT ![name[c]] = Append(@, x)]
    BY <1>5 DEF SarifTold
  <2>2. CASE results' = results
    BY <2>1, <2>2, <1>2
  <2>3. CASE ~Completes(c) /\ results' = [results EXCEPT ![name[c]] = Append(@, x)]
    <3>1. Number(c) \in 1..Len(setup.calls[c])
      <4>1. Number(c) \in Nat /\ Len(setup.calls[c]) \in Nat /\ AskedInv(c)
        BY <1>1, CallTypes DEF ReporterInv, CallsInv
      <4>. QED BY <2>1, <2>3, <4>1 DEF AskedInv, Asked
    <3>2. ASSUME NEW n \in Name, NEW i \in DOMAIN results'[n]
          PROVE  results'[n][i].number \in 1..Len(setup.calls[results'[n][i].by])
      <4>1. results[n] \in Seq(Entry)
        BY <1>1
      <4>2. CASE n # name[c]
        BY <1>1, <2>3, <3>2, <4>2 DEF RenderedInv
      <4>3. CASE n = name[c]
        <5>. DEFINE l == results[n]
        <5>1. results'[n] = Append(l, x)
          BY <1>1, <2>3, <4>3
        <5>. HIDE DEF x
        <5>2. Len(l) \in Nat /\ DOMAIN l = 1..Len(l) /\ DOMAIN results'[n] = 1..Len(l) + 1
              /\ results'[n][Len(l) + 1] = x /\ \A h \in 1..Len(l) : results'[n][h] = l[h]
          BY <4>1, <5>1
        <5>3. CASE i \in 1..Len(l)
          BY <5>2, <5>3 DEF RenderedInv
        <5>4. CASE i = Len(l) + 1
          BY <5>2, <5>4, <3>1 DEF x
        <5>. QED BY <3>2, <5>2, <5>3, <5>4
      <4>. QED BY <4>2, <4>3
    <3>. QED BY <2>1, <3>2 DEF RenderedInv
  <2>. QED BY <2>1, <2>2, <2>3
<1>6. ASSUME NEW c \in Check, CheckStep(c) \/ UploaderTold(c) PROVE RenderedInv'
  BY <1>2, <1>6 DEF CheckStep, CallEmit, CallCompleted, LeavesOut, UploaderTold, reporterVars
<1>7. ASSUME NEW c \in Check, ReporterStep(c) PROVE RenderedInv'
  BY <1>3, <1>4, <1>5, <1>6, <1>7 DEF ReporterStep, ConsoleTold
<1>8. Uploads \/ Closes \/ Over \/ UNCHANGED vars => RenderedInv'
  BY <1>2 DEF Uploads, Closes, ClosesUploader, SarifCloses, Over, vars, reporterVars
<1>. QED BY <1>6, <1>7, <1>8 DEF Next

\* What is reported is what was found, for every text, span and replacement, and
\* every diff that pairs lines of the two: the terminal highlights the span
\* (reporting.go: printHighlightedLines), the parts that SARIF splits a fix into
\* make the same file as the whole (sarif.go: splitReplacement), and printing panics
\* only for the two kinds of columns that ctx.emit.finding lets through.
THEOREM RenderingIsRight == Spec => []RenderingRight
<1>1. Init => RenderedInv
  BY DEF Init, RenderedInv
<1>2. UploaderInv /\ ReporterInv /\ RenderedInv /\ [Next]_vars => RenderedInv'
  BY RenderedStepKeeps
<1>. QED BY <1>1, <1>2, RenderedFollows, ReporterInvariance, PTL DEF Spec
=============================================================================

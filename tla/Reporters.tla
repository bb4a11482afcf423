----------------------------- MODULE Reporters -----------------------------
(***************************************************************************)
(* What shac check reports to: MultiReport calls the ResultDB reporter     *)
(* (ResultUploader), one that writes to stdout and SARIF for every call of *)
(* a check, each in a goroutine of its own, and waits for all (multi.go,   *)
(* reporting.go, sarif.go, cli/check.go).                                  *)
(*                                                                         *)
(* The calls are those that runtime_ctx_emit.go has accepted.  After a     *)
(* call that fails, a check makes no other, and is completed or suppressed *)
(* (CheckRun says when).                                                   *)
(***************************************************************************)
EXTENDS ResultUploader, Rendering

CONSTANTS
  NoCheck,
  Setups   \* the situations to start from

\* What a check emits: a finding with its span in a file, if it names one, or in
\* a commit message, or an artifact; the text is that of the file or message, and
\* difflib pairs its lines with those of each replacement.  Properties are invalid
\* when they are not UTF-8.
Call ==
  [kind : {"finding", "commit", "artifact"}, file : BOOLEAN, readable : BOOLEAN, text : Text,
   line : Nat, col : Nat, endLine : Nat, endCol : Nat, replacements : Seq(Text), diffs : Seq(SUBSET (Nat \X Nat)),
   props : {"none", "valid", "invalid"}]

\* ctx.emit.finding wants the file of a line or of replacements, and parseSpan has
\* accepted the span.
Accepted(call) ==
  /\ ValidSpan(call)
  /\ call.kind = "finding" /\ ~call.file => call.line = 0 /\ call.replacements = <<>>

\* difflib pairs the lines of a file with those of what replaces it.
Diffed(call) ==
  call.kind = "finding" /\ call.line = 0 /\ call.readable =>
    \A j \in DOMAIN call.replacements :
      /\ j \in DOMAIN call.diffs
      /\ call.diffs[j] \in Alignments(Lines(call.text), Lines(call.replacements[j]))

\* The environment: GITHUB_RUN_ID, a terminal that is not dumb.
Environment == [github : BOOLEAN, terminal : BOOLEAN]

\* The checks, those that run, their calls, the reporters besides ResultDB, the
\* environment, and which writes to stdout fail (a full disk).
Setup ==
  [names : [Check -> Name], calls : [Check -> Seq(Call)], selected : SUBSET Check, reporters : SUBSET {"console", "sarif"},
   environment : Environment, broken : SUBSET {"overview", "lines", "completed"}]

ASSUME ReportersAssumption ==
  /\ Setups \subseteq Setup
  /\ NoCheck \notin Check
  /\ \A s \in Setups : \A c \in Check : \A k \in DOMAIN s.calls[c] :
       Accepted(s.calls[c][k]) /\ Diffed(s.calls[c][k])

VARIABLES
  setup,       \* it never changes
  told,        \* what each reporter made of the last call of each check
  mutex,       \* synchronized.mu, while several writes are made
  stdout,      \* what was written to it
  results,     \* SarifReport.resultsByCheck
  sarifClosed, \* SarifReport.Close: "no", then "ok" or "error"
  document,    \* what it wrote
  crashed      \* a goroutine panicked

sarifCloseVars == <<sarifClosed, document>>
reporterVars == <<told, mutex, stdout, results, sarifCloseVars, crashed>>
vars == <<setup, uploaderVars, reporterVars>>

NoDocument == <<>>

\* What a call adds to the result of ResultDB; commits are tagged with the hash.
Adds(call) ==
  IF call.kind = "artifact" THEN "artifact"
  ELSE IF call.kind = "commit" \/ call.props # "none" THEN "tagged" ELSE "finding"

Adding ==
  [f \in Finding |->
     IF f[2] \in DOMAIN setup.calls[f[1]] THEN Adds(setup.calls[f[1]][f[2]]) ELSE "finding"]

Init ==
  /\ setup \in Setups
  /\ UploaderInit(setup.selected, setup.names, Adding)
  /\ told = [c \in Check |-> [r \in setup.reporters |-> "idle"]]
  /\ mutex = NoCheck
  /\ stdout = <<>>
  /\ results = [n \in Name |-> <<>>]
  /\ sarifClosed = "no"
  /\ document = NoDocument
  /\ crashed = FALSE

\* Get.
Console ==
  IF setup.environment.github THEN "github"
  ELSE IF setup.environment.terminal THEN "interactive" ELSE "basic"

-----------------------------------------------------------------------------
(* MultiReport                                                             *)

\* The call of check c that is under way, or the last one.
Number(c)    == emitted[c] + IF pc[c] = "emit" THEN 1 ELSE 0
Completes(c) == pc[c] \in {"complete", "send", "completed"}
CallOf(c)    == setup.calls[c][Number(c)]

Asked(c, r) == r \in setup.reporters /\ told[c][r] \in {"asked", "printing"}

\* The goroutines of the last call are over; do() waits for all of them.
Waited(c) == \A r \in setup.reporters : ~Asked(c, r)
Failed(c) == \E r \in setup.reporters : told[c][r] = "error"

AskAll(c) == told' = [told EXCEPT ![c] = [r \in setup.reporters |-> "asked"]]
Tell(c, r, answer) == told' = [told EXCEPT ![c][r] = answer]

\* A check calls EmitFinding, EmitCommitMessageFinding or EmitArtifact.
CallEmit(c) ==
  /\ ~crashed
  /\ Waited(c) /\ ~Failed(c)
  /\ Number(c) < Len(setup.calls[c])
  /\ EmitBegins(c)
  /\ AskAll(c)
  /\ UNCHANGED <<setup, mutex, stdout, results, sarifCloseVars, crashed>>

\* runInner calls CheckCompleted.
CallCompleted(c) ==
  /\ ~crashed
  /\ Waited(c)
  /\ CompleteBegins(c)
  /\ AskAll(c)
  /\ UNCHANGED <<setup, mutex, stdout, results, sarifCloseVars, crashed>>

LeavesOut(c) ==
  /\ ~crashed
  /\ Waited(c)
  /\ Suppressed(c)
  /\ UNCHANGED <<setup, reporterVars>>

\* ResultDB's part of the call.
UploaderTold(c) ==
  /\ ~crashed
  /\ EmitEnds(c) \/ CompleteMarks(c) \/ CompleteSends(c)
  /\ UNCHANGED <<setup, reporterVars>>

-----------------------------------------------------------------------------
(* stdout                                                                  *)

\* A write; its text follows from the call.
Chunk(c, part) == [by |-> c, number |-> Number(c), part |-> part]

\* The overview of a finding is all of the output, without a terminal or a line.
OneWrite(c) == Console # "interactive" \/ CallOf(c).line = 0
                 \/ (CallOf(c).kind = "finding" /\ ~CallOf(c).file)

\* Mutant: synchronized does not lock.
OverviewUnlocked(c) ==
  /\ ~crashed
  /\ Asked(c, "console") /\ told[c]["console"] = "asked" /\ ~Completes(c)
  /\ CallOf(c).kind # "artifact"
  /\ IF "overview" \in setup.broken THEN Tell(c, "console", "error") /\ UNCHANGED stdout
     ELSE /\ Tell(c, "console", IF OneWrite(c) THEN "ok" ELSE "printing")
          /\ stdout' = Append(stdout, Chunk(c, "overview"))
  /\ UNCHANGED <<setup, uploaderVars, mutex, results, sarifCloseVars, crashed>>

\* The console gets the mutex and writes the overview; for lines of the file, it
\* keeps the mutex.
Overview(c) ==
  /\ ~crashed
  /\ Asked(c, "console") /\ told[c]["console"] = "asked" /\ ~Completes(c)
  /\ CallOf(c).kind # "artifact"
  /\ mutex = NoCheck
  /\ IF "overview" \in setup.broken THEN Tell(c, "console", "error") /\ UNCHANGED <<mutex, stdout>>
     ELSE /\ Tell(c, "console", IF OneWrite(c) THEN "ok" ELSE "printing")
          /\ mutex' = IF OneWrite(c) THEN NoCheck ELSE c
          /\ stdout' = Append(stdout, Chunk(c, "overview"))
  /\ UNCHANGED <<setup, uploaderVars, results, sarifCloseVars, crashed>>

\* The file is read, and its lines around the span are printed; slicing a line
\* beyond its end is the end of the process.  Of all the writes, only the error of
\* the last one is returned.
Highlight(c) ==
  /\ ~crashed
  /\ Asked(c, "console") /\ told[c]["console"] = "printing"
  /\ LET call    == CallOf(c)
         lines   == SplitLines(call.text)
         written == Append(stdout, Chunk(c, "lines"))
     IN IF call.kind = "finding" /\ ~call.readable
          THEN Tell(c, "console", "error") /\ UNCHANGED <<stdout, crashed>>
        ELSE IF PrintPanics(SpanOf(call), lines)
          THEN crashed' = TRUE /\ UNCHANGED <<told, stdout>>
        ELSE IF ~IsPrinted(SpanOf(call), lines)
          THEN Tell(c, "console", "ok") /\ UNCHANGED <<stdout, crashed>>
        ELSE IF "lines" \in setup.broken
          THEN Tell(c, "console", "error") /\ stdout' \in {stdout, written} /\ UNCHANGED crashed
        ELSE Tell(c, "console", "ok") /\ stdout' = written /\ UNCHANGED crashed
  /\ mutex' = NoCheck
  /\ UNCHANGED <<setup, uploaderVars, results, sarifCloseVars>>

\* "not implemented", for the three of them.
NoArtifacts(c) ==
  /\ ~crashed
  /\ Asked(c, "console") /\ ~Completes(c) /\ CallOf(c).kind = "artifact"
  /\ mutex = NoCheck
  /\ Tell(c, "console", "error")
  /\ UNCHANGED <<setup, uploaderVars, mutex, stdout, results, sarifCloseVars, crashed>>

\* A line for the completion, except for GitHub; errors are ignored.
CompletionPrinted(c) ==
  /\ ~crashed
  /\ Asked(c, "console") /\ Completes(c)
  /\ mutex = NoCheck
  /\ Tell(c, "console", "ok")
  /\ stdout' = IF "completed" \in setup.broken \/ Console = "github" THEN stdout
               ELSE Append(stdout, Chunk(c, "completed"))
  /\ UNCHANGED <<setup, uploaderVars, mutex, results, sarifCloseVars, crashed>>

-----------------------------------------------------------------------------
(* SARIF                                                                   *)

\* The fixes of a result, one for each replacement.
Fixes(call) ==
  [i \in DOMAIN call.replacements |->
     FixOf(SpanOf(call), call.replacements[i], call.diffs[i], call.text, call.readable)]

\* structpb.NewStruct wants properties in UTF-8.
SarifFails(call) == call.kind # "artifact" /\ call.props = "invalid"

\* The result of a call; artifacts and completions are ignored.
SarifTold(c) ==
  /\ ~crashed
  /\ Asked(c, "sarif")
  /\ IF Completes(c) \/ CallOf(c).kind = "artifact"
       THEN Tell(c, "sarif", "ok") /\ UNCHANGED results
     ELSE IF SarifFails(CallOf(c)) THEN Tell(c, "sarif", "error") /\ UNCHANGED results
     ELSE /\ Tell(c, "sarif", "ok")
          /\ results' = [results EXCEPT ![name[c]] = Append(@, [by |-> c, number |-> Number(c)])]
  /\ UNCHANGED <<setup, uploaderVars, mutex, stdout, sarifCloseVars, crashed>>

\* Close of SARIF, at the same time as that of ResultDB; the results may not be
\* marshalled (a message that is not UTF-8).
SarifCloses ==
  /\ ~crashed
  /\ closing # "no"
  /\ "sarif" \in setup.reporters
  /\ sarifClosed = "no"
  /\ \/ sarifClosed' = "ok" /\ document' = <<results>>
     \/ sarifClosed' = "error" /\ UNCHANGED document
  /\ UNCHANGED <<setup, uploaderVars, told, mutex, stdout, results, crashed>>

-----------------------------------------------------------------------------

ConsoleTold(c) == Overview(c) \/ Highlight(c) \/ NoArtifacts(c) \/ CompletionPrinted(c)

\* Close, once all the checks are over.
ClosesUploader ==
  /\ ~crashed
  /\ \A c \in Check : Waited(c)
  /\ CloseChannel \/ CloseReturns
  /\ UNCHANGED <<setup, reporterVars>>

Uploads == ~crashed /\ (Upload \/ Send) /\ UNCHANGED <<setup, reporterVars>>

CheckStep(c) == CallEmit(c) \/ CallCompleted(c) \/ LeavesOut(c)

ReporterStep(c) == UploaderTold(c) \/ ConsoleTold(c) \/ SarifTold(c)

Closes == ClosesUploader \/ SarifCloses

IsOver ==
  \/ crashed
  \/ closing \in {"ok", "error"} /\ ("sarif" \in setup.reporters => sarifClosed # "no")

Over == IsOver /\ UNCHANGED vars

Next == (\E c \in Check : CheckStep(c) \/ ReporterStep(c)) \/ Uploads \/ Closes \/ Over

Spec == Init /\ [][Next]_vars

\* Goroutines are scheduled; an HTTP request may take for ever.
FairSpec ==
  /\ Spec
  /\ \A c \in Check : /\ WF_vars(CheckStep(c)) /\ WF_vars(SarifTold(c))
                      /\ WF_vars(UploaderTold(c)) /\ WF_vars(ConsoleTold(c))
  /\ WF_vars(Upload /\ UNCHANGED <<setup, reporterVars>>)
  /\ WF_vars(Closes)

-----------------------------------------------------------------------------
(* Properties                                                              *)

\* The type invariant.
TypeOK ==
  /\ UploaderTypeOK
  /\ setup \in Setup
  /\ told \in [Check -> [setup.reporters -> {"idle", "asked", "printing", "ok", "error"}]]
  /\ mutex \in {NoCheck} \cup Check
  /\ mutex # NoCheck => told[mutex]["console"] = "printing"
  /\ \A n \in Name : \A i \in DOMAIN results[n] : results[n][i].by \in Check
  /\ sarifClosed \in {"no", "ok", "error"}
  /\ (sarifClosed = "ok") <=> (document # NoDocument)
  /\ crashed \in BOOLEAN

\* The calls of check c that have returned, without those for its completion.
ReturnedCalls(c) == 1..(emitted[c] - IF Waited(c) \/ Completes(c) \/ pc[c] = "emit" THEN 0 ELSE 1)

Entries(c, k) ==
  UNION {{n} \X {i \in DOMAIN results[n] : results[n][i].by = c /\ results[n][i].number = k} : n \in Name}
Chunks(c, k, part) == {i \in DOMAIN stdout : stdout[i].by = c /\ stdout[i].number = k
                                             /\ stdout[i].part = part}

\* The calls that the console returns an error for, and those that a reporter does.
ConsoleFails(call) ==
  \/ "overview" \in setup.broken \/ call.kind = "artifact"
  \/ /\ Console = "interactive" /\ call.line > 0
     /\ \/ call.kind = "finding" /\ ~call.readable
        \/ "lines" \in setup.broken /\ IsPrinted(SpanOf(call), SplitLines(call.text))

CallFails(call) ==
  \/ "console" \in setup.reporters /\ ConsoleFails(call)
  \/ "sarif" \in setup.reporters /\ SarifFails(call)

\* One reporter that fails keeps nothing from the others, and its error is not
\* lost: when a call of MultiReport has returned, SARIF has one result for it,
\* under the name of its check, unless SARIF failed, and stdout has it once, in
\* one piece although checks write at the same time; the check was told if one of
\* them failed, and made no other call.  What Close writes is all of it, even
\* after a failure.
EveryReporterTold ==
  /\ \A c \in Check : \A k \in ReturnedCalls(c) :
       LET call == setup.calls[c][k] IN
       /\ "sarif" \in setup.reporters /\ call.kind # "artifact" =>
            /\ Cardinality(Entries(c, k)) = IF SarifFails(call) THEN 0 ELSE 1
            /\ \A e \in Entries(c, k) : e[1] = name[c]
       /\ "console" \in setup.reporters =>
            Cardinality(Chunks(c, k, "overview")) =
              IF "overview" \in setup.broken \/ call.kind = "artifact" THEN 0 ELSE 1
       /\ CallFails(call) => Number(c) = k
       /\ pc[c] = "idle" /\ k = emitted[c] => (Failed(c) <=> CallFails(call))
  /\ \A i \in DOMAIN stdout : stdout[i].part = "lines" =>
       /\ i > 1 /\ stdout[i - 1].part = "overview"
       /\ stdout[i - 1].by = stdout[i].by /\ stdout[i - 1].number = stdout[i].number
  /\ document # NoDocument =>
       \A c \in Check : \A k \in 1..emitted[c] :
         setup.calls[c][k].kind # "artifact" /\ ~SarifFails(setup.calls[c][k]) =>
           \E i \in DOMAIN document[1][name[c]] :
             document[1][name[c]][i].by = c /\ document[1][name[c]][i].number = k

\* The characters of a line that a span covers.
InSpan(s, lines, k) ==
  {i \in DOMAIN lines[k] :
     /\ k \in s.line..LastOf(s)
     /\ k = s.line /\ s.col > 0 => i >= s.col
     /\ k = s.endLine /\ s.endCol > 0 => i < s.endCol}

\* A terminal shows, for a span in a file, the lines from the one before to the
\* one after, whole, with just the characters of the span highlighted.
ShowsSpan(shows, s, lines) ==
  s.line < Len(lines) =>
    \A k \in PrintedLines(s, lines) :
      LET cut == shows[k - Min(PrintedLines(s, lines)) + 1] IN
      /\ cut.before \o cut.marked \o cut.after = lines[k]
      /\ InSpan(s, lines, k) =
           IF cut.marked = <<>> THEN {} ELSE (Len(cut.before) + 1)..(Len(cut.before) + Len(cut.marked))

\* What is reported is what was found.  The terminal highlights the span.  The
\* fix of SARIF, split along an arbitrary diff, makes of the file what replacing it
\* does (so it agrees with shac fix).  And printing panics for no other reason
\* than a column beyond the end of the first line, or an end column before the
\* start where end_line was left out: runtime_ctx_emit.go:218 accepts both.
RenderingRight ==
  /\ \A i \in DOMAIN stdout : stdout[i].part = "lines" =>
       LET call  == setup.calls[stdout[i].by][stdout[i].number]
           lines == SplitLines(call.text)
       IN ShowsSpan(Highlighted(SpanOf(call), lines), SpanOf(call), lines)
  /\ \A n \in Name : \A i \in DOMAIN results[n] :
       LET call  == setup.calls[results[n][i].by][results[n][i].number]
           lines == Lines(call.text)
       IN call.line = 0 /\ call.kind = "finding" =>
            \A j \in DOMAIN call.replacements :
              AllAtOnce({Normalize(e, lines) : e \in Fixes(call)[j]}, lines) = call.replacements[j]
  /\ crashed => \E c \in Check : \E k \in DOMAIN setup.calls[c] :
       LET call == setup.calls[c][k]
           line == SplitLines(call.text)[call.line]
       IN call.col > Len(line) + 1 \/ (call.endLine = 0 /\ call.endCol \in 1..(call.col - 1))

\* "HTTP requests don't block checks from running" (resultdb.go:80): all checks
\* end even when no request ever does.
NetworkDoesNotBlock ==
  <>(crashed \/ \A c \in Check : pc[c] \in {"completed", "suppressed"} /\ Waited(c))

\* Close returns once the checks are over, if every request ends.
CloseEnds == WF_vars(Send /\ UNCHANGED <<setup, reporterVars>>) => <>IsOver
=============================================================================

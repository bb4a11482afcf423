-------------------------------- MODULE Fix --------------------------------
(***************************************************************************)
(* shac fix and shac fmt: checks emit findings (runtime_ctx_emit.go), the  *)
(* collector keeps those with one replacement, and when all checks         *)
(* completed the files are rewritten one after the other (fix.go).         *)
(***************************************************************************)
EXTENDS Edits

CONSTANTS
  Check,           \* the checks, each a goroutine
  Formatter,       \* those registered with formatter = True
  Key,             \* the pairs (root, path) that name a file
  File,            \* the files on disk
  FileOf,          \* the file each key names
  Rank,            \* the order of the paths
  NoKey,
  MaxReplacements, \* replacements in one finding
  Setups           \* the situations to start from

\* The arguments of ctx.emit.finding: whether their types and the level are
\* valid, whether there is a message, the file and the span (negative numbers
\* are invalid), and the replacements.
Call == [typed : BOOLEAN, message : BOOLEAN, key : Key \cup {NoKey}, line : Int, col : Int,
         endLine : Int, endCol : Int, replacements : Seq(Text)]

\* The files, what each check emits, the files that git tracks, whether there
\* is a writer, and the files asked for.
Setup == [disk : [File -> Text], calls : [Check -> Seq(Call)], tracked : SUBSET Key,
          toWriter : BOOLEAN, asked : SUBSET File]

ASSUME FixAssumption ==
  /\ Setups \subseteq Setup
  /\ Formatter \subseteq Check
  /\ FileOf \in [Key -> File]
  /\ Rank \in [Key -> Nat]
  /\ NoKey \notin Key
  /\ MaxReplacements \in Nat

VARIABLES
  setup,     \* where the run started
  at,        \* how many findings each check has emitted
  ended,     \* how each check ended
  findings,  \* findingsByFile
  pc,        \* where Fix is
  keys,      \* what is left of orderedFiles
  key,       \* the one that is being fixed
  lines,     \* its lines
  todo,      \* the findings not yet considered, as indexes
  maxLine,
  chosen,    \* normalized, in the order of the lines
  left,      \* how many of them are not yet applied
  disk,      \* the text of each file
  printed    \* what the writer was given

run  == <<at, ended, findings>>
work == <<lines, todo, maxLine, chosen, left>>
vars == <<setup, run, pc, keys, key, work, disk, printed>>

Init ==
  /\ setup \in Setups
  /\ at = [c \in Check |-> 0]
  /\ ended = [c \in Check |-> "no"]
  /\ findings = [k \in Key |-> <<>>]
  /\ pc = "checks"
  /\ keys = {} /\ key = NoKey
  /\ lines = <<>> /\ todo = {} /\ maxLine = 0 /\ chosen = <<>> /\ left = 0
  /\ disk = setup.disk
  /\ printed = <<>>

-----------------------------------------------------------------------------
(* ctx.emit.finding                                                        *)

\* Formatters may leave the message to ctxEmitFinding.
Accepts(c, call) ==
  /\ call.typed
  /\ ValidSpan(call)
  /\ call.key = NoKey => call.line = 0 /\ call.replacements = <<>>
  /\ Len(call.replacements) <= MaxReplacements
  /\ call.message \/ (c \in Formatter /\ call.key # NoKey /\ Len(call.replacements) = 1)
  /\ call.key # NoKey => call.key \in setup.tracked

CollectedEdit(call) ==
  LET s == SpanOf(call) IN
  [line |-> s.line, col |-> s.col, endLine |-> s.endLine, endCol |-> s.endCol,
   text |-> call.replacements[1]]

NextCall(c) == setup.calls[c][at[c] + 1]

MayEmit(c) == pc = "checks" /\ ended[c] = "no" /\ at[c] < Len(setup.calls[c])

\* findingCollector.EmitFinding keeps findings with exactly one replacement.
Emit(c) ==
  /\ MayEmit(c)
  /\ Accepts(c, NextCall(c))
  /\ findings' = IF Len(NextCall(c).replacements) = 1
                 THEN [findings EXCEPT ![NextCall(c).key] = Append(@, CollectedEdit(NextCall(c)))]
                 ELSE findings
  /\ at' = [at EXCEPT ![c] = @ + 1]
  /\ UNCHANGED <<setup, ended, pc, keys, key, work, disk, printed>>

CheckEnds(c, how) ==
  /\ ended' = [ended EXCEPT ![c] = how]
  /\ UNCHANGED <<setup, at, findings, pc, keys, key, work, disk, printed>>

EmitRefused(c) ==
  /\ MayEmit(c) /\ ~ Accepts(c, NextCall(c))
  /\ CheckEnds(c, "failed")

Completes(c) ==
  /\ pc = "checks" /\ ended[c] = "no" /\ at[c] = Len(setup.calls[c])
  /\ CheckEnds(c, "completed")

\* Any other failure, or an interruption.
Fails(c) ==
  /\ pc = "checks" /\ ended[c] = "no"
  /\ CheckEnds(c, "failed")

-----------------------------------------------------------------------------
(* Fix                                                                     *)

AllCompleted == \A c \in Check : ended[c] = "completed"

Found == {k \in Key : findings[k] # <<>>}

\* Mutant: what was found before another check failed is fixed.
RunReturnsAnyway ==
  /\ pc = "checks" /\ \A c \in Check : ended[c] # "no"
  /\ pc' = "files" /\ keys' = Found
  /\ UNCHANGED <<setup, run, key, work, disk, printed>>

\* Only ErrCheckFailed, which says that checks completed with findings, lets
\* Fix go on.
RunReturns ==
  /\ pc = "checks" /\ \A c \in Check : ended[c] # "no"
  /\ IF AllCompleted
     THEN pc' = "files" /\ keys' = Found
     ELSE pc' = "failed" /\ keys' = keys
  /\ UNCHANGED <<setup, run, key, work, disk, printed>>

\* Nothing to fix in the only file asked for: it is printed as it is.
EchoesFile == Found = {} /\ Cardinality(setup.asked) = 1 /\ setup.toWriter

Echo ==
  /\ pc = "files" /\ EchoesFile
  /\ \E f \in setup.asked : \/ printed' = disk[f] /\ pc' = "done"
                            \/ printed' \in Prefixes(disk[f]) /\ pc' = "failed"
  /\ UNCHANGED <<setup, run, keys, key, work, disk>>

Finish ==
  /\ pc = "files" /\ keys = {} /\ ~ EchoesFile
  /\ pc' = "done"
  /\ UNCHANGED <<setup, run, keys, key, work, disk, printed>>

\* The files are sorted by path; keys with one path come in any order.
IsNext(k) == k \in keys /\ \A j \in keys : Rank[k] <= Rank[j]

NextFile(k) ==
  /\ pc = "files" /\ IsNext(k)
  /\ keys' = keys \ {k} /\ key' = k
  /\ lines' = Lines(disk[FileOf[k]])
  /\ todo' = DOMAIN findings[k]
  /\ maxLine' = 0 /\ chosen' = <<>> /\ left' = 0
  /\ pc' = "choose"
  /\ UNCHANGED <<setup, run, disk, printed>>

ReadFails(k) ==
  /\ pc = "files" /\ IsNext(k)
  /\ pc' = "failed"
  /\ UNCHANGED <<setup, run, keys, key, work, disk, printed>>

-----------------------------------------------------------------------------
(* fixFindings                                                             *)

\* The findings are sorted by the line given, ties in any order.
IsFirst(i) == i \in todo /\ \A j \in todo : findings[key][i].line <= findings[key][j].line

Considered(i) == Normalize(findings[key][i], lines)

\* Mutant: only the line a chosen edit starts at is taken.
ChooseByStart(i) ==
  /\ pc = "choose" /\ IsFirst(i) /\ Normalizable(findings[key][i], lines)
  /\ Considered(i).line > maxLine
  /\ chosen' = Append(chosen, Considered(i))
  /\ maxLine' = Considered(i).line
  /\ todo' = todo \ {i}
  /\ UNCHANGED <<setup, run, pc, keys, key, lines, left, disk, printed>>

Choose(i) ==
  /\ pc = "choose" /\ IsFirst(i) /\ Normalizable(findings[key][i], lines)
  /\ Considered(i).line > maxLine
  /\ chosen' = Append(chosen, Considered(i))
  /\ maxLine' = IF Considered(i).endLine > maxLine THEN Considered(i).endLine ELSE maxLine
  /\ todo' = todo \ {i}
  /\ UNCHANGED <<setup, run, pc, keys, key, lines, left, disk, printed>>

Skip(i) ==
  /\ pc = "choose" /\ IsFirst(i) /\ Normalizable(findings[key][i], lines)
  /\ Considered(i).line <= maxLine
  /\ todo' = todo \ {i}
  /\ UNCHANGED <<setup, run, pc, keys, key, lines, maxLine, chosen, left, disk, printed>>

Panic ==
  /\ pc' = "panic"
  /\ UNCHANGED <<setup, run, keys, key, work, disk, printed>>

NormalizePanics(i) ==
  /\ pc = "choose" /\ IsFirst(i) /\ ~ Normalizable(findings[key][i], lines)
  /\ Panic

\* slices.Reverse: the last edit goes first.
StartApplying ==
  /\ pc = "choose" /\ todo = {}
  /\ left' = Len(chosen)
  /\ pc' = "apply"
  /\ UNCHANGED <<setup, run, keys, key, lines, todo, maxLine, chosen, disk, printed>>

\* Mutant: the edits are applied from the first to the last.
FirstLeft == chosen[Len(chosen) - left + 1]

\* The edit to apply.
NextEdit == chosen[left]

Apply ==
  /\ pc = "apply" /\ left > 0 /\ Fits(NextEdit, lines)
  /\ lines' = Replace(NextEdit, lines)
  /\ left' = left - 1
  /\ UNCHANGED <<setup, run, pc, keys, key, todo, maxLine, chosen, disk, printed>>

ApplyPanics ==
  /\ pc = "apply" /\ left > 0 /\ ~ Fits(NextEdit, lines)
  /\ Panic

Deliver(text) ==
  /\ disk' = IF setup.toWriter THEN disk ELSE [disk EXCEPT ![FileOf[key]] = text]
  /\ printed' = IF setup.toWriter THEN printed \o text ELSE printed

Write ==
  /\ pc = "apply" /\ left = 0
  /\ Deliver(Join(lines))
  /\ pc' = "files" /\ key' = NoKey
  /\ UNCHANGED <<setup, run, keys, work>>

\* os.WriteFile truncates first; what it wrote until it failed stays.
WriteFails ==
  /\ pc = "apply" /\ left = 0
  /\ \/ \E part \in Prefixes(Join(lines)) : Deliver(part)
     \/ UNCHANGED <<disk, printed>>
  /\ pc' = "failed"
  /\ UNCHANGED <<setup, run, keys, key, work>>

-----------------------------------------------------------------------------

Over == pc \in {"done", "failed", "panic"} /\ UNCHANGED vars

Next ==
  \/ \E c \in Check : Emit(c) \/ EmitRefused(c) \/ Completes(c) \/ Fails(c)
  \/ RunReturns \/ Echo \/ Finish
  \/ \E k \in Key : NextFile(k) \/ ReadFails(k)
  \/ \E i \in todo : Choose(i) \/ Skip(i) \/ NormalizePanics(i)
  \/ StartApplying \/ Apply \/ ApplyPanics \/ Write \/ WriteFails
  \/ Over

Spec == Init /\ [][Next]_vars

-----------------------------------------------------------------------------
(* Properties                                                              *)

\* The types, where Fix is, and that the applied edits are a suffix of the
\* chosen ones (fix.go:104-146).
TypeOK ==
  /\ setup \in Setup
  /\ \A c \in Check : at[c] \in 0..Len(setup.calls[c])
  /\ ended \in [Check -> {"no", "completed", "failed"}]
  /\ findings \in [Key -> Seq(Edit)]
  /\ pc \in {"checks", "files", "choose", "apply", "done", "failed", "panic"}
  /\ keys \subseteq Found /\ key \in Key \cup {NoKey}
  /\ pc \in {"choose", "apply", "panic"} => key \in Found \ keys
  /\ pc # "checks" => \A c \in Check : ended[c] # "no"
  /\ lines \in Seq(Text)
  /\ maxLine \in Nat
  /\ pc = "choose" => todo \subseteq DOMAIN findings[key]
  /\ chosen \in Seq(FullEdit)
  /\ left \in 0..Len(chosen)
  /\ disk \in [File -> Text]
  /\ printed \in Text

\* The findings that were considered and passed over.
Passed == {i \in DOMAIN findings[key] \ todo :
             Normalize(findings[key][i], lines) \notin {chosen[j] : j \in DOMAIN chosen}}

\* The chosen edits follow each other without sharing a line, up to maxLine,
\* and a finding is only passed over for one that was chosen and shares a line
\* with it (fix.go:112-126).
ChosenDisjoint ==
  /\ \A i, j \in DOMAIN chosen : i < j => chosen[i].endLine < chosen[j].line
  /\ \A i \in DOMAIN chosen : chosen[i].line <= chosen[i].endLine /\ chosen[i].endLine <= maxLine
  /\ pc = "choose" => \A i \in Passed : \E j \in DOMAIN chosen : ShareLine(chosen[j], Considered(i))

\* Fix panics only over a finding that is beyond the end of the file or of a
\* line as the file was read; edits already applied never make it so
\* (fix.go:109-110, 130-146).
ValidSpansNeverPanic ==
  pc = "panic" =>
    LET original == Lines(disk[FileOf[key]]) IN
    \E i \in DOMAIN findings[key] :
       LET e == findings[key][i] IN
       Normalizable(e, original) => ~ Fits(Normalize(e, original), original)

\* The edits that checks asked for in a file, by whatever key they name it.
Wanted(f) ==
  UNION {{CollectedEdit(setup.calls[c][i]) :
            i \in {j \in 1..at[c] : LET call == setup.calls[c][j] IN
                     Len(call.replacements) = 1 /\ FileOf[call.key] = f}} : c \in Check}

Fixed == IF pc # "checks" /\ AllCompleted THEN Found \ (keys \cup {key}) ELSE {}

Failed == pc \in {"done", "failed", "panic"} \/ \E c \in Check : ended[c] = "failed"

Promise == INSTANCE Rewrite WITH
  toWriter <- setup.toWriter,
  phase    <- IF Failed THEN "over" ELSE IF pc = "checks" THEN "checks" ELSE "files",
  wanted   <- [f \in File |-> Wanted(f)],
  fixed    <- {FileOf[k] : k \in Fixed}

\* Fix rewrites each file at most once, after all checks completed, as if all
\* chosen edits were applied at once to the text that the checks saw
\* (fix.go:44-46, 69-75, 130-156).
KeepsPromise == Promise!Spec

\* "Skip fixing any findings that overlap with previous findings": a file that
\* was fixed is what edits without a common line make of what it was
\* (fix.go:112-121).
NoOverlapFixed ==
  pc = "done" => \A f \in File : disk[f] \in {setup.disk[f]} \cup Results(Wanted(f), setup.disk[f])
=============================================================================

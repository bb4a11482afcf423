--------------------------- MODULE ResultUploader ---------------------------
(***************************************************************************)
(* The ResultDB reporter (type luci in internal/reporting/resultdb.go):    *)
(* checks add findings to a live result, a completed result goes through   *)
(* the channel doneChecks to one goroutine that sends batches of them, and *)
(* Close waits for the uploads.                                            *)
(*                                                                         *)
(* The calls are those that runInner makes: findings of a check, then its  *)
(* completion unless it is suppressed, all before Close (cli/check.go);    *)
(* module Reporters makes them.                                            *)
(* The text of a result is abstracted to the findings it shows, in order,  *)
(* and to the notices that some were cut; its size limit is counted in     *)
(* them.  The artifacts of a check have different paths.                   *)
(***************************************************************************)
EXTENDS Naturals, Sequences, FiniteSets

CONSTANTS
  Check,        \* the checks of all the shac.star files
  Name,         \* names of checks
  MaxFindings,  \* bound: findings that one check emits
  Capacity,     \* capacity of doneChecks
  MaxBatch,     \* resultSinkMaxBatchSize
  MaxSummary,   \* resultDBMaxSummaryHTMLLength: findings and notices in a summary
  Truncated,    \* the notice "... (truncated)"
  TagsTruncated \* the notice "Tags truncated"

ASSUME UploaderAssumption ==
  /\ IsFiniteSet(Check)
  /\ MaxFindings \in Nat
  /\ Capacity \in Nat \ {0}
  /\ MaxBatch \in Nat \ {0}
  /\ MaxSummary \in Nat \ {0, 1}
  /\ Truncated # TagsTruncated
  /\ {Truncated, TagsTruncated} \cap (Check \X (1..MaxFindings)) = {}

\* Addresses of results; 0 is nil.  A check makes a new result at each call
\* at most, and a call is an emission or the completion.
Address == 1..(Cardinality(Check) * (MaxFindings + 1))

\* The n-th call of a check.
Finding == Check \X (1..MaxFindings)

\* What a summary is made of.
Piece == Finding \cup {Truncated, TagsTruncated}

VARIABLES
  name,       \* name of each check; it never changes
  adds,       \* what a call adds to the result: an "artifact", a "finding", or one
              \* with tags, "tagged"; it never changes
  pc,         \* the call each check is in
  ref,        \* the *TestResult its call uses
  emitted,    \* number of findings the check emitted
  live,       \* luci.liveChecks
  heap,       \* the results allocated so far, and the checks that completed them
  doneChecks, \* the channel
  up,         \* where the upload goroutine is: "recv", "batch" or "gone"
  requests,   \* requests.TestResults
  nposted,    \* number of requests sent so far
  posted,     \* the requests under way: number and results
  delivered,  \* results that ResultDB accepted, in the order of acceptance
  failed,     \* some upload failed
  closing     \* Close: "no", "closed" (the channel), then "ok" or "error"

checkVars == <<name, adds, pc, ref, emitted, live, heap>>
uploadVars == <<up, requests, nposted, posted, delivered, failed>>
uploaderVars == <<checkVars, doneChecks, uploadVars, closing>>

\* Checks that no option selects make no calls.
UploaderInit(selected, names, adding) ==
  /\ name = names
  /\ adds = adding
  /\ pc = [c \in Check |-> IF c \in selected THEN "idle" ELSE "suppressed"]
  /\ ref = [c \in Check |-> 0]
  /\ emitted = [c \in Check |-> 0]
  /\ live = [n \in Name |-> 0]
  /\ heap = <<>>
  /\ doneChecks = <<>>
  /\ up = "recv"
  /\ requests = <<>>
  /\ nposted = 0
  /\ posted = {}
  /\ delivered = <<>>
  /\ failed = FALSE
  /\ closing = "no"

-----------------------------------------------------------------------------
(* The calls of the checks                                                 *)

NewResult(n) == [name |-> n, by |-> {}, summary |-> <<>>, artifacts |-> {}, tagged |-> FALSE]

\* getTestResult: the live result of the name, or a new one.
GetTestResult(c) ==
  LET n == name[c] IN
  IF live[n] # 0
    THEN ref' = [ref EXCEPT ![c] = live[n]] /\ UNCHANGED <<live, heap>>
    ELSE /\ heap' = Append(heap, NewResult(n))
         /\ live' = [live EXCEPT ![n] = Len(heap) + 1]
         /\ ref' = [ref EXCEPT ![c] = Len(heap) + 1]

\* The result with what a call adds to it.
Added(result, f) ==
  IF adds[f] = "artifact" THEN [result EXCEPT !.artifacts = @ \cup {f}]
  ELSE [result EXCEPT !.summary = Append(@, f), !.tagged = @ \/ adds[f] = "tagged"]

\* EmitFinding, EmitCommitMessageFinding, EmitArtifact: find the result, then
\* add to it outside l.mu.  (Two checks of the same name may do so at once; what
\* that leaves of what they add is not modelled.)
EmitBegins(c) ==
  /\ pc[c] = "idle"
  /\ emitted[c] < MaxFindings
  /\ GetTestResult(c)
  /\ pc' = [pc EXCEPT ![c] = "emit"]
  /\ UNCHANGED <<name, adds, emitted, doneChecks, uploadVars, closing>>

EmitEnds(c) ==
  /\ pc[c] = "emit"
  /\ emitted' = [emitted EXCEPT ![c] = @ + 1]
  /\ heap' = [heap EXCEPT ![ref[c]] = Added(heap[ref[c]], <<c, emitted[c] + 1>>)]
  /\ pc' = [pc EXCEPT ![c] = "idle"]
  /\ UNCHANGED <<name, adds, ref, live, doneChecks, uploadVars, closing>>

\* CheckCompleted: find the result and complete it ...
CompleteBegins(c) ==
  /\ pc[c] = "idle"
  /\ GetTestResult(c)
  /\ pc' = [pc EXCEPT ![c] = "complete"]
  /\ UNCHANGED <<name, adds, emitted, doneChecks, uploadVars, closing>>

\* makeTagsUniqueAndValid: the notice, if there are too many tags.
TagNotes(result) == {<<>>} \cup IF result.tagged THEN {<<TagsTruncated>>} ELSE {}

\* Mutant: no room is made for the notices.
CutAtLimit(summary, note) ==
  LET notices == <<Truncated>> \o note IN
  IF Len(summary) + Len(note) > MaxSummary
    THEN SubSeq(summary, 1, MaxSummary) \o notices
    ELSE summary \o note

\* maybeTruncateMessage: a finding that the cut goes through counts as left out.
MaybeTruncate(summary, note) ==
  LET notices == <<Truncated>> \o note IN
  IF Len(summary) + Len(note) > MaxSummary
    THEN SubSeq(summary, 1, MaxSummary - Len(notices)) \o notices
    ELSE summary \o note

\* The result when c has completed it.
CompletedBy(result, c, note) ==
  [result EXCEPT !.by = @ \cup {c}, !.summary = MaybeTruncate(@, note)]

\* ... cut the summary to its size, and delete the result from liveChecks under
\* l.mu ...
CompleteMarks(c) ==
  /\ pc[c] = "complete"
  /\ \E note \in TagNotes(heap[ref[c]]) :
       heap' = [heap EXCEPT ![ref[c]] = CompletedBy(heap[ref[c]], c, note)]
  /\ live' = [live EXCEPT ![name[c]] = 0]
  /\ pc' = [pc EXCEPT ![c] = "send"]
  /\ UNCHANGED <<name, adds, ref, emitted, doneChecks, uploadVars, closing>>

\* ... and send it, which blocks while the channel is full.
CompleteSends(c) ==
  /\ pc[c] = "send"
  /\ Len(doneChecks) < Capacity
  /\ doneChecks' = Append(doneChecks, ref[c])
  /\ pc' = [pc EXCEPT ![c] = "completed"]
  /\ UNCHANGED <<name, adds, ref, emitted, live, heap, uploadVars, closing>>

\* The check fails after the run was cancelled, or never ran: it is not
\* completed.
Suppressed(c) ==
  /\ pc[c] = "idle"
  /\ pc' = [pc EXCEPT ![c] = "suppressed"]
  /\ UNCHANGED <<name, adds, ref, emitted, live, heap, doneChecks, uploadVars, closing>>

-----------------------------------------------------------------------------
(* The upload goroutine                                                    *)

\* Room for another result in the request.
Room == Len(requests) < MaxBatch

\* Mutant: the goroutine waits for its request to end.
ReceiveIdle ==
  /\ up \in {"recv", "batch"}
  /\ doneChecks # <<>>
  /\ posted = {}
  /\ up = "batch" => Room
  /\ requests' = Append(requests, Head(doneChecks))
  /\ doneChecks' = Tail(doneChecks)
  /\ up' = "batch"
  /\ UNCHANGED <<checkVars, nposted, posted, delivered, failed, closing>>

\* The first result of a batch, and those that follow while there is room.
Receive ==
  /\ up \in {"recv", "batch"}
  /\ doneChecks # <<>>
  /\ up = "batch" => Room
  /\ requests' = Append(requests, Head(doneChecks))
  /\ doneChecks' = Tail(doneChecks)
  /\ up' = "batch"
  /\ UNCHANGED <<checkVars, nposted, posted, delivered, failed, closing>>

\* The body of the next request: the results as they are now.
Request == [number |-> nposted, results |-> [i \in DOMAIN requests |-> heap[requests[i]]]]

\* Mutant: requests.TestResults is not emptied.
PostKeeps ==
  /\ up = "batch"
  /\ nposted' = nposted + 1
  /\ posted' = posted \cup {Request}
  /\ up' = "recv"
  /\ UNCHANGED <<checkVars, doneChecks, requests, delivered, failed, closing>>

\* Mutant: break instead of loop = false, which only leaves the select: a closed
\* channel is received from for ever.
PostSpinsWhenClosed ==
  /\ up = "batch"
  /\ Room => ~(closing # "no" /\ doneChecks = <<>>)
  /\ nposted' = nposted + 1
  /\ posted' = posted \cup {Request}
  /\ requests' = <<>>
  /\ up' = "recv"
  /\ UNCHANGED <<checkVars, doneChecks, delivered, failed, closing>>

\* The batch is full, batchWaitDuration passed, or the channel is closed and
\* empty: the results are marshalled as they are now, and sent by a goroutine
\* of their own.
Post ==
  /\ up = "batch"
  /\ nposted' = nposted + 1
  /\ posted' = posted \cup {Request}
  /\ requests' = <<>>
  /\ up' = "recv"
  /\ UNCHANGED <<checkVars, doneChecks, delivered, failed, closing>>

\* The channel is closed and empty.
UploaderEnds ==
  /\ up = "recv"
  /\ doneChecks = <<>>
  /\ closing # "no"
  /\ up' = "gone"
  /\ UNCHANGED <<checkVars, doneChecks, requests, nposted, posted, delivered, failed, closing>>

\* sendData returns; there are no retries.
SendSucceeds(b) ==
  /\ b \in posted
  /\ posted' = posted \ {b}
  /\ delivered' = delivered \o b.results
  /\ UNCHANGED <<checkVars, doneChecks, up, requests, nposted, failed, closing>>

\* The request may have been accepted all the same.
SendFails(b) ==
  /\ b \in posted
  /\ posted' = posted \ {b}
  /\ delivered' \in {delivered, delivered \o b.results}
  /\ failed' = TRUE
  /\ UNCHANGED <<checkVars, doneChecks, up, requests, nposted, closing>>

-----------------------------------------------------------------------------
(* Close                                                                   *)

CloseChannel ==
  /\ closing = "no"
  /\ \A c \in Check : pc[c] \in {"completed", "suppressed"}
  /\ closing' = "closed"
  /\ UNCHANGED <<checkVars, doneChecks, uploadVars>>

\* l.eg.Wait(): the upload goroutine and all the requests are over.
CloseReturns ==
  /\ closing = "closed"
  /\ up = "gone"
  /\ posted = {}
  /\ closing' = IF failed THEN "error" ELSE "ok"
  /\ UNCHANGED <<checkVars, doneChecks, uploadVars>>

Upload == Receive \/ Post \/ UploaderEnds

Send == \E b \in posted : SendSucceeds(b) \/ SendFails(b)

-----------------------------------------------------------------------------
(* Properties                                                              *)

\* The type invariant.
UploaderTypeOK ==
  /\ name \in [Check -> Name]
  /\ adds \in [Finding -> {"artifact", "finding", "tagged"}]
  /\ pc \in [Check -> {"idle", "emit", "complete", "send", "completed", "suppressed"}]
  /\ ref \in [Check -> {0} \cup Address]
  /\ emitted \in [Check -> 0..MaxFindings]
  /\ live \in [Name -> 0..Len(heap)]
  /\ Len(heap) <= Cardinality(Address)
  /\ \A i \in DOMAIN heap :
       heap[i] \in [name : Name, by : SUBSET Check, summary : Seq(Piece),
                    artifacts : SUBSET Finding, tagged : BOOLEAN]
  /\ doneChecks \in Seq(DOMAIN heap)
  /\ up \in {"recv", "batch", "gone"}
  /\ requests \in Seq(DOMAIN heap)
  /\ (up = "batch") <=> (requests # <<>>)
  /\ failed \in BOOLEAN
  /\ closing \in {"no", "closed", "ok", "error"}

\* What ResultDB holds of check c.
Uploaded(c) == {i \in DOMAIN delivered : c \in delivered[i].by}

\* The findings, and the artifacts, that check c emitted.
FindingsOf(c)  == {f \in {c} \X (1..emitted[c]) : adds[f] # "artifact"}
ArtifactsOf(c) == {f \in {c} \X (1..emitted[c]) : adds[f] = "artifact"}

\* Whether c emitted a finding with tags.
Tags(c) == \E f \in FindingsOf(c) : adds[f] = "tagged"

\* The first k pieces of a summary are the first k findings of F, in order.
InOrder(summary, k, F) ==
  \A i \in 1..k :
    /\ summary[i] \in F
    /\ \A f \in F : f[2] < summary[i][2] <=> \E h \in 1..(i - 1) : summary[h] = f

\* The first k pieces are all of F.
ShowsAll(summary, k, F) == \A f \in F : \E h \in 1..k : summary[h] = f

\* A summary of the findings F, as it may be uploaded: all of them, in order, or
\* the first ones and a notice that there are more, in no more than the size.
SummaryOf(summary, F, tagged) ==
  /\ Len(summary) <= MaxSummary
  /\ \E k \in 0..Len(summary) :
       LET notices == SubSeq(summary, k + 1, Len(summary)) IN
       /\ InOrder(summary, k, F)
       /\ IF ShowsAll(summary, k, F) THEN notices \in {<<>>, <<TagsTruncated>>}
          ELSE notices \in {<<Truncated>>, <<Truncated, TagsTruncated>>}
       /\ (\E i \in DOMAIN notices : notices[i] = TagsTruncated) => tagged

\* ResultDB holds each check as it was.  A completed check whose name is its own
\* is uploaded at most once, with its own artifacts, all of them, with its own
\* findings in the order of emission, all of them or a notice that the summary
\* was cut to its size, and with nothing of another check (those of the same
\* name, in two shac.star found by --recurse, do get mixed up); and Close
\* succeeds only if every completed check was uploaded: no result is left in the
\* channel, in the batch or in a request that failed.  No request is empty, or
\* has more than the resultSinkMaxBatchSize results that ResultDB accepts.
UploadedRight ==
  /\ \A b \in posted : Len(b.results) \in 1..MaxBatch
  /\ \A c \in Check : (\A d \in Check \ {c} : name[d] # name[c]) => \A i \in Uploaded(c) :
       /\ Uploaded(c) = {i}
       /\ delivered[i].by = {c}
       /\ delivered[i].artifacts = ArtifactsOf(c)
       /\ SummaryOf(delivered[i].summary, FindingsOf(c), Tags(c))
  /\ closing = "ok" => \A c \in Check : pc[c] = "completed" => Uploaded(c) # {}
=============================================================================

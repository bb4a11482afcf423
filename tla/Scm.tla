-------------------------------- MODULE Scm --------------------------------
(***************************************************************************)
(* cachingSCM over gitCheckout: concurrent checks list files, ask for the  *)
(* new lines of a file and for the commits while git may fail              *)
(* (runtime_ctx_scm.go).                                                   *)
(*                                                                         *)
(* gitCheckout.mu is only ever taken by a thread that holds cachingSCM.mu, *)
(* which is the lock modelled; newLines takes neither.                     *)
(***************************************************************************)
EXTENDS GitFiles, Integers

CONSTANTS
  Check,   \* the checks, each a thread
  Setups   \* the situations to start from

\* A checkout, with or without shac check --all, whether git commands may fail,
\* the checks that call the SCM, with which filters, and a bound: the calls that
\* one check makes.
Setup == [tree : Checkout, returnAll : BOOLEAN, gitFails : BOOLEAN,
          checks : SUBSET Check, filters : SUBSET Filter, maxCalls : Nat]

ASSUME ScmAssumption == Setups \subseteq Setup /\ None \notin Check

ListKey   == [kind : {"affected", "all"}, filter : Filter]
CommitKey == [kind : {"commits"}]
\* A file object belongs to the list that holds it.
LineKey   == [kind : {"lines"}, list : ListKey, path : Path]
Key       == ListKey \cup CommitKey \cup LineKey

Files   == SUBSET [path : Path, action : {"", "A", "C", "D", "M", "R", "T"}]
Value   == [ok : BOOLEAN, files : Files]
Failure == [ok |-> FALSE, files |-> {}]
Done    == [ok |-> TRUE, files |-> {}]

VARIABLES
  setup,    \* where the run started; no check changes the checkout
  mu,       \* who holds cachingSCM.mu, or None
  err,      \* gitCheckout.err is set
  memo,     \* what is remembered: the two maps, commitsVal, fileImpl.newLines
  fileMu,   \* the file objects that are locked
  pc,       \* where each check is
  call,     \* the call it is in
  files,    \* what the listing under way has gathered
  answers   \* the answers each check was given

vars == <<setup, mu, err, memo, fileMu, pc, call, files, answers>>

tree      == setup.tree
returnAll == setup.returnAll

Init ==
  /\ setup \in Setups
  /\ mu = None
  /\ err = FALSE
  /\ memo = <<>>
  /\ fileMu = {}
  /\ pc = [c \in Check |-> "ready"]
  /\ call = [c \in Check |-> None]
  /\ files = {}
  /\ answers = [c \in Check |-> {}]

Answer(k, v) == [key |-> k, ok |-> v.ok, files |-> v.files]

\* A check goes on after an answer and stops at an error.
Respond(c, k, v) ==
  /\ answers' = [answers EXCEPT ![c] = @ \cup {Answer(k, v)}]
  /\ pc' = [pc EXCEPT ![c] = IF v.ok THEN "ready" ELSE "failed"]
  /\ call' = [call EXCEPT ![c] = None]

\* maxCalls bounds the different answers: asking again shows nothing new.
MayCall(c) ==
  c \in setup.checks /\ pc[c] = "ready" /\ Cardinality(answers[c]) < setup.maxCalls

Known(k) == k \in DOMAIN memo
MemoWith(k, v) == [l \in DOMAIN memo \cup {k} |-> IF l = k THEN v ELSE memo[l]]

-----------------------------------------------------------------------------
(* cachingSCM                                                              *)

Hit(c, k) ==
  /\ MayCall(c) /\ mu = None /\ Known(k)
  /\ Respond(c, k, memo[k])
  /\ UNCHANGED <<setup, mu, err, memo, fileMu, files>>

FirstStep(k) == CASE k.kind = "commits"                 -> "log"
                  [] k.kind = "affected" /\ ~returnAll -> "diff"
                  [] OTHER                              -> "ls"

Miss(c, k) ==
  /\ MayCall(c) /\ mu = None /\ ~Known(k)
  /\ mu' = c
  /\ call' = [call EXCEPT ![c] = k]
  /\ pc' = [pc EXCEPT ![c] = FirstStep(k)]
  /\ files' = {}
  /\ UNCHANGED <<setup, err, memo, fileMu, answers>>

\* The list goes into the map whatever the error; that of commits is kept.
Remembered(k, v) == IF k.kind = "commits" THEN v ELSE [v EXCEPT !.ok = TRUE]

Return(c, v) ==
  /\ memo' = MemoWith(call[c], Remembered(call[c], v))
  /\ mu' = None
  /\ files' = {}
  /\ Respond(c, call[c], v)

-----------------------------------------------------------------------------
(* gitCheckout                                                             *)

\* run: nothing once there was an error; a command that fails leaves one.
RunSucceeds == ~err /\ err' = FALSE
RunFails    == (err \/ setup.gitFails) /\ err' = TRUE

Goes(c, step, fs) ==
  /\ pc' = [pc EXCEPT ![c] = step]
  /\ files' = fs
  /\ UNCHANGED <<mu, memo, call, answers>>

\* Mutant: untracked files are looked for only when nothing tracked has changed.
DiffSkipsOthers(c) ==
  /\ pc[c] = "diff"
  /\ LET v == AffectedTracked(tree, call[c].filter)
     IN  \/ /\ RunSucceeds /\ v.ok
            /\ Goes(c, IF v.files = {} THEN "others" ELSE "return", v.files)
         \/ ~err /\ ~v.ok /\ err' = TRUE /\ Return(c, Failure)
         \/ RunFails /\ Return(c, Failure)
  /\ UNCHANGED <<setup, fileMu>>

\* affectedTrackedFiles saves the error of os.Stat, too.
Diff(c) ==
  /\ pc[c] = "diff"
  /\ LET v == AffectedTracked(tree, call[c].filter)
     IN  \/ RunSucceeds /\ v.ok /\ Goes(c, "others", v.files)
         \/ ~err /\ ~v.ok /\ err' = TRUE /\ Return(c, Failure)
         \/ RunFails /\ Return(c, Failure)
  /\ UNCHANGED <<setup, fileMu>>

\* untrackedFiles: no output is no files.
Others(c) ==
  /\ pc[c] = "others"
  /\ LET v == UntrackedFiles(tree, call[c].filter)
     IN  \/ RunSucceeds /\ v.ok /\ Goes(c, "return", files \cup v.files)
         \/ RunSucceeds /\ ~v.ok /\ Return(c, Failure)
         \/ RunFails /\ Goes(c, "return", files)
  /\ UNCHANGED <<setup, fileMu>>

\* Mutant: the lock is not released when git fails.
LsFilesKeepsLock(c) ==
  /\ pc[c] = "ls"
  /\ \/ RunSucceeds /\ Goes(c, "actions", files)
     \/ RunFails /\ Respond(c, call[c], Failure) /\ UNCHANGED <<mu, memo, files>>
  /\ UNCHANGED <<setup, fileMu>>

LsFiles(c) ==
  /\ pc[c] = "ls"
  /\ \/ RunSucceeds /\ Goes(c, "actions", files)
     \/ RunFails /\ Return(c, Failure)
  /\ UNCHANGED <<setup, fileMu>>

Actions(c) ==
  /\ pc[c] = "actions"
  /\ LET tracked == ForActions(tree, call[c].filter)
         v       == AllFiles(tree, call[c].filter)
     IN  \/ RunSucceeds /\ v.ok /\ Goes(c, "return", v.files)
         \/ RunSucceeds /\ tracked.ok /\ ~v.ok /\ Return(c, Failure)
         \/ ~err /\ ~tracked.ok /\ err' = TRUE /\ Return(c, Failure)
         \/ RunFails /\ Return(c, Failure)
  /\ UNCHANGED <<setup, fileMu>>

\* Mutant: the error is not looked at again.
ReturnListUnchecked(c) ==
  /\ pc[c] = "return"
  /\ Return(c, [ok |-> TRUE, files |-> files])
  /\ UNCHANGED <<setup, err, fileMu>>

\* return list, g.err
ReturnList(c) ==
  /\ pc[c] = "return"
  /\ Return(c, [ok |-> ~err, files |-> files])
  /\ UNCHANGED <<setup, err, fileMu>>

Log(c) ==
  /\ pc[c] = "log"
  /\ \/ RunSucceeds /\ Return(c, Done)
     \/ RunFails /\ Return(c, Failure)
  /\ UNCHANGED <<setup, fileMu>>

-----------------------------------------------------------------------------
(* new_lines() of a file                                                   *)

\* The files a check was given by its calls.
Given(c, k) == UNION {a.files : a \in {b \in answers[c] : b.key = k.list /\ b.ok}}
FileOf(c, k) == CHOOSE f \in Given(c, k) : f.path = k.path

LinesOf(c) ==
  UNION {{[kind |-> "lines", list |-> a.key, path |-> f.path] : f \in a.files} :
           a \in {b \in answers[c] : b.ok}}

MayAsk(c, k) == MayCall(c) /\ k \notin fileMu

LinesHit(c, k) ==
  /\ MayAsk(c, k) /\ Known(k)
  /\ Respond(c, k, memo[k])
  /\ UNCHANGED <<setup, mu, err, memo, fileMu, files>>

LinesMiss(c, k) ==
  /\ MayAsk(c, k) /\ ~Known(k)
  /\ fileMu' = fileMu \cup {k}
  /\ call' = [call EXCEPT ![c] = k]
  /\ pc' = [pc EXCEPT ![c] = "lines"]
  /\ UNCHANGED <<setup, mu, err, memo, files, answers>>

\* newLines runs git, if it does, without a lock.
NewLines(c) ==
  /\ pc[c] = "lines"
  /\ LET k == call[c]
         f == FileOf(c, k)
         v == IF LinesOk(tree, returnAll, f) THEN Done ELSE Failure
         ends(w) == /\ memo' = MemoWith(k, w)
                    /\ fileMu' = fileMu \ {k}
                    /\ Respond(c, k, w)
     IN  IF returnAll \/ f.action = "D"
         THEN err' = err /\ ends(v)
         ELSE \/ RunSucceeds /\ ends(v)
              \/ RunFails /\ ends(Failure)
  /\ UNCHANGED <<setup, mu, files>>

-----------------------------------------------------------------------------
ListStep(c) ==
  \/ \E k \in CommitKey \cup {l \in ListKey : l.filter \in setup.filters} :
       Hit(c, k) \/ Miss(c, k)
  \/ Diff(c) \/ Others(c) \/ LsFiles(c) \/ Actions(c) \/ ReturnList(c) \/ Log(c)

LineStep(c) ==
  \/ \E k \in LinesOf(c) : LinesHit(c, k) \/ LinesMiss(c, k)
  \/ NewLines(c)

Next == \E c \in Check : ListStep(c) \/ LineStep(c)

Spec == Init /\ [][Next]_vars

\* A check is a goroutine, which Go keeps scheduling.
FairSpec == Spec /\ \A c \in Check : WF_vars(ListStep(c) \/ LineStep(c))

-----------------------------------------------------------------------------
(* Properties                                                              *)

InListing == {"diff", "others", "ls", "actions", "log", "return"}

\* The types, and who holds which lock.
TypeOK ==
  /\ setup \in Setup
  /\ mu \in Check \cup {None}
  /\ err \in BOOLEAN
  /\ DOMAIN memo \subseteq Key /\ \A k \in DOMAIN memo : memo[k] \in Value
  /\ fileMu \subseteq LineKey
  /\ pc \in [Check -> InListing \cup {"ready", "lines", "failed"}]
  /\ call \in [Check -> Key \cup {None}]
  /\ files \in Files
  /\ \A c \in Check :
       /\ (mu = c) <=> pc[c] \in InListing
       /\ (pc[c] = "lines") => call[c] \in fileMu
  /\ \A k \in fileMu : Cardinality({c \in Check : pc[c] = "lines" /\ call[c] = k}) = 1

Answers == UNION {answers[c] : c \in Check}
\* A check was told that listing k failed.
Reported(k) == \E b \in Answers : b.key = k /\ ~b.ok
Lists(kind) == {a \in Answers : a.key.kind = kind /\ ~Reported(a.key)}

\* With shac check --all, affected_files() lists what all_files() does.
Regular(p) == tree.work[p] # None /\ tree.work[p].mode = "file"
ChangedFile(p) == p \in Untracked(tree) \/ (p \in Tracked(tree) /\ tree.upstream[p] # tree.work[p])

\* affected_files() leaves out no file that a reviewer would see as changed: a
\* regular file of the working tree that differs from the upstream, or that
\* git does not know and does not ignore, whatever the index holds.
NothingMissed == ~returnAll =>
  \A a \in Lists("affected") : \A p \in Path :
    Regular(p) /\ ChangedFile(p) => \E f \in a.files : f.path = p /\ f.action # "D"

\* No ghosts.  What affected_files() lists as not deleted is there and can be
\* opened as a file: no dangling link, no link to a directory, no file that was
\* removed; what it lists as deleted was in the upstream and is not tracked any
\* more.  all_files() lists a path that is not in the working tree only when
\* asked for deleted files, when git's diff has no entry for it (the old name of
\* a renamed file, or one that is only in the index), or when the entry is left
\* out as that of a link or a submodule which the index has replaced.
NoGhosts ==
  /\ ~returnAll =>
       \A a \in Lists("affected") : \A f \in a.files :
         IF f.action = "D" THEN tree.upstream[f.path] # None /\ Current(tree, f.path) = None
                           ELSE Stat(tree, f.path) = "file"
  /\ \A a \in Lists("all") : \A f \in a.files :
       tree.work[f.path] = None /\ ~a.key.filter.includeDeleted =>
         \/ tree.upstream[f.path] = None
         \/ tree.upstream[f.path].mode \notin {"file", tree.index[f.path].mode}
         \/ \E q \in Path : RenamedTo(tree, f.path, q)

\* all_files() lists each file that affected_files() lists, save the deleted,
\* unless git's diff has it as deleted (a file of the upstream that was taken out
\* of the index and left in the working tree), or the index still has a link or a
\* submodule where the working tree has a file.
AllComplete == ~returnAll =>
  \A a \in Lists("affected"), b \in Lists("all") :
    a.key.filter = b.key.filter =>
      \A f \in a.files :
        \/ f.action = "D"
        \/ ~a.key.filter.includeDeleted /\ Deleted(tree, f.path)
        \/ f.path \in Tracked(tree) /\ tree.index[f.path].mode # tree.work[f.path].mode
        \/ \E g \in b.files : g.path = f.path

\* A check may call new_lines() on whatever affected_files() gave it, as long as
\* git works.
ListedIsReadable == ~returnAll /\ ~err =>
  \A a \in Answers : a.key.kind = "lines" /\ a.key.list.kind = "affected" => a.ok

\* The list that a call computes when nothing fails.
Reference(k) ==
  IF k.kind = "affected" /\ ~returnAll THEN AffectedFiles(tree, k.filter)
                                        ELSE AllFiles(tree, k.filter)

\* When git fails under one check, and newLines may set the error between two
\* commands of a listing, another check gets a list that is empty or lacks the
\* untracked files only after some check was told of the error.
RightOrReported ==
  \A a \in Answers : a.ok /\ a.key.kind \in {"affected", "all"} =>
    a.files = Reference(a.key).files \/ Reported(a.key)

\* The locks and the saved error leave no check waiting: each gets its answers.
AllServed ==
  \A c \in Check :
    <>(c \in setup.checks => pc[c] = "failed" \/ Cardinality(answers[c]) = setup.maxCalls)

\* runtime_ctx_scm.go:387 "cachingSCM wraps any other scmCheckout and memoizes
\* return values": the same call always gets the same answer.
MemoizesReturnValues ==
  \A a, b \in Answers : a.key = b.key /\ a.key.kind \in {"affected", "all"} => a.ok = b.ok

\* runtime_ctx_scm.go:675-676 "This allows allFiles to correctly filter out
\* deleted tracked files without needing to call os.Stat later."
NoDeletedListed ==
  \A a \in Lists("all") : \A f \in a.files :
    ~a.key.filter.includeDeleted => tree.work[f.path] # None

=============================================================================

# A verification of shac

shac (Scalable Hermetic Analysis and Checks) evaluates `shac.star` files, runs
the checks they register in parallel over the files of a git checkout, and
reports what they find. This directory holds TLA+ models of the parts where its
correctness is hard to test, the TLC configurations that check them, and proofs
checked by TLAPS. Source paths below are relative to `src/`, and file names
without a directory are in `internal/engine/`.

## 1. The system

| Component | State it keeps | Operations | Correct when |
|---|---|---|---|
| Parse phase (`env.go`, `run.go:548-565`, `runtime_shac.go`) | `starlarkEnv.sources` under `mu`; each source's own mutex, thread and outcome; `shacState.checks`, `printCalled` | one goroutine per `shac.star`; `load()` by master election; `register_check`, `print`, `fail` | each source is evaluated once and seen only when finished; failures reach every importer; no deadlock; nothing runs after `eg.Wait()` |
| Run phase (`run.go:321-632, 803-896`) | `highestLevel`, the errgroup's first error and context | start, callback, completion, suppression and return of each check; the verdict | the verdict is the maximum of what was emitted; only genuine failures are reported, and no other error takes their place; `Run` ends |
| Subprocesses (`runtime_ctx_os.go`, `buffers.go`, `../execsupport`) | semaphore and its queue, `errs`, temporary directory, pooled buffers | `ctx.os.exec`, `wait()`, `cleanup()`, cancellation | no token, process, directory or buffer is lost or shared |
| ResultDB reporter (`../reporting/resultdb.go`) | `liveChecks`, the channel `doneChecks`, the batch, requests under way | `EmitFinding`, `CheckCompleted`, upload goroutine, `Close` | every completed check is uploaded once, with its own findings or the notice that some were cut, or `Close` fails; checks never wait for HTTP |
| SCM (`runtime_ctx_scm.go`) | upstream, index and working tree (git's); `gitCheckout.err`; the caches of `cachingSCM` and of each file | `affected_files`, `all_files`, `new_lines`, commits | no changed file is missed, no ghost is listed, a failure of git is not taken for an empty list |
| Startup: root, configuration, SCM wrappers, discovery, filters (`run.go:321-546`, `config.go`, `runtime_ctx_scm.go`) | the document, the wrapped listings and what `cachingSCM` remembers of them | `resolveRoot`, `Validate`, `getSCM`, `recurse`, `newState`, `--only`/`--skip`, `filter`, globs | what is refused is refused for the right reason; each `shac.star` is found once, runs the selected checks, and is shown its own files |
| Fixing (`fix.go`) | findings collected per file | group, sort, drop overlaps, apply edits | the result is that of the simultaneous, non-overlapping edits |
| Packages (`pkg.go`) | the map of names, the first error of the errgroup | parallel retrieval (fetch, clone, checkout), vendored packages, digests | nothing is loaded whose digest was not checked; no goroutine outlives the retrieval; the error is that of what went wrong first |
| Exec lock and sandbox (`../sandbox`, `../execsupport`) | an RWMutex around forks; the nsjail executable | write executable, fork, mounts | no fork keeps a writable descriptor of the executable |
| Emission, reporters (`runtime_ctx_emit.go`, `../reporting`) | `SarifReport.resultsByCheck`, the mutex and output of the console | validation of spans; fan-out to all reporters; highlighting; SARIF fixes | every reporter is told every call once; what is shown and fixed is what was found |
| Runtime values, docs, CLI, generated code | mostly none | conversions, text, flags | - |

How they interact. `Run` (`run.go:309`) makes a temporary directory and calls
`runInner`, which reads the configuration, builds the SCM, retrieves packages
below that directory, finds the `shac.star` files, runs the parse phase under one errgroup, then runs every check that
passes the filter under another. Both have a limit of `NumCPU() + 2`
(`run.go:74`), which is the size of the semaphore of the subprocesses as well.
The goroutines of the parse phase share one `starlarkEnv`; those of the checks
share the SCM cache, the pool of buffers, the semaphore and the reporter. A
callback calls back into the SCM (`ctx.scm`), starts processes (`ctx.os.exec`) and
emits findings (`ctx.emit`), which go to all the reporters synchronously
(`MultiReport`). The command
line closes the reporter after `Run` returned (`cli/check.go:45-72`), and a signal
cancels the context at any time (`main.go:30-67`).

What is hard here: two levels of locks with a `TryLock` in `loadInner`; error
groups that start work after a failure; cancellation racing with a FIFO
semaphore; a cleanup that must work on every way out of a check; a channel, a
batch and requests that `Close` has to drain; reporters that are told at once, one of
which fails; retrievals of which one fails; a list that is filtered in place; a cache over a sticky error; and two
views of a checkout (index against working tree, upstream against working tree)
that are put together as if they were one. `PROJECT.json` lists these as hazards,
each at its line.

## 2. The modules

| Module | Models | Kind |
|---|---|---|
| `Memo` | what loading promises: one result per source, settled once | abstract state machine |
| `Loader` | the parse phase; implements `Memo` | state machine |
| `LoaderProofs` | theorems about `Loader`, `Loader` implements `Memo` | proofs |
| `CheckRun` | run phase and subprocesses | state machine |
| `CheckRunProofs` | theorems about `CheckRun` | proofs |
| `ResultUploader` | the ResultDB reporter | actions, composed by `Reporters` |
| `UploaderProofs` | what each action of `ResultUploader` keeps | proofs |
| `Rendering` | the lines that a terminal highlights, the fixes of SARIF; extends `Edits` | operators |
| `Reporters` | `MultiReport` over ResultDB, a console and SARIF, and the checks that call it; extends `ResultUploader` and `Rendering` | state machine |
| `ReportersProofs` | theorems about `Reporters`; extends `UploaderProofs` and `EditsProofs` | proofs |
| `GitFiles` | what the two listings return for a given checkout, and whether `new_lines()` can read a file | operators |
| `Scm` | `cachingSCM` over `gitCheckout`: the same listings, command by command, with locks and failures; extends `GitFiles` | state machine |
| `ScmProofs` | lemmas about `GitFiles`, theorems about `Scm` | proofs |
| `Config` | documents, `CheckVersion`, `Validate` | operators |
| `Packages` | `RetrievePackages`; extends `Config` | actions, composed by `Startup` |
| `Selection` | the wrappers around the listings, globs, named files, the check filter | operators |
| `Startup` | `runInner` up to the checks and their listings; extends `Packages` and `Selection` | state machine |
| `StartupProofs` | lemmas about lists and `Selection`, theorems about `Startup` and `Packages` | proofs |
| `Edits` | text, lines and spans; applying one edit, and many at once | operators |
| `Rewrite` | what `Fix` promises: each file is rewritten once, by all chosen edits at once | abstract state machine |
| `Fix` | `ctx.emit.finding` under `shac fix` and `shac fmt`, and `fix.go`; implements `Rewrite` | state machine |
| `EditsProofs` | lemmas about `Edits` and `Rendering` | proofs |
| `FixProofs` | theorems about `Fix`, `Fix` implements `Rewrite`; extends `EditsProofs` | proofs |
| `MCLoader`, `MCCheckRun`, `MCReporters`, `MCScm`, `MCStartup`, `MCFix` | instances for TLC | |

Operators whose comment starts with "Mutant" are wrong on purpose: each is a
plausible mistake in the definition that follows it, and `PROJECT.json` names the
property that TLC finds violated when the definition is replaced by it.

### Loader

A source tree is a list of statements per file: `load`, `register_check`, `print`
or a failing expression. `owner[f]` is `loadedSource.th`, `mu[f]` its mutex,
`outcome[f]` its `err` (with the preset "panic while loading"), `parent` and
`cur` are the chain that `loadInner` keeps in the thread-local values. The lookup
under `e.mu` is one action since nothing blocks there (`LoadMiss` inserts and
locks in the same critical section, as `env.go:188-194` does); everything else is
one action per step: `LoadAgain` and `LoadCycle` are the two results of `TryLock`,
`LoadOther` and `LockAcquired` the blocking `Lock`, `LoadReturn` the reads and the
unlock, `FrameEnds`/`FrameFails` the end of an execution. `Launch`, `Return` and
`Wait` are the errgroup, which keeps the first error and waits for all.

### CheckRun

One goroutine per check and one per subprocess. A callback may do, in any order,
whatever a Starlark callback can: emit, start subprocesses, wait for them, fail,
return something other than `None`, or return without waiting. `Exec` takes a
buffer and a directory; the subprocess goroutine then goes through the semaphore
(`semCur`, `semWaiters`: the FIFO of `semaphore.Weighted`, including the waiter
that is cancelled when it has just been handed a token), starts the process, sends
on `errs` and releases the token. `Report` is the suppression and
`CheckCompleted`, `Leave` the return to the errgroup, `Finish` the verdict and the
removal of the temporary directory. The removal may fail (`RemoveAll`): some directories of
subprocesses are left, and its error is that of `Run` if there is no other (`"notRemoved"`), the only
one that no Report gets. `Interrupt` is the signal.

`Memo` knows no goroutine that executes, no lock and no stack: a source gets a result
(`Settle`), a `shac.star` is answered with the result of its source (`Answer`), and the
phase returns one of the answers that is a failure, or success (`Conclude`). A source
succeeds only if everything it loads did, and fails only with an error of its own
(`OwnErrors`: it cannot be opened, or has a statement that can raise it) or with that
of a source it loads. `KeepsPromise` is `Promise!Spec`, where `Promise` maps `outcome` to
results and `err` to answers. The cycle error counts as an own error of whoever
loads: when it is justified is what `CycleVerdict` says.

### ResultUploader, Rendering and Reporters

A check calls `MultiReport` (`CallEmit`, `CallCompleted`), which asks each reporter in a goroutine
of its own; the check goes on when all have answered (`Waited`), and makes no other
emission after an error. `told[c][r]` is where the reporter `r` is with the call of `c`.

*ResultDB.* A call is two or three actions (look up the live result, change
it, send it), so calls of different checks interleave as they do under
`l.mu`. `Receive`, `Post` and `UploaderEnds` are the upload goroutine; a batch may
be posted at any time once it has a result (`batchWaitDuration` is a timer). Each
request is a goroutine of its own, may fail although it was accepted, and is not
retried. `CloseChannel` and `CloseReturns` are `Close`, called after all checks.
The text of a result is its `summary`: the findings that it shows, in order, each a piece of it, and at
the end the notices, "Tags truncated" and "... (truncated)". `CompleteMarks` adds the first
(`TagNotes`) and cuts the summary (`MaybeTruncate`) as `resultdb.go:204-233` does: the limit is counted in pieces
instead of bytes, the room for the notices included, and a finding that the cut goes
through counts as left out. Artifacts are a set, and none is cut.

*The console* writes the overview of a finding, and in a terminal the lines around its
span: two steps under the mutex of `synchronized` (`Overview`, `Highlight`), or one error.
`Rendering!Highlighted` is `printHighlightedLines`, character by character, since its slices are
the point: outside of the line they panic (`crashed`). Writes to stdout may fail (`broken`), for a disk which
is full or gets full after the overview; of the writes of `Highlight`, the error of the last one is returned
(`reporting.go:359`), and that of a completion by nobody.

*SARIF* appends a result to those of the check's name; a replacement of a whole file is split along a
diff. Which equal lines difflib pairs is not this code's business: `Alignments` are all the
ways to pair them, and `Groups` the regions between. Properties that are not UTF-8 are refused (`SarifFails`), which
fails the call. `SarifCloses` runs at the same time as the `Close` of ResultDB, and may fail: then there is no document.

### Config, Packages, Selection and Startup

`stage` is where `runInner` is. Each stage is one action, since nothing else runs at the
same time, except `packages`: there, each dependency has a goroutine (`pc`), launched under the limit,
that fetches, clones, checks out and verifies; a command fails if the store lacks
the package, if git may fail, or once another one has failed (the context is cancelled).
`CheckPaths` refuses a temporary directory whose path is not absolute (`$TMPDIR` may be relative) before anything is
retrieved. `Retrieved` is `eg.Wait()`, and `RetrieveReturns` goes on to `sandbox.New`, which may fail. A hash is what it hashes (`Hash`), so a digest says what the package
must be; a digest that is missing, or not the 32 bytes of one, is `NoDigest`, which `ValidKnown` refuses. A url, an alias and a
path are sequences of components; versions are in a given order; of `vendor_path` only matters whether it is there and clean.

`ConfigError`, `ScmError`, `StateError` and `SelectError` list the errors in the order in which the code
looks for them. The listings of git are given (`tree`; they are `Scm`'s matter), and
`Selection` wraps them as `runInner` does: `FilterInPlace` is the loop of `filteredSCM.filter` with its
two indices, as the position that each file is moved to; lists that are filtered, sorted or compacted
otherwise are given by how often each element remains (`Repeated`); `Shown` is `subdirSCM` and the glob.
`memo` is what `cachingSCM` remembers, shared by the checks of all directories.

### GitFiles and Scm

A checkout gives each path an object (a file, a symbolic link by what `os.Stat`
finds behind it, a submodule) in the upstream commit, the index and the working
tree. What git prints is modelled from the commands: `DiffRaw` is
`git diff --raw -C upstream` with its entries A, C, D, M, R, T, `Tracked` and
`Untracked` are `git ls-files` with their options. These are external; the
filtering in `ShouldInclude`, `AffectedTracked`, `UntrackedFiles` and `AllFiles` is the
code's. `Scm` runs the listings command by command under `cachingSCM.mu`, with
the sticky `gitCheckout.err`, what is remembered of a call, and `newLines`,
which runs git without either lock. `gitCheckout.mu` is only taken under
`cachingSCM.mu` and has no variable of its own.

### Edits, Rewrite and Fix

Checks emit what `setup.calls` gives them, interleaved; `Accepts` is everything
`ctxEmitFinding` may refuse, with `ValidSpan` for `parseSpan`, and a refusal fails the
check. `Emit` appends to `findings` (`findingsByFile`) what has one replacement.
`RunReturns` is the return of `Run`: only if all checks completed does Fix go on. It
takes the keys by path (`NextFile`), considers the findings in the order of the line
they were given, ties in any order (`Choose`, `Skip`: `sort.Slice` is not stable), applies
what was chosen from the last to the first (`Apply`), one edit per step, and
writes (`Write`, or `WriteFails` with a truncated file). Slicing outside of a file or a
line is `pc = "panic"`. A text is a sequence of characters, since columns and newlines
are what the algorithm is about; `Lines` is `strings.SplitAfter`.

`Rewrite` knows neither keys nor steps: a file with wanted edits becomes
`AllAtOnce(S, lines)` for a set `S` of edits that share no line and that every edit left out
shares a line with. `KeepsPromise` is the refinement `Rewrite!Spec` under the mapping
`Promise`; what is wanted is computed from the calls, not from `findings`, so that a
finding lost on the way would be noticed, and a failed check ends the abstract
behaviour, so that fixing after a failure would be.

## 3. The runs

`setup` and `script` are chosen in `Init`, so that one run covers many
source trees, checkouts, documents or ways to call the reporters.

| Run | Bounds | Shows |
|---|---|---|
| `loader` | three goroutines, two at a time; six hand-picked trees, and all 676 load graphs on two `shac.star` and one library | nobody reads an unfinished source; what a source evaluated to is final; failures reach every importer; each check is registered exactly once; no source on a cycle loads, and the cycle error is sound for threads that share nothing (`CycleVerdict`); acyclic trees never deadlock, and end; the state is frozen after `eg.Wait()`; `Loader` implements `Memo` (`KeepsPromise`) |
| `loader_cross` | two `shac.star` loading each other | **violation** of `NoWaitCycle`: both threads wait for ever |
| `loader_diamond` | a diamond | **violation** of `CycleErrorSound`: the cycle error without a cycle |
| `run_checks` | five instances, chosen in `Init`: three checks, one with a subprocess, and two slots; two checks with a subprocess each; two checks with three subprocesses, one slot and one token, interrupted; findings of all levels, interrupted; findings and a subprocess | the verdict is the maximum of what was emitted; only genuine failures are reported and returned, and a directory that cannot be removed hides none of them; buffers and tokens; what is left behind; that `Run` and all it started end |
| `run_kill` | one check, a process that never ends by itself | **violation** of `CleanupEnds`: `cleanup()` waits before it kills |
| `upload` | *Batches*: three checks and ResultDB alone, unique names and a shared one, a channel of one, batches of two. *Long*: a check whose findings fit in a summary of two, or do not, an artifact between them, a notice about tags. *TwoAtOnce*: two checks on each console, with SARIF, whose calls succeed or fail on either. *Full*: writes that fail from the first one on, or after the overview. *Highlights*: every accepted span with lines up to 3 and columns up to 3, in two files and a commit message. *Replacements*: six files, each replaced by each, along every pairing of equal lines | what ResultDB holds of a check whose name is its own, cut to its size or not, and what `Close` says (`UploadedRight`); each reporter is told each call once, in one piece (`EveryReporterTold`); the highlight is the span, the fix is the replacement, and why printing panics (`RenderingRight`); checks do not wait for HTTP; `Close` ends |
| `scm` | all checkouts of two paths and two contents with all filters; all checkouts of one path over files, links and submodules with two calls; three checks with two calls and a git that may fail at each command | what the listings contain and leave out; that a wrong list is handed out only after some check was told of the error; that every check is served |
| `scm_moved` | the two-path checkouts | **violation** of `NoDeletedListed`: a missing file is listed |
| `scm_memo` | three checks, git may fail | **violation** of `MemoizesReturnValues`: the list is kept, the error is not |
| `startup` | six families of situations around a plain one: directories and states of git; documents; three dependencies, pending, tampered with, absent, nested or with clashing aliases, fetched two at a time or vendored, a relative temporary directory, a sandbox that cannot be made; filters and scripts; listings with ignore patterns, named files and globs by the checks of two directories; one ignore pattern over every subset of six paths | no goroutine is left behind and nothing unverified is loaded (`PackagesVerified`); each check is shown its files (`ShownFilesRight`); the right checks of the right `shac.star` run (`RightChecksRun`); the error is the one that helps (`ErrorsExplained`); `runInner` gets there |
| `fix` | every span with lines -1..3 and columns 0..3 on three short files; all pairs of eleven spans with three replacements each on a file of three lines; several findings on two files, with refusals, a writer, untracked files | that Fix implements `Rewrite`, the choice of edits, and when it panics |
| `fix_twice` | two keys that name one file | **violation** of `NoOverlapFixed`: overlapping findings are both applied |

Why the bounds are enough. The parse phase is about who gets to a source first:
two goroutines in contention, plus one that queues for the errgroup (a limit of
2), and sources that three, two or one of them reach. Loading is determined by the
graph, and on three files every graph with at most two loads per `shac.star` occurs.
`MaxConcurrency` is at least 3 in the code; 1 and 2 in the runs stand for the same
contention with fewer checks (as many checks as slots plus one), and `run_kill`,
which needs no contention, uses 3. Three checks suffice for the orders "first
failure, suppressed failure, not started". For the uploader, a channel and a
batch that both fill with three results pass every boundary (empty, full, last);
in the code the two have the same size, 500, and a channel of one makes it fill
while a batch is collected. The run `upload` has 363,438 distinct states, `startup` 21,162 from 1,806 situations. `MaxFindings = 3` lets a check call again after a call that
succeeded or failed, and emit more than the two pieces that `MaxSummary = 2` has room for: a summary then fits exactly,
or is cut, and with a notice about tags as well, there is no room for any finding. The highlight depends on the lines of a span and those next to
them, so three lines, with and without a last newline, have all cases; the fix of SARIF
depends on where the paired lines are, and the six files have insertions, deletions and changes
at the start, in the middle, at the end, and of everything.
Retrieval is about one goroutine that fails while another one runs and a third waits for
a slot: three dependencies, two slots (8 in the code). A document is
refused for one reason, or for the first of several: `Documents` combines lists of at most two. For the filter in
place, six files and every subset of them ignored contain every pattern of runs of
ignored files, at the start, between and at the end.
A listing treats paths one by one but for renames and copies, which relate two;
so two paths suffice for files, and one for links, whose content is never paired
with another path in these instances. `maxCalls` bounds different answers, not
calls: asking again for what was answered changes nothing. An edit is about two lines and what lies before, between and after them, so three
lines and a trailing empty one contain every way in which two edits can touch;
`MaxReplacements` is 100 in the code and 2 here.

Deadlock is checked in `loader_diamond`, the `run_*` runs, `upload`, `startup` and the `fix` runs. It is not
in `loader` and `loader_cross`, where shac does stop (that is the finding), nor in
the `scm` runs, whose checks stop at an error or when they have made their calls.

### Fairness

* Goroutines are scheduled: weak fairness of the step of each one (`Step(t)`,
  `CheckStep(c)`, `ProcStep(p)`, `Upload`, ...). A Go mutex hands itself to a
  waiter after a bounded time, and here weak fairness is enough because a lock is
  taken finitely often.
* Processes end by themselves in `FairSpec` of `CheckRun`; `StubbornSpec` drops
  that, because `cleanup()` is meant for processes that do not.
* Each reporter's goroutine, the checks, the upload goroutine and `Close` are fair in `Reporters`.
  HTTP requests are not.
  `NetworkDoesNotBlock` holds without; `CloseEnds` states its assumption,
  weak fairness of `Send`, since `Close` has no timeout.
* In `Startup`, the stage under way is fair as a whole: git commands and scripts end, and
  there are finitely many steps before the checks run.
* Nothing forces an interruption, a failure of git, of a process or of a request.

## 4. What is proved

All theorems are for every value of the constants: any number of goroutines, checks,
subprocesses, files, dependencies, any limit and any size of a channel, a batch or a summary.

| Module | Theorem | States |
|---|---|---|
| `LoaderProofs` | `CoreInvariance` | the inductive invariant `CoreInv` |
| | `TypeCorrect` | `Spec => []TypeOK` |
| | `NoUnfinishedReadHolds` | a `load()` never sees the placeholder |
| | `OutcomeFinalHolds` | what a source evaluated to is settled once |
| | `AcyclicTreesDoNotDeadlock` | `Spec => []AcyclicNoWaitCycle` |
| | `LoadedClosureHolds` | a source that loaded has loaded only successful sources |
| | `FrozenAfterParseHolds` | nothing happens after `eg.Wait()` |
| | `CycleVerdictHolds` | no source on a cycle loads; who gets the cycle error reaches a cycle, unless two `shac.star` share a source |
| | `RegisteredOnceHolds` | under `ChecksAreOwn`, each check that is reached is registered exactly once |
| | `ImplInvariance` | the invariant `ImplInv` of the refinement |
| | `LoaderKeepsPromise` | `Loader` implements `Memo` |
| `CheckRunProofs` | `IInvariance` | the inductive invariant `IInv` |
| | `TypeCorrect` | `Spec => []TypeOK`; no more tokens than the semaphore has |
| | `NoLostToken` | `Spec => []TokensAccounted` |
| | `NoSharedBuffer` | `Spec => []BuffersExclusive` |
| | `NoFalseBlame` | `Spec => []GenuineFailuresOnly`: what `Run` returns was given to a Report, or is the error of removing the directory after checks that all completed without one |
| | `SoundVerdict` | `Spec => []VerdictSound` |
| | `NothingLeftBehind` | `Spec => []NormalRunLeavesNothing`, also when `Run` could not remove its directory |
| `UploaderProofs` | `UploaderStarts`, `UploaderStepKeeps`, `UploadedRightFollows` | the inductive invariant of the ResultDB reporter, whoever calls it |
| `ReportersProofs` | `RightUpload` | `Spec => []UploadedRight`: all artifacts of a check, its findings in order, all or the first ones and a notice, nothing of another check |
| | `ReporterInvariance` | the inductive invariant `ReporterInv` |
| | `TypeCorrect` | `Spec => []TypeOK` |
| | `AllAreTold` | `Spec => []EveryReporterTold` |
| | `HighlightedRight` | what is printed is whole lines, with just the span highlighted, unless it panics |
| | `RenderingIsRight` | `Spec => []RenderingRight` |
| `StartupProofs` | `StartupInvariance` | the inductive invariant `StartInv` |
| | `PackagesAreVerified` | `Spec => []PackagesVerified` |
| | `ErrorsAreExplained` | `Spec => []ErrorsExplained` |
| | `RetrievalIsLimited` | at most `PkgConcurrency` goroutines retrieve at a time |
| | `FilterIs`, `SortCompact` | filtering in place keeps what no pattern matches, in order; sorting and compacting give each file once, in order |
| | `ChoiceInvariance` | the inductive invariant `ChoiceInv` |
| | `FilesShownAreRight` | `Spec => []ShownFilesRight` |
| | `RightChecksAreRun` | `Spec => []RightChecksRun` |
| | `TypeCorrect` | `Spec => []TypeOK` |
| `ScmProofs` | `ScmInvariance` | the inductive invariant `ScmInv` |
| | `TypeCorrect` | `Spec => []TypeOK` |
| | `RightOrToldSo` | `Spec => []RightOrReported` |
| | `NothingIsMissed`, `NoGhostIsListed`, `AllIsComplete`, `GivenCanBeRead` | `Spec => []NothingMissed`, `[]NoGhosts`, `[]AllComplete`, `[]ListedIsReadable` |
| `EditsProofs` | `LinesProperties` | joining what `SplitAfter` gives is the text again |
| | `EditsMakeNew` | the edits that a difference of two texts is split into make the new one of the old one |
| `FixProofs` | `ResultIsPromised` | applying the chosen edits one by one, last first, gives what all give at once |
| | `FixInvariance` | the inductive invariant `FixInv` |
| | `TypeCorrect` | `Spec => []TypeOK` |
| | `ChoosesDisjoint` | `Spec => []ChosenDisjoint` |
| | `PanicsOnlyBeyondTheEnd` | `Spec => []ValidSpansNeverPanic` |
| | `FixKeepsPromise` | under `OneNameEach`, `Fix` implements `Rewrite` |
| | `OneNameNoOverlap` | under `OneNameEach`, `Spec => []NoOverlapFixed` |

### Assumptions

Most assumptions only say what the constants are: the source trees are sequences of
statements, limits are positive, "none" is not one of the values it stands in for. TLC
evaluates all of them on every run. The others are these.

* `BufferAssumption` (`CheckRun`): there are enough buffers for all subprocesses, because
  `buffers.get` makes a new one when the pool is empty. Without it `NoBuffer` would be handed out.
* `UploaderAssumption`: a summary has room for the two notices (the limit is 4096 bytes, `resultdb.go:45`), and they are not findings.
* `ReportersAssumption`: checks call the reporters with what `ctx.emit` accepts (`Accepted`), since
  `ctxEmitFinding` refuses anything else before a reporter is asked. And difflib pairs equal lines, in order (`Diffed`),
  as `GetGroupedOpCodes` documents; which ones is left open.
* `StartupAssumption`: without a document, its fields have their defaults.
* `SelectionAssumption`: the paths of a tree are each listed once, none of them is empty and none starts
  with the component ".", as git and `fs.WalkDir` print them. Without the last part, the `shac.star` of `./` and that of the
  root would be two.
* `ChecksAreOwn` is a hypothesis of `RegisteredOnceHolds` only: a check is identified with the
  source that registers it. It is a function of that source, so that two sources never register the
  same one; `MCLoader` has TLC check that its trees comply.
* `OneNameEach` is a hypothesis of `FixKeepsPromise` and `OneNameNoOverlap`: no two keys of
  `findingsByFile` name one file. The code does not ensure it, and the run `fix_twice` shows what
  happens then. The theorems say that nothing else can go wrong. It holds of the
  instance of `fix` (`OwnFile`).

### Loader

None of the properties is inductive. `CoreInv` adds to the types
what a thread's position says of its stack (`ControlInv`), that the sources a
thread executes form one chain linked by `parent` and ending in `cur`
(`StackInv`), and that a mutex is held by the thread that executes the source or by
one that reads a finished one (`LockInv`): with it a reader, who holds the
mutex, cannot meet an executing source. For deadlocks, `ChainInv` adds that each
source of a chain is stopped at the `load` of the next one, and that a thread that
waits stands at the `load` of what it waits for. In a circle of waiting threads,
take all sources their stacks hold: each of them loads another one of the set,
which an acyclic tree excludes. For `LoadedClosure`, `ClosureInv` says that what
an executing source has passed succeeded, so that a source ends well only after
all of its loads did. `QuietInv` (all goroutines are done once the group
returned) gives `FrozenAfterParse`.

For `CycleVerdict`, `OrderInv` says that no stack goes round in a circle, in terms of sets
of frames, so that no induction over the length of a chain is needed: a set of its sources that has, with each one
but the top, the one it loads next, has the top as well. A source that is about to succeed then
cannot reach itself (`OkInv`), and every source that a thread met is reached from its
`shac.star` (`ReachInv`), which bounds what a cycle error can be about (`CycleInv`). For
`RegisteredOnce`, a check in the state of a goroutine was registered by a source of that goroutine
(`OwnedInv`), and what a source registered so far is in its state (`KeptInv`); when the group
reports success it has seen the error of nobody (`SuccessInv`), so all `shac.star` loaded, and since sources
that loaded load only such sources, so did all that they reach.

The refinement needs to know, besides, where errors come from; this is what `ImplInv` adds.
`FailInv`: no source gets past an expression that fails, so one that reaches its end may
succeed. `OpenInv`: a source that cannot be opened is never at a `load`. `CauseInv`: an
error that leaves a source is one of its own kinds or the result of a source it loads, and
what a goroutine returns is the result of its `shac.star`. `GroupInv`: the errgroup has
an error exactly when a goroutine that is done has, and then one of theirs. With these,
`FrameEnds` and `FrameFails` are steps `Settle` of `Memo`, `Return` is `Answer`, `Wait` is
`Conclude`, and all other steps stutter: that a source starts to execute cannot be seen.

### CheckRun

`TokensAccounted` is inductive once the queue of the semaphore has each waiter once
(`TokenInv`): otherwise a wake-up could take a waiter out and leave its double. `BuffersExclusive` needs to
know when a buffer goes back, so `CallInv` ties every subprocess to its check: which
`wait()` the check is in, how far its cleanup is, and that only a finished one was cleaned up.
`PoolInv` then says that a buffer which was ever taken is in the pool or in use by one subprocess, never
both; that a taken one is never forgotten is what makes `get` able to return a new one. `ErrorInv` follows an error from where it
arises: a cancellation is only named so once the context is cancelled, the context is only cancelled by the
user, by the end, or by an error that the Report was given before. Without the last part, a
check could be reported for a cancellation that nothing caused. `DirInv` says whose directory is still there: that of a subprocess
which was started and not cleaned up, so none when all checks completed, and a removal that fails can leave none of them.

### ResultUploader and Reporters

For a check whose name is its own, `OwnInv` says which of the results in the heap it is (`OwnResult`), that
it is in at most one of channel, batch, requests and delivered, and there once (`InOnePlace`), and that it does
not change once it was marshalled (`Final`). While it is live it shows exactly what the check emitted, in order (`AllAdded`);
when it is completed, the cut leaves a first part of that and a notice (`Holds`, by the lemma `CutToSize`). `KeptInv` is the converse: it is in one of them unless an upload
failed. Both need `HeapInv`, on who may still write to a result: the map of live results and
the checks under way refer to results of the right name only. `ClosingInv` is what `Close` may assume: no call is
under way, the goroutine has gone only with an empty channel and batch. The actions of
`ResultUploader` keep all this whoever calls them; in `Reporters`, each step is one of them or leaves their state alone.

`EveryReporterTold` relates the answers that a check got to what is in the two outputs. `AskedInv` and `AnswerInv`
say where each reporter is with the last call of a check, that its answer is the right one (`Right`: an error exactly when the
reporter fails for that call, `FailsFor`), and that a call which fails is its last; `MutexInv`
that who prints has the mutex and that its overview is the last of stdout, so that the lines which follow belong to it
(`LinesInv`); `SarifInv` and `StdoutInv` count, for every call, its entries in the results and its chunks
in the output; `DocumentInv` that the document was made when nobody could add to it.

`RenderingRight` is about two algorithms. `RenderedInv` only says that what is in the outputs is from a call that
was accepted, that lines are printed where slicing does not panic, and that a panic is for some call. For the terminal,
`MarkedIs` has where the highlight begins and ends in each line of the span, and `CutIs` that the three parts of a
line that is cut are the line. For SARIF, `EditsMakeNew` holds of every way to pair equal lines of two texts, in order. The
pairs, with one stop before the first line and one after the last, are ordered on both
sides (`StopsOrdered`), and each one but the last has a next one (`FollowsIs`); between two neighbours
there is at most one edit, which is a replacement of whole lines, or an insertion before the line of the second (`EditOfIs`,
`NoOtherEdit`). So what the edits make of the lines after one stop, up to the next, is what the new
text has there (`StretchIs`), and by induction over the stops it is all of the new text. An insertion is made in front of a line,
so one behind the last would be lost; there is none, because a last line is the only one without a newline, and is only
equal to a last line (`LastLinesOnly`). That needs what `Lines` does to newlines (`LastLine`), and counting them.

### Startup

`GroupInv` says which goroutines there are (those of the first dependencies, never more of
them busy than the limit), `NamesInv` that every name stands for a dependency that was verified and that
the url of each one that is done is a name, `FailureInv` that a failure has a cause: a path that is refused, or a dependency
which is troubled, one that fails without the others. `StagesInv` carries what the earlier stages established to the later ones,
and `ErrorInv` what is known of the error at the end.

What is selected rests on facts about lists of any length, proved by induction over sets of lists (`SequenceInduction`). All
lists come from `Repeated`, which gives each element of a list as often as it is told to: `Select`, `Sort` and `Compact` say how
often. `FilterIs` is about `filteredSCM.filter`, which moves the files that remain to the front of the array
it is reading. The place of a file is its index less the number of those before it that go (`Place`); places do not decrease, so that the
last file moved to a place is the one which stays (`SelectMoves`). `SortCompact` is that compacting
what was sorted leaves each path once: equal paths are neighbours then (`CompactAdds`). With these, each listing is `Sorted` of a set
(`WrappedIs`), and so is what a check is shown of it (`ShownIs`), and the `shac.star` found are in different directories (`OneEntry`).
`ChoiceInv` carries that through the stages: the source control is the one that the options ask for, `cachingSCM` only remembers
what it would get if it asked again (`MemoInv`), and `roots`, `chosen` and `shown` are functions of these.

### Scm

The listings are operators, so most of the work is first-order lemmas about them: which entries `git diff` has for a
path (`DiffEntries`, `DiffHas`), that every change is listed (`ListsChanges`), that what is listed is there
(`AffectedIsThere`, `AllIsThere`) and that `all_files()` has what `affected_files()` has (`AllHasAffected`). The state
machine adds the order of the commands and the failures: `LockInv` says who is in a listing,
`CallInv` what the list that is being put together contains so far, `MemoInv` and `AnswerInv` that a list that was
remembered or answered is right or the error behind it was given to some check, `LinesInv` that
whatever can be asked of `new_lines()` can be read while git works. That a wrong list is always explained by an
answer that somebody got is not inductive without the part on the list under way.

### Fix

Two facts about the algorithm hold for every text and every number of edits, hence by induction. It is
done over sets instead of predicates (`SetInduction`: a set of numbers with 0 and, with each number, the next one, has
all of them), since a theorem with an operator as its parameter cannot be used here. The first, `Join` undoes `Lines`
(`LinesProperties`), makes what Fix writes a matter of lines. For the second, that edits applied from the last to the first
make what they would make at once (`ResultIsPromised`), the invariant of the loop is: the lines up to
the end of the next edit are those of the file as it was, and the rest joins to what the edits behind make at once
(`AppliedSome`). Applying an edit keeps the first part since the
chosen ones are in order and share no line (`Ordered`), and that is also why no application can make another one unfit
(`ValidSpansNeverPanic`).

`Choice` is the invariant of the selection: each considered finding shares a line with a chosen one that
does not start after it, and none still to be considered starts before one that was chosen. `FindingsInv` says that the
collector holds exactly the findings with one replacement that were accepted, so that what `Rewrite` wants
done, computed from the calls, is what Fix finds. With these, `Write` is the step `Rewrite`, a write that fails is `Damage`, a file that is only printed is `Echo`, and choosing and applying stutter.
`OneNameNoOverlap` adds that a file is rewritten once (`FilesInv`).

### Only model-checked

* Liveness (`Termination`, `CloseEnds`, `NetworkDoesNotBlock`, `AllServed`, `StartupEnds`):
  fairness needs ENABLED, which the provers do not know.
* The properties of the runs that end in a violation, of course.

## 5. Differences between the code and what is said of it

The six runs that end in a violation quote the sentence they refute; see
"findings" in `PROJECT.json`. Others were met while modelling, and are modelled as
the code behaves, without a run of their own:

* `doc/stdlib.star:721-722` says that `fail()` in a check prevents checks that were
  not yet started from running. `errgroup.Go` does not look at the context:
  `StartCheck` has no such guard.
* `runtime_ctx_os.go:140-141` wants resources to be unused before they are cleaned
  up. A check that fails returns before the cleanup of its subprocesses
  (`run.go:882-894`), and `Run` removes their directories while they may run:
  `NormalRunLeavesNothing` is about runs in which all checks completed.
* `run.go:315-317` returns the error of `os.RemoveAll` when the checks passed: `Run` then fails although no Report was told of
  a failure. When they did not pass, the error is dropped, and directories may be left without a word.
* `reporting.go:359-360` returns the error of the last line only; those of the other writes of a highlight, and of a
  completion, are dropped (`Highlight`, `CompletionPrinted`).
* `resultdb.go:204-214` cuts a summary through the HTML of a finding, as `resultdb_test.go:99-149` has it: what ResultDB shows of a check
  with many findings is a first part of them.
* `run.go:493-494` gives each `shac.star` an interpreter of its own, but all share
  the sources: a library that registers a check does so once, for whoever loads it
  first. `RegisteredOnce` says exactly one.
* `run.go:249-250` promises that calls for one check name are sequential. Names are
  unique within one `shac.star` only; with `--recurse`, two checks may share a live
  result, against the contract at `reporting.go:36-39` and `resultdb.go:66-68`. `UploadedRight` is about checks
  whose name is theirs.
* `runtime_ctx_scm.go:495-496` expects the lock to be held while git runs; `newLines`
  runs it without (`NewLines` has no lock).
* `doc/stdlib.star:547` has `all_files()` return all files. A file removed from the
  index only is in `affected_files()` and not in `all_files()`: the exception in
  `AllComplete`.
* `doc/stdlib.star:574-576` excludes symbolic links. For tracked files, `all_files()`
  looks at the mode in the index: a file replaced by a link is listed.
* `runtime_ctx_emit.go:216` refuses an `end_col` before `col`, but only if `end_line` is
  given as well: otherwise (218-222) the span is accepted, and fixing it repeats the
  text between the two columns (`AllAtOnce` says so too).
* `run.go:80-82` calls the end of a span inclusive; `doc/stdlib.star:250-251` and `fix.go:139`
  have an exclusive column, as in `After`.
* `run.go:498-505` asks `shacFileDirs` of the SCM, so that named files do not
  need `git ls-files`. The SCM is a `cachingSCM` by then (`run.go:411`), which has no such
  method: the override is never asked, and discovery lists all files. `Discover` does that.
* `run.go:382` makes an `inMemoryFile` for `Stdin` with one file, in the `else` of a test that there are
  named files: it is never reached.
* `getSCM` compares the root with the root of the checkout, but `resolveRoot` has already made them equal.
* `config.go:138` and `pkg.go:174` support pending changes. `git fetch` is run in a directory that does not
  exist yet, and fails (`Fetch`). A version with a slash passes `Validate`, and `EscapeVersion` refuses it later.
* Packages whose url continues another one's are vendored in its directory, and hashed with it:
  its digest fails (`TreeOf`).
* An alias may equal the url of another dependency or `__main__`: only aliases are compared with aliases
  (`PackagesVerified` says what the names stand for then).
* The ignore patterns apply neither to named files nor to `all_files()` when files are named (`ChooseScm`).
* `EmitArtifact` returns "not implemented" on every console, so under `shac check` every
  `ctx.emit.artifact` fails its check (`NoArtifacts`).
* `reporting.go:331` silently ignores a misaligned end. A start column beyond the line, or an `end_col`
  before `col` without `end_line`, panics (`PrintPanics`); and for a file that does not end with a newline,
  the last line is not printed at all (`IsPrinted`).
* `runtime_ctx_scm.go:685` slices the output of `git ls-files` without looking whether
  there is any; the model has an empty list there.

## 6. Not modelled, and the plan

Left out for good: generated protobuf code, the documentation generator, the wording
and colours of output, flags, nsjail itself and the downloader: text or external
programs without state of their own; `ctx.io`, `ctx.re` and `ctx.vars`, which convert values. Left out of the modelled parts: how a `load()`
string becomes a source key, the parsing of git's output, the
text of new lines, the HTML of results, their status and failure reason, the values of tags and properties, what two checks
of one name leave of a result that both write to at the same moment, the construction of the sandbox configuration.
`RetrievePackages` also tests whether its two directories are directories (`pkg.go:99-107`): the root was resolved and the
temporary directory made just before, so these tests do not fail. The RWMutex of `execsupport` is left out: what it protects, a descriptor of
the nsjail executable that a fork inherits, is the kernel's state.

Next:

* `Sources`: how `load()` strings become source keys (`parseSourceKey`). A file that is reached under an alias and under its
   url has two keys and is executed twice; in `Loader`, a file stands for a key.

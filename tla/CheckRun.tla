------------------------------ MODULE CheckRun ------------------------------
(***************************************************************************)
(* The run phase: every registered check runs in a goroutine of an         *)
(* errgroup, and starts subprocesses that run in goroutines of their own   *)
(* under a semaphore (runInner, registeredCheck.call and Run in            *)
(* internal/engine/run.go, runtime_ctx_os.go, buffers.go, execsupport).    *)
(*                                                                         *)
(* What a check does is left open: it emits findings, starts subprocesses, *)
(* waits for them, and ends in one of the ways a Starlark callback can.    *)
(* The stdout and stderr buffers of a subprocess are taken and returned    *)
(* together and are modelled as one.  Checks are numbered in the order in  *)
(* which runInner hands them to the errgroup.                              *)
(***************************************************************************)
EXTENDS Naturals, Sequences, FiniteSets, SequencesExt

CONSTANTS
  Setups,       \* the runs to start from
  Buffer,       \* the buffers that may come to exist
  InitialPool,  \* those the pool is filled with
  NoBuffer

\* Finding levels; Nothing is the highestLevel of a check that emitted none.
Nothing == 0
Notice  == 1
Warning == 2
Error   == 3

\* A run: a bound on the subprocesses of each check that filtering left, the
\* limit of the errgroup and size of subprocessSem, the levels that checks
\* emit, and whether the caller may cancel the context of Run.
Setup == [maxProcs : Seq(Nat), maxConcurrency : Nat \ {0},
          levels : SUBSET {Notice, Warning, Error}, interruptible : BOOLEAN]

\* The checks of a run, and the subprocesses they may start.
ChecksOf(s) == DOMAIN s.maxProcs
ProcsOf(s)  == UNION {{c} \X (1..s.maxProcs[c]) : c \in ChecksOf(s)}

ASSUME CheckRunAssumption ==
  /\ Setups \subseteq Setup
  /\ InitialPool \subseteq Buffer
  /\ NoBuffer \notin Buffer

\* A new buffer can always be made: the pool does not limit the subprocesses.
ASSUME BufferAssumption ==
  IsFiniteSet(Buffer) => \A s \in Setups : Cardinality(ProcsOf(s)) <= Cardinality(Buffer)

\* How registeredCheck.call ends: fail(), another Starlark error, an error
\* that the cancelled context caused, a result that is not None, a subprocess
\* that was not waited for.
ErrKind == {"fail", "eval", "cancel", "notNone", "notWaited"}

VARIABLES
  setup,       \* where the run started
  pc,          \* where the goroutine of each check is
  target,      \* index of the subprocess that wait() or cleanup() handles
  kind,        \* what registeredCheck.call returns, or will return
  ret,         \* what the goroutine returns to the errgroup
  level,       \* registeredCheck.highestLevel
  emitted,     \* levels of the findings of a check
  completed,   \* Report.CheckCompleted: "no" before, else the error given
  nprocs,      \* len(registeredCheck.subprocesses)
  st,          \* where the goroutine of each subprocess is
  errs,        \* what it sent on subprocess.errs
  waitCalled,  \* subprocess.waitCalled
  cleaned,     \* cleanup() ran to its end
  tmp,         \* the temporary directory of the subprocess exists
  buf,         \* its buffers
  pool,        \* buffersImpl.b
  panicked,    \* buffersImpl.push panicked
  semCur, semWaiters,  \* semaphore.Weighted
  egErr,       \* errgroup.Group.err
  ctxDone,     \* the context of the errgroup is cancelled
  interrupted, \* ... by the caller of Run
  result       \* what runInner returned ("running" before), then Run

checkVars == <<target, kind, ret, level, emitted, completed>>
procVars  == <<nprocs, st, errs, waitCalled, cleaned, tmp, buf>>
poolVars  == <<pool, panicked>>
semVars   == <<semCur, semWaiters>>
runVars   == <<egErr, ctxDone, interrupted, result>>
vars == <<setup, pc, checkVars, procVars, poolVars, semVars, runVars>>

Check == ChecksOf(setup)
Proc  == ProcsOf(setup)

Init ==
  /\ setup \in Setups
  /\ pc = [c \in Check |-> "queued"]
  /\ target = [c \in Check |-> 0]
  /\ kind = [c \in Check |-> "none"]
  /\ ret = [c \in Check |-> "none"]
  /\ level = [c \in Check |-> Nothing]
  /\ emitted = [c \in Check |-> {}]
  /\ completed = [c \in Check |-> "no"]
  /\ nprocs = [c \in Check |-> 0]
  /\ st = [p \in Proc |-> "none"]
  /\ errs = [p \in Proc |-> "none"]
  /\ waitCalled = [p \in Proc |-> FALSE]
  /\ cleaned = [p \in Proc |-> FALSE]
  /\ tmp = [p \in Proc |-> FALSE]
  /\ buf = [p \in Proc |-> NoBuffer]
  /\ pool = InitialPool
  /\ panicked = FALSE
  /\ semCur = 0
  /\ semWaiters = <<>>
  /\ egErr = "none"
  /\ ctxDone = FALSE
  /\ interrupted = FALSE
  /\ result = "running"

-----------------------------------------------------------------------------
(* The goroutine of a check                                                *)

\* eg.Go blocks until the group has a slot; it does not look at the context.
StartCheck(c) ==
  /\ pc[c] = "queued"
  /\ \A d \in Check : d < c => pc[d] # "queued"
  /\ Cardinality({d \in Check : pc[d] \notin {"queued", "done"}}) < setup.maxConcurrency
  /\ pc' = [pc EXCEPT ![c] = "running"]
  /\ UNCHANGED <<setup, checkVars, procVars, poolVars, semVars, runVars>>

\* Mutant: any finding but a notice raises.
RaiseCareless(old, l) == IF old = Nothing \/ l > Notice THEN l ELSE old

\* The highestLevel after a finding of level l.
Raise(old, l) ==
  IF old = Nothing \/ l = Error \/ (l = Warning /\ old # Error) THEN l ELSE old

\* ctx.emit.finding(), whose callback into the Report succeeds.
Emit(c, l) ==
  /\ pc[c] = "running"
  /\ level' = [level EXCEPT ![c] = Raise(@, l)]
  /\ emitted' = [emitted EXCEPT ![c] = @ \cup {l}]
  /\ UNCHANGED <<setup, pc, target, kind, ret, completed, procVars, poolVars, semVars, runVars>>

\* The callback of the check ends with an error.
Raises(c, e) ==
  /\ pc' = [pc EXCEPT ![c] = "returned"]
  /\ kind' = [kind EXCEPT ![c] = e]

\* The file is not tracked, or the Report fails: highestLevel is already set.
EmitFails(c, l) ==
  /\ pc[c] = "running"
  /\ level' = [level EXCEPT ![c] = Raise(@, l)]
  /\ Raises(c, "eval")
  /\ UNCHANGED <<setup, target, ret, emitted, completed, procVars, poolVars, semVars, runVars>>

\* fail(), an evaluation error, or a result that is not None: call() returns
\* at once and leaves the subprocesses alone.
EndsBadly(c, e) ==
  /\ pc[c] = "running"
  /\ e \in {"fail", "eval", "notNone"}
  /\ Raises(c, e)
  /\ UNCHANGED <<setup, target, ret, level, emitted, completed, procVars, poolVars, semVars, runVars>>

\* Some buffer of the pool, or a new one when the pool is empty.
NewBuffer == CHOOSE b \in Buffer : b \notin {buf[q] : q \in Proc}

GetBuffer(p) ==
  \E b \in (IF pool = {} THEN {NewBuffer} ELSE pool) :
    /\ pool' = pool \ {b}
    /\ buf' = [buf EXCEPT ![p] = b]

\* ctx.os.exec(): the subprocess gets a directory and buffers, and its
\* goroutine is started.
Exec(c) ==
  LET p == <<c, nprocs[c] + 1>> IN
  /\ pc[c] = "running"
  /\ nprocs[c] < setup.maxProcs[c]
  /\ nprocs' = [nprocs EXCEPT ![c] = @ + 1]
  /\ st' = [st EXCEPT ![p] = "start"]
  /\ tmp' = [tmp EXCEPT ![p] = TRUE]
  /\ GetBuffer(p)
  /\ UNCHANGED <<setup, pc, checkVars, errs, waitCalled, cleaned, panicked, semVars, runVars>>

\* subprocess.wait() up to the receive from errs.
CallWait(c, i) ==
  LET p == <<c, i>> IN
  /\ pc[c] = "running"
  /\ i \in 1..nprocs[c]
  /\ ~waitCalled[p]
  /\ waitCalled' = [waitCalled EXCEPT ![p] = TRUE]
  /\ target' = [target EXCEPT ![c] = i]
  /\ pc' = [pc EXCEPT ![c] = "waiting"]
  /\ UNCHANGED <<setup, kind, ret, level, emitted, completed, nprocs, st, errs, cleaned, tmp, buf,
                 poolVars, semVars, runVars>>

\* "wait was already called".
WaitAgain(c, i) ==
  /\ pc[c] = "running"
  /\ i \in 1..nprocs[c]
  /\ waitCalled[<<c, i>>]
  /\ Raises(c, "eval")
  /\ UNCHANGED <<setup, target, ret, level, emitted, completed, procVars, poolVars, semVars, runVars>>

\* Mutant: cleanup() does not receive from errs.
CleanupEarly(p, removed) ==
  /\ tmp' = [tmp EXCEPT ![p] = ~removed]
  /\ pool' = pool \cup {buf[p]}
  /\ panicked' = (panicked \/ buf[p] \in pool)
  /\ cleaned' = [cleaned EXCEPT ![p] = TRUE]

\* subprocess.cleanup(), once errs is received from: the Kill branch is dead,
\* because a command that has sent its error has no running process.  Removing
\* the directory may fail; cleanup() goes on and returns the error.
Cleanup(p, removed) ==
  /\ st[p] = "finished"
  /\ tmp' = [tmp EXCEPT ![p] = ~removed]
  /\ pool' = pool \cup {buf[p]}
  /\ panicked' = (panicked \/ buf[p] \in pool)
  /\ cleaned' = [cleaned EXCEPT ![p] = TRUE]

\* The rest of wait(): the error of the subprocess is raised after cleanup, and
\* that of cleanup() when there is no other.
WaitReturns(c, removed) ==
  LET p == <<c, target[c]>> IN
  /\ pc[c] = "waiting"
  /\ Cleanup(p, removed)
  /\ IF errs[p] = "ok" /\ removed
       THEN pc' = [pc EXCEPT ![c] = "running"] /\ UNCHANGED kind
       ELSE Raises(c, IF errs[p] = "cancel" THEN "cancel" ELSE "eval")
  /\ UNCHANGED <<setup, target, ret, level, emitted, completed, nprocs, st, errs, waitCalled, buf,
                 semVars, runVars>>

\* Mutant: call() does not look at the subprocesses.
ReturnNoneUnchecked(c) ==
  /\ pc[c] = "running"
  /\ pc' = [pc EXCEPT ![c] = "returned"]
  /\ UNCHANGED <<setup, checkVars, procVars, poolVars, semVars, runVars>>

\* The callback returns None; call() goes through the subprocesses.
ReturnNone(c) ==
  /\ pc[c] = "running"
  /\ pc' = [pc EXCEPT ![c] = "cleanup"]
  /\ target' = [target EXCEPT ![c] = 1]
  /\ UNCHANGED <<setup, kind, ret, level, emitted, completed, procVars, poolVars, semVars, runVars>>

\* The next one, unless wait() was called; the error of cleanup() is dropped.
CleanupNext(c, removed) ==
  LET p == <<c, target[c]>> IN
  /\ pc[c] = "cleanup"
  /\ target[c] <= nprocs[c]
  /\ target' = [target EXCEPT ![c] = @ + 1]
  /\ IF waitCalled[p]
       THEN UNCHANGED <<kind, tmp, cleaned, poolVars>>
       ELSE Cleanup(p, removed) /\ kind' = [kind EXCEPT ![c] = "notWaited"]
  /\ UNCHANGED <<setup, pc, ret, level, emitted, completed, nprocs, st, errs, waitCalled, buf,
                 semVars, runVars>>

CleanupDone(c) ==
  /\ pc[c] = "cleanup"
  /\ target[c] > nprocs[c]
  /\ pc' = [pc EXCEPT ![c] = "returned"]
  /\ UNCHANGED <<setup, checkVars, procVars, poolVars, semVars, runVars>>

\* Mutant: every error is reported.
NeverSuppressed(c) == FALSE

\* An error is not reported when the context is cancelled.
Suppressed(c) == kind[c] # "none" /\ ctxDone

\* call() returned.
Report(c) ==
  /\ pc[c] = "returned"
  /\ pc' = [pc EXCEPT ![c] = "leaving"]
  /\ IF Suppressed(c)
       THEN ret' = [ret EXCEPT ![c] = "ctx"] /\ UNCHANGED completed
       ELSE /\ ret' = [ret EXCEPT ![c] = kind[c]]
            /\ completed' = [completed EXCEPT ![c] = kind[c]]
  /\ UNCHANGED <<setup, target, kind, level, emitted, procVars, poolVars, semVars, runVars>>

\* The goroutine returns: errgroup keeps the first error and cancels.
Leave(c) ==
  /\ pc[c] = "leaving"
  /\ pc' = [pc EXCEPT ![c] = "done"]
  /\ egErr' = IF egErr = "none" THEN ret[c] ELSE egErr
  /\ ctxDone' = (ctxDone \/ ret[c] # "none")
  /\ UNCHANGED <<setup, checkVars, procVars, poolVars, semVars, interrupted, result>>

-----------------------------------------------------------------------------
(* The goroutine of a subprocess                                           *)

\* notifyWaiters() after a token came back: the first waiter gets it.
ReleaseToken ==
  IF semWaiters = <<>>
    THEN semCur' = semCur - 1 /\ UNCHANGED semWaiters
    ELSE semWaiters' = Tail(semWaiters) /\ UNCHANGED semCur

Ready(p) == IF semWaiters = <<>> THEN [st EXCEPT ![p] = "finished"]
              ELSE [st EXCEPT ![p] = "finished", ![Head(semWaiters)] = "ready"]

\* The goroutine sends its error and closes errs.
Sends(p, e) == errs' = [errs EXCEPT ![p] = e]

procRest == <<setup, pc, checkVars, nprocs, waitCalled, cleaned, tmp, buf, poolVars, runVars>>

\* Mutant: Release is deferred before Acquire is called.
AcquireFailsReleases(p) ==
  /\ st[p] = "start"
  /\ ctxDone
  /\ ReleaseToken
  /\ st' = Ready(p)
  /\ Sends(p, "cancel")
  /\ UNCHANGED procRest

\* subprocessSem.Acquire().
AcquireFails(p) ==
  /\ st[p] = "start"
  /\ ctxDone
  /\ st' = [st EXCEPT ![p] = "finished"]
  /\ Sends(p, "cancel")
  /\ UNCHANGED <<semVars, procRest>>

AcquireNow(p) ==
  /\ st[p] = "start"
  /\ ~ctxDone
  /\ semCur < setup.maxConcurrency
  /\ semWaiters = <<>>
  /\ semCur' = semCur + 1
  /\ st' = [st EXCEPT ![p] = "acquired"]
  /\ UNCHANGED <<errs, semWaiters, procRest>>

AcquireLater(p) ==
  /\ st[p] = "start"
  /\ ~ctxDone
  /\ semCur >= setup.maxConcurrency \/ semWaiters # <<>>
  /\ semWaiters' = Append(semWaiters, p)
  /\ st' = [st EXCEPT ![p] = "queued"]
  /\ UNCHANGED <<errs, semCur, procRest>>

\* The context is done while the goroutine is in the queue.
AcquireCancelled(p) ==
  /\ st[p] = "queued"
  /\ ctxDone
  /\ \E i \in DOMAIN semWaiters :
       semWaiters[i] = p /\ semWaiters' = RemoveAt(semWaiters, i)
  /\ st' = [st EXCEPT ![p] = "finished"]
  /\ Sends(p, "cancel")
  /\ UNCHANGED <<semCur, procRest>>

\* The goroutine was given a token; it gives it back when the context is done.
Wake(p) ==
  /\ st[p] = "ready"
  /\ IF ctxDone
       THEN ReleaseToken /\ st' = Ready(p) /\ Sends(p, "cancel")
       ELSE st' = [st EXCEPT ![p] = "acquired"] /\ UNCHANGED <<errs, semVars>>
  /\ UNCHANGED procRest

\* cmd.Run() starts the process.
LaunchProc(p) ==
  /\ st[p] = "acquired"
  /\ ~ctxDone
  /\ st' = [st EXCEPT ![p] = "running"]
  /\ UNCHANGED <<errs, semVars, procRest>>

\* Mutants: the token is given back only by a process that ran, or only by
\* one that did not.
LaunchFailsLeaks(p) ==
  /\ st[p] = "acquired"
  /\ st' = [st EXCEPT ![p] = "finished"]
  /\ Sends(p, IF ctxDone THEN "cancel" ELSE "bad")
  /\ UNCHANGED <<semVars, procRest>>

ExitsLeaks(p, ok) ==
  /\ st[p] = "running"
  /\ st' = [st EXCEPT ![p] = "finished"]
  /\ Sends(p, IF ok THEN "ok" ELSE IF ctxDone THEN "cancel" ELSE "bad")
  /\ UNCHANGED <<semVars, procRest>>

\* It cannot be started, e.g. because the context is done.
LaunchFails(p) ==
  /\ st[p] = "acquired"
  /\ ReleaseToken
  /\ st' = Ready(p)
  /\ Sends(p, IF ctxDone THEN "cancel" ELSE "bad")
  /\ UNCHANGED procRest

\* The process exits by itself, with a status the check accepts or not;
\* execsupport.Run returns the error of the context instead of a failure.
Exits(p, ok) ==
  /\ st[p] = "running"
  /\ ReleaseToken
  /\ st' = Ready(p)
  /\ Sends(p, IF ok THEN "ok" ELSE IF ctxDone THEN "cancel" ELSE "bad")
  /\ UNCHANGED procRest

\* exec.CommandContext kills the process once the context is done.
Killed(p) ==
  /\ st[p] = "running"
  /\ ctxDone
  /\ ReleaseToken
  /\ st' = Ready(p)
  /\ Sends(p, "cancel")
  /\ UNCHANGED procRest

-----------------------------------------------------------------------------
(* Run                                                                     *)

\* SIGINT or SIGTERM: main cancels the context given to Run.
Interrupt ==
  /\ setup.interruptible
  /\ ~interrupted
  /\ result = "running"
  /\ interrupted' = TRUE
  /\ ctxDone' = TRUE
  /\ UNCHANGED <<setup, pc, checkVars, procVars, poolVars, semVars, egErr, result>>

Verdict == IF egErr # "none" THEN egErr
           ELSE IF \E c \in Check : level[c] = Error THEN "checkFailed" ELSE "ok"

\* Run removes its directory, and with it those of the subprocesses; on an error,
\* some are left, and the error is returned when there is no other.
RemoveAll(removed) ==
  /\ \E left \in SUBSET {p \in Proc : tmp[p]} :
       /\ removed => left = {}
       /\ tmp' = [p \in Proc |-> p \in left]
  /\ result' = IF Verdict = "ok" /\ ~removed THEN "notRemoved" ELSE Verdict

\* eg.Wait(), which cancels, and the verdict.
Finish ==
  /\ result = "running"
  /\ \A c \in Check : pc[c] = "done"
  /\ \E removed \in BOOLEAN : RemoveAll(removed)
  /\ ctxDone' = TRUE
  /\ UNCHANGED <<setup, pc, checkVars, nprocs, st, errs, waitCalled, cleaned, buf, poolVars, semVars,
                 egErr, interrupted>>

CallStep(c) ==
  \/ \E l \in setup.levels : Emit(c, l) \/ EmitFails(c, l)
  \/ \E e \in {"fail", "eval", "notNone"} : EndsBadly(c, e)
  \/ Exec(c)
  \/ \E i \in 1..setup.maxProcs[c] : CallWait(c, i) \/ WaitAgain(c, i)
  \/ \E removed \in BOOLEAN : WaitReturns(c, removed) \/ CleanupNext(c, removed)
  \/ ReturnNone(c) \/ CleanupDone(c)

CheckStep(c) == StartCheck(c) \/ CallStep(c) \/ Report(c) \/ Leave(c)

ProcStep(p) ==
  \/ AcquireFails(p) \/ AcquireNow(p) \/ AcquireLater(p) \/ AcquireCancelled(p) \/ Wake(p)
  \/ LaunchProc(p) \/ LaunchFails(p) \/ Killed(p)

EndsByItself(p) == \E ok \in BOOLEAN : Exits(p, ok)

\* Everything that Run started is over.
Over == result # "running" /\ (\A p \in Proc : st[p] \in {"none", "finished"}) /\ UNCHANGED vars

Next ==
  \/ \E c \in Check : CheckStep(c)
  \/ \E p \in Proc : ProcStep(p) \/ EndsByItself(p)
  \/ Interrupt
  \/ Finish
  \/ Over

Spec == Init /\ [][Next]_vars

AnyCheck == UNION {ChecksOf(s) : s \in Setups}
AnyProc  == UNION {ProcsOf(s) : s \in Setups}

\* Goroutines are scheduled and callbacks end; a process may run until it is
\* killed.  Nobody is obliged to interrupt the run.
StubbornSpec ==
  /\ Spec
  /\ \A c \in AnyCheck : WF_vars(c \in Check /\ CheckStep(c))
  /\ \A p \in AnyProc : WF_vars(p \in Proc /\ ProcStep(p))
  /\ WF_vars(Finish)

\* The same, and processes end by themselves.
FairSpec == StubbornSpec /\ \A p \in AnyProc : WF_vars(p \in Proc /\ EndsByItself(p))

-----------------------------------------------------------------------------
(* Properties                                                              *)

\* What Run returns when runInner had no error but ErrCheckFailed.
CleanResult == {"ok", "notRemoved", "checkFailed"}

\* The type invariant.
TypeOK ==
  /\ setup \in Setup
  /\ pc \in [Check -> {"queued", "running", "waiting", "cleanup", "returned", "leaving", "done"}]
  /\ target \in [Check -> Nat] /\ \A c \in Check : target[c] <= setup.maxProcs[c] + 1
  /\ kind \in [Check -> {"none"} \cup ErrKind]
  /\ ret \in [Check -> {"none", "ctx"} \cup ErrKind]
  /\ level \in [Check -> {Nothing} \cup setup.levels]
  /\ emitted \in [Check -> SUBSET setup.levels]
  /\ completed \in [Check -> {"no", "none"} \cup ErrKind]
  /\ nprocs \in [Check -> Nat] /\ \A c \in Check : nprocs[c] <= setup.maxProcs[c]
  /\ st \in [Proc -> {"none", "start", "queued", "ready", "acquired", "running", "finished"}]
  /\ errs \in [Proc -> {"none", "ok", "bad", "cancel"}]
  /\ waitCalled \in [Proc -> BOOLEAN]
  /\ cleaned \in [Proc -> BOOLEAN]
  /\ tmp \in [Proc -> BOOLEAN]
  /\ buf \in [Proc -> Buffer \cup {NoBuffer}]
  /\ pool \subseteq Buffer
  /\ panicked \in BOOLEAN
  /\ semCur \in 0..setup.maxConcurrency
  /\ semWaiters \in Seq(Proc)
  /\ egErr \in {"none", "ctx"} \cup ErrKind
  /\ ctxDone \in BOOLEAN
  /\ interrupted \in BOOLEAN
  /\ result \in {"running", "ctx"} \cup CleanResult \cup ErrKind

\* No check is reported as broken because of the cancellation that another
\* check's failure or the user caused, and the error of runInner that Run returns
\* is one that the Report was given, unless the caller cancelled the run: the user
\* is told which check failed and why, and of no other (run.go:608-616).  The error
\* that no Report gets, that of removing the directory (run.go:315), never takes
\* the place of a check's: it is returned only when all completed without one.
GenuineFailuresOnly ==
  /\ \A c \in Check : completed[c] # "cancel"
  /\ result \notin {"running"} \cup CleanResult /\ ~interrupted =>
       \E c \in Check : completed[c] = result
  /\ result = "notRemoved" =>
       \A c \in Check : completed[c] = "none" /\ Error \notin emitted[c]

\* The verdict: Run succeeds, or only fails to remove its directory, if no check
\* emitted an error, and fails with ErrCheckFailed only if one did; in all these
\* cases every check completed, and the Report was given the highest of the levels
\* it emitted (run.go:616, 624-631).
VerdictSound ==
  /\ result \in CleanResult =>
       /\ (result = "checkFailed") <=> (\E c \in Check : Error \in emitted[c])
       /\ \A c \in Check : completed[c] = "none"
  /\ \A c \in Check : completed[c] = "none" =>
       /\ level[c] \in emitted[c] \cup {Nothing}
       /\ \A l \in emitted[c] : l <= level[c]

\* No lost wake-up: while somebody queues for the semaphore, all its tokens
\* are with goroutines that will give them back.
TokensAccounted ==
  /\ semCur = Cardinality({p \in Proc : st[p] \in {"ready", "acquired", "running"}})
  /\ semWaiters # <<>> => semCur = setup.maxConcurrency
  /\ {semWaiters[i] : i \in DOMAIN semWaiters} = {p \in Proc : st[p] = "queued"}

\* A buffer belongs to the pool or to one subprocess whose output may still be
\* written or read, never to two; so push() never panics either.
BuffersExclusive ==
  LET inUse == {p \in Proc : st[p] # "none" /\ (st[p] = "finished" => ~cleaned[p])} IN
  /\ ~panicked
  /\ \A p \in inUse : buf[p] \notin pool
  /\ \A p, q \in inUse : p # q => buf[p] # buf[q]

\* A run whose checks all completed normally leaves nothing of a subprocess
\* behind: no process, no buffer, and no directory even when Run could not remove
\* its own, since a check that could not remove one fails (runtime_ctx_os.go:91,
\* run.go:890).
NormalRunLeavesNothing ==
  result \in CleanResult =>
    \A p \in Proc : /\ st[p] # "none" => st[p] = "finished" /\ cleaned[p] /\ buf[p] \in pool
                    /\ ~tmp[p]

\* Run returns, and all it started ends.
Termination == <>(result # "running" /\ \A p \in Proc : st[p] \in {"none", "finished"})

\* "Kill the process before doing any other cleanup steps"
\* (runtime_ctx_os.go:140): a check that returns without waiting for a
\* subprocess ends, even when that subprocess would run for ever.
CleanupEnds == \A c \in AnyCheck : (c \in Check /\ pc[c] = "cleanup") ~> pc[c] = "done"
=============================================================================

------------------------------- MODULE Loader -------------------------------
(***************************************************************************)
(* The parse phase of a run: one goroutine per shac.star file, each with a *)
(* Starlark thread of its own, loading source files through the shared     *)
(* starlarkEnv (internal/engine/env.go), under an errgroup                 *)
(* (internal/engine/run.go).                                               *)
(*                                                                         *)
(* e.mu is held for one map lookup and at most one insertion, and nothing  *)
(* blocks under it, so a critical section of e.mu is one action.  The      *)
(* mutex of a loaded source is held for as long as its file executes, and  *)
(* for the two reads of a later load() of it; it is modelled as state.     *)
(*                                                                         *)
(* A source tree is abstracted to the statements that matter to loading:   *)
(* load(), shac.register_check(), print() and a failing expression.  The   *)
(* frames of a thread's call stack are linked through "parent" (oldsk in   *)
(* loadInner): a source is executed at most once, so it has one parent.    *)
(***************************************************************************)
EXTENDS Naturals, Sequences, FiniteSets

CONSTANTS
  File,            \* source keys, as parsed by parseSourceKey
  Check,           \* names of checks
  Entry,           \* Entry[t] is the shac.star that the t-th goroutine parses
  Programs,        \* the source trees explored
  Missing,         \* sources whose package is unknown or whose file is absent
  MaxConcurrency,  \* limit of the errgroup
  NoThread, NoFile

Thread == DOMAIN Entry

LoadStmt     == [op : {"load"}, file : File]
RegisterStmt == [op : {"register"}, check : Check]
OtherStmt    == [op : {"print", "fail"}]
Stmt == LoadStmt \cup RegisterStmt \cup OtherStmt

ASSUME LoaderAssumption ==
  /\ Entry \in Seq(File)
  /\ Programs \subseteq [File -> Seq(Stmt)]
  /\ Missing \subseteq File
  /\ MaxConcurrency \in Nat \ {0}
  /\ NoThread \notin Thread
  /\ NoFile \notin File

\* Errors of a load or of a goroutine of the parse phase.
ErrKind == {"cycle", "notFound", "failed", "duplicate", "forgot"}

VARIABLES
  script,       \* the source tree; it never changes during a run
  owner,        \* loadedSource.th of each entry of e.sources, else NoThread
  mu,           \* the thread holding loadedSource.mu, else NoThread
  outcome,      \* "absent", "panic" (the preset err), "ok" or an error
  parent,       \* the source whose load() executes this one, else NoFile
  pos,          \* index of the current statement of a source
  pc,           \* where each goroutine is
  cur,          \* "shac.pkg" of a thread: the source it executes
  want,         \* the argument of the loadInner call under way
  err,          \* the error the goroutine propagates, at last its result
  checks,       \* shacState.checks, as names
  printCalled,  \* shacState.printCalled
  egErr,        \* errgroup.Group.err
  parsed        \* what eg.Wait() returned, "running" before

sourceVars == <<owner, mu, outcome, parent, pos>>
stateVars  == <<checks, printCalled>>
groupVars  == <<egErr, parsed>>
vars == <<script, sourceVars, pc, cur, want, err, stateVars, groupVars>>

Finished(f) == outcome[f] \notin {"absent", "panic"}

\* The sources on the call stack of thread t.
Frames(t) == {f \in File : owner[f] = t /\ outcome[f] = "panic"}

AtEnd(f) == pos[f] > Len(script[f])

Init ==
  /\ script \in Programs
  /\ owner = [f \in File |-> NoThread]
  /\ mu = [f \in File |-> NoThread]
  /\ outcome = [f \in File |-> "absent"]
  /\ parent = [f \in File |-> NoFile]
  /\ pos = [f \in File |-> 1]
  /\ pc = [t \in Thread |-> "queued"]
  /\ cur = [t \in Thread |-> NoFile]
  /\ want = [t \in Thread |-> Entry[t]]
  /\ err = [t \in Thread |-> "none"]
  /\ checks = [t \in Thread |-> <<>>]
  /\ printCalled = [t \in Thread |-> FALSE]
  /\ egErr = "none"
  /\ parsed = "running"

-----------------------------------------------------------------------------
(* loadInner                                                               *)

\* eg.Go: goroutines start in the order of shacStates, each when the group
\* has a free slot, and call shacState.parse, which calls starlarkEnv.load.
Launch(t) ==
  /\ pc[t] = "queued"
  /\ \A u \in Thread : u < t => pc[u] # "queued"
  /\ Cardinality({u \in Thread : pc[u] \notin {"queued", "done"}}) < MaxConcurrency
  /\ pc' = [pc EXCEPT ![t] = "enter"]
  /\ UNCHANGED <<script, sourceVars, cur, want, err, stateVars, groupVars>>

\* Mutants of LoadMiss: the entry is published before it is locked; a source
\* that failed is loaded again; two threads that miss a source both load it.
LoadMissUnlocked(t) ==
  /\ pc[t] = "enter" /\ owner[want[t]] = NoThread
  /\ owner' = [owner EXCEPT ![want[t]] = t]
  /\ outcome' = [outcome EXCEPT ![want[t]] = "panic"]
  /\ parent' = [parent EXCEPT ![want[t]] = cur[t]]
  /\ cur' = [cur EXCEPT ![t] = want[t]]
  /\ pc' = [pc EXCEPT ![t] = "exec"]
  /\ UNCHANGED <<script, mu, pos, want, err, stateVars, groupVars>>

Reload(t, states) ==
  /\ pc[t] = "enter" /\ outcome[want[t]] \in states
  /\ owner' = [owner EXCEPT ![want[t]] = t]
  /\ mu' = [mu EXCEPT ![want[t]] = t]
  /\ outcome' = [outcome EXCEPT ![want[t]] = "panic"]
  /\ parent' = [parent EXCEPT ![want[t]] = cur[t]]
  /\ pos' = [pos EXCEPT ![want[t]] = 1]
  /\ cur' = [cur EXCEPT ![t] = want[t]]
  /\ pc' = [pc EXCEPT ![t] = "exec"]
  /\ UNCHANGED <<script, want, err, stateVars, groupVars>>

LoadMissRetry(t) == Reload(t, {"absent"} \cup ErrKind)
LoadMissRace(t)  == Reload(t, {"absent", "panic"})

\* The source is not in e.sources: insert it locked, and become its master.
LoadMiss(t) ==
  LET f == want[t] IN
  /\ pc[t] = "enter"
  /\ owner[f] = NoThread
  /\ owner' = [owner EXCEPT ![f] = t]
  /\ mu' = [mu EXCEPT ![f] = t]
  /\ outcome' = [outcome EXCEPT ![f] = "panic"]
  /\ parent' = [parent EXCEPT ![f] = cur[t]]
  /\ cur' = [cur EXCEPT ![t] = f]
  /\ pc' = [pc EXCEPT ![t] = "exec"]
  /\ UNCHANGED <<script, pos, want, err, stateVars, groupVars>>

\* The source was loaded by this very thread and TryLock succeeds.
LoadAgain(t) ==
  LET f == want[t] IN
  /\ pc[t] = "enter"
  /\ owner[f] = t
  /\ mu[f] = NoThread
  /\ mu' = [mu EXCEPT ![f] = t]
  /\ pc' = [pc EXCEPT ![t] = "read"]
  /\ UNCHANGED <<script, owner, outcome, parent, pos, cur, want, err, stateVars, groupVars>>

\* Mutant: any second load is a cycle.
LoadCycleAny(t) ==
  /\ pc[t] = "enter" /\ owner[want[t]] = t
  /\ err' = [err EXCEPT ![t] = "cycle"]
  /\ pc' = [pc EXCEPT ![t] = "unwind"]
  /\ UNCHANGED <<script, sourceVars, cur, want, stateVars, groupVars>>

\* The source was loaded by this very thread and TryLock fails.
LoadCycle(t) ==
  LET f == want[t] IN
  /\ pc[t] = "enter"
  /\ owner[f] = t
  /\ mu[f] # NoThread
  /\ err' = [err EXCEPT ![t] = "cycle"]
  /\ pc' = [pc EXCEPT ![t] = "unwind"]
  /\ UNCHANGED <<script, sourceVars, cur, want, stateVars, groupVars>>

\* Another thread loads or has loaded the source: source.mu.Lock().
LoadOther(t) ==
  /\ pc[t] = "enter"
  /\ owner[want[t]] \notin {NoThread, t}
  /\ pc' = [pc EXCEPT ![t] = "wait"]
  /\ UNCHANGED <<script, sourceVars, cur, want, err, stateVars, groupVars>>

\* Mutant: the reader does not wait for the lock.
LockAcquiredEarly(t) ==
  /\ pc[t] = "wait"
  /\ pc' = [pc EXCEPT ![t] = "read"]
  /\ UNCHANGED <<script, sourceVars, cur, want, err, stateVars, groupVars>>

LockAcquired(t) ==
  LET f == want[t] IN
  /\ pc[t] = "wait"
  /\ mu[f] = NoThread
  /\ mu' = [mu EXCEPT ![f] = t]
  /\ pc' = [pc EXCEPT ![t] = "read"]
  /\ UNCHANGED <<script, owner, outcome, parent, pos, cur, want, err, stateVars, groupVars>>

\* Where thread t goes on when a call of loadInner made from source p returns.
After(p, failed) ==
  IF p = NoFile THEN "returned" ELSE IF failed THEN "unwind" ELSE "exec"

\* On success the interpreter steps over the load statement of p.
StepOver(p, failed) ==
  pos' = IF p = NoFile \/ failed THEN pos ELSE [pos EXCEPT ![p] = @ + 1]

\* Mutants: return source.globals, nil; load a source again until it succeeds.
LoadReturnNoError(t) ==
  /\ pc[t] = "read"
  /\ mu' = [mu EXCEPT ![want[t]] = NoThread]
  /\ pc' = [pc EXCEPT ![t] = After(cur[t], FALSE)]
  /\ StepOver(cur[t], FALSE)
  /\ UNCHANGED <<script, owner, outcome, parent, cur, want, err, stateVars, groupVars>>

LoadReturnRetries(t) ==
  /\ pc[t] = "read"
  /\ mu' = [mu EXCEPT ![want[t]] = NoThread]
  /\ pc' = [pc EXCEPT ![t] = IF outcome[want[t]] = "ok" THEN After(cur[t], FALSE) ELSE "enter"]
  /\ StepOver(cur[t], outcome[want[t]] # "ok")
  /\ UNCHANGED <<script, owner, outcome, parent, cur, want, err, stateVars, groupVars>>

\* return source.globals, source.err, then the deferred Unlock.
LoadReturn(t) ==
  LET f      == want[t]
      failed == outcome[f] # "ok"
  IN
  /\ pc[t] = "read"
  /\ mu' = [mu EXCEPT ![f] = NoThread]
  /\ err' = [err EXCEPT ![t] = IF failed THEN outcome[f] ELSE "none"]
  /\ pc' = [pc EXCEPT ![t] = After(cur[t], failed)]
  /\ StepOver(cur[t], failed)
  /\ UNCHANGED <<script, owner, outcome, parent, cur, want, stateVars, groupVars>>

-----------------------------------------------------------------------------
(* Execution of the source at the top of the stack                         *)

\* e.packages[sk.pkg] is nil, or Open fails.
OpenFails(t) ==
  /\ pc[t] = "exec"
  /\ cur[t] \in Missing
  /\ err' = [err EXCEPT ![t] = "notFound"]
  /\ pc' = [pc EXCEPT ![t] = "unwind"]
  /\ UNCHANGED <<script, sourceVars, cur, want, stateVars, groupVars>>

Executes(t, op) ==
  /\ pc[t] = "exec"
  /\ cur[t] \notin Missing
  /\ ~AtEnd(cur[t])
  /\ script[cur[t]][pos[cur[t]]].op = op

ExecLoad(t) ==
  /\ Executes(t, "load")
  /\ want' = [want EXCEPT ![t] = script[cur[t]][pos[cur[t]]].file]
  /\ pc' = [pc EXCEPT ![t] = "enter"]
  /\ UNCHANGED <<script, sourceVars, cur, err, stateVars, groupVars>>

\* shacRegisterCheck: the check goes to the state of the executing thread.
ExecRegister(t) ==
  LET f == cur[t]
      c == script[f][pos[f]].check
  IN
  /\ Executes(t, "register")
  /\ c \notin {checks[t][i] : i \in DOMAIN checks[t]}
  /\ checks' = [checks EXCEPT ![t] = Append(@, c)]
  /\ pos' = [pos EXCEPT ![f] = @ + 1]
  /\ UNCHANGED <<script, owner, mu, outcome, parent, pc, cur, want, err, printCalled, groupVars>>

ExecDuplicate(t) ==
  LET f == cur[t] IN
  /\ Executes(t, "register")
  /\ script[f][pos[f]].check \in {checks[t][i] : i \in DOMAIN checks[t]}
  /\ err' = [err EXCEPT ![t] = "duplicate"]
  /\ pc' = [pc EXCEPT ![t] = "unwind"]
  /\ UNCHANGED <<script, sourceVars, cur, want, stateVars, groupVars>>

ExecPrint(t) ==
  /\ Executes(t, "print")
  /\ printCalled' = [printCalled EXCEPT ![t] = TRUE]
  /\ pos' = [pos EXCEPT ![cur[t]] = @ + 1]
  /\ UNCHANGED <<script, owner, mu, outcome, parent, pc, cur, want, err, checks, groupVars>>

ExecFail(t) ==
  /\ Executes(t, "fail")
  /\ err' = [err EXCEPT ![t] = "failed"]
  /\ pc' = [pc EXCEPT ![t] = "unwind"]
  /\ UNCHANGED <<script, sourceVars, cur, want, stateVars, groupVars>>

\* Mutant: the deferred Unlock is missing.
PopFrameLocked(t, result) ==
  /\ outcome' = [outcome EXCEPT ![cur[t]] = result]
  /\ cur' = [cur EXCEPT ![t] = parent[cur[t]]]
  /\ pc' = [pc EXCEPT ![t] = After(parent[cur[t]], result # "ok")]
  /\ StepOver(parent[cur[t]], result # "ok")
  /\ UNCHANGED <<script, owner, mu, parent, want, err, stateVars, groupVars>>

\* loadInner of the source at the top returns: source.err is set, "shac.pkg"
\* goes back to oldsk, and the deferred Unlock runs.
PopFrame(t, result) ==
  LET f == cur[t]
      p == parent[f]
  IN
  /\ outcome' = [outcome EXCEPT ![f] = result]
  /\ mu' = [mu EXCEPT ![f] = NoThread]
  /\ cur' = [cur EXCEPT ![t] = p]
  /\ pc' = [pc EXCEPT ![t] = After(p, result # "ok")]
  /\ StepOver(p, result # "ok")
  /\ UNCHANGED <<script, owner, parent, want, err, stateVars, groupVars>>

FrameEnds(t) ==
  /\ pc[t] = "exec"
  /\ cur[t] \notin Missing
  /\ AtEnd(cur[t])
  /\ PopFrame(t, "ok")

FrameFails(t) ==
  /\ pc[t] = "unwind"
  /\ PopFrame(t, err[t])

-----------------------------------------------------------------------------
(* The errgroup                                                            *)

\* Mutant: the last result is kept, error or not.
ReturnKeepsLast(t) ==
  LET e == IF err[t] = "none" /\ checks[t] = <<>> /\ ~printCalled[t]
             THEN "forgot" ELSE err[t]
  IN
  /\ pc[t] = "returned"
  /\ err' = [err EXCEPT ![t] = e]
  /\ egErr' = e
  /\ pc' = [pc EXCEPT ![t] = "done"]
  /\ UNCHANGED <<script, sourceVars, cur, want, stateVars, parsed>>

\* The goroutine returns; errgroup keeps the first error.
Return(t) ==
  LET e == IF err[t] = "none" /\ checks[t] = <<>> /\ ~printCalled[t]
             THEN "forgot" ELSE err[t]
  IN
  /\ pc[t] = "returned"
  /\ err' = [err EXCEPT ![t] = e]
  /\ egErr' = IF egErr = "none" THEN e ELSE egErr
  /\ pc' = [pc EXCEPT ![t] = "done"]
  /\ UNCHANGED <<script, sourceVars, cur, want, stateVars, parsed>>

\* Mutant: the first error ends the wait.
WaitFirstError ==
  /\ parsed = "running"
  /\ egErr # "none" \/ \A t \in Thread : pc[t] = "done"
  /\ parsed' = IF egErr = "none" THEN "ok" ELSE egErr
  /\ UNCHANGED <<script, sourceVars, pc, cur, want, err, stateVars, egErr>>

\* eg.Wait() waits for every goroutine, whatever the error.
Wait ==
  /\ parsed = "running"
  /\ \A t \in Thread : pc[t] = "done"
  /\ parsed' = IF egErr = "none" THEN "ok" ELSE egErr
  /\ UNCHANGED <<script, sourceVars, pc, cur, want, err, stateVars, egErr>>

Load(t) == LoadMiss(t) \/ LoadAgain(t) \/ LoadCycle(t) \/ LoadOther(t)
             \/ LockAcquired(t) \/ LoadReturn(t)

Exec(t) == OpenFails(t) \/ ExecLoad(t) \/ ExecRegister(t) \/ ExecDuplicate(t)
             \/ ExecPrint(t) \/ ExecFail(t) \/ FrameEnds(t) \/ FrameFails(t)

Step(t) == Launch(t) \/ Load(t) \/ Exec(t) \/ Return(t)

\* The phase is over; without this step TLC would call it a deadlock.
Over == parsed # "running" /\ UNCHANGED vars

Next == (\E t \in Thread : Step(t)) \/ Wait \/ Over

Spec == Init /\ [][Next]_vars

\* Go schedules every runnable goroutine.  A load is done a bounded number of
\* times, so a waiter competes with finitely many holders and needs no more.
FairSpec == Spec /\ (\A t \in Thread : WF_vars(Step(t))) /\ WF_vars(Wait)

-----------------------------------------------------------------------------
(* The load graph of the source tree                                       *)

Statements(f) == {script[f][i] : i \in DOMAIN script[f]}

LoadedBy(f) == {s.file : s \in {x \in Statements(f) : x.op = "load"}}

\* A set is closed when it holds whatever its sources load.
Closed(S) == \A f \in S \cap File : LoadedBy(f) \subseteq S

\* Missing sources load nothing, whatever their script says.
Reach(f) == {g \in File : \A S \in SUBSET File : f \in S /\ Closed(S) => g \in S}

\* No nonempty set of sources in which each one loads another of the set.
Acyclic ==
  \A S \in SUBSET File : S # {} => \E f \in S : LoadedBy(f) \cap S = {}

-----------------------------------------------------------------------------
(* What loading promises                                                   *)

Has(f, op) == \E s \in Statements(f) : s.op = op

\* A source that cannot be opened loads nothing, whatever its script says.
OwnLoads(f) == IF f \in Missing THEN {} ELSE LoadedBy(f)

OwnErrors(f) ==
  IF f \in Missing THEN {"notFound"} ELSE
  {e \in ErrKind : \/ e = "cycle" /\ Has(f, "load")
                   \/ e = "duplicate" /\ Has(f, "register")
                   \/ e = "failed" /\ Has(f, "fail")}

ResultOf(f) == IF Finished(f) THEN outcome[f] ELSE "pending"

AnswerOf(t) ==
  IF pc[t] # "done" THEN "pending" ELSE IF err[t] = "none" THEN "ok" ELSE err[t]

Promise == INSTANCE Memo WITH
  Error <- ErrKind,
  loads <- [f \in File |-> OwnLoads(f)],
  own <- [f \in File |-> OwnErrors(f)],
  fails <- {f \in File : f \in Missing \/ Has(f, "fail")},
  result <- [f \in File |-> ResultOf(f)],
  answer <- [t \in Thread |-> AnswerOf(t)],
  verdict <- parsed

-----------------------------------------------------------------------------
(* Properties                                                              *)

\* The type invariant.
TypeOK ==
  /\ script \in Programs
  /\ owner \in [File -> Thread \cup {NoThread}]
  /\ mu \in [File -> Thread \cup {NoThread}]
  /\ outcome \in [File -> {"absent", "panic", "ok"} \cup ErrKind]
  /\ parent \in [File -> File \cup {NoFile}]
  /\ pos \in [File -> Nat \ {0}]
  /\ pc \in [Thread -> {"queued", "enter", "wait", "read", "exec", "unwind", "returned", "done"}]
  /\ cur \in [Thread -> File \cup {NoFile}]
  /\ want \in [Thread -> File]
  /\ err \in [Thread -> {"none"} \cup ErrKind]
  /\ checks \in [Thread -> Seq(Check)]
  /\ printCalled \in [Thread -> BOOLEAN]
  /\ egErr \in {"none"} \cup ErrKind
  /\ parsed \in {"running", "ok"} \cup ErrKind

\* A load() never observes the "panic while loading" placeholder that a source
\* carries while it executes: source.mu makes the reader wait for its master.
NoUnfinishedRead ==
  \A t \in Thread : pc[t] = "read" => Finished(want[t])

\* All load()s of a source agree: what it evaluated to is settled once, and
\* no thread starts it again (the master election under e.mu).
OutcomeFinal ==
  [][\A f \in File : Finished(f) => outcome'[f] = outcome[f]]_vars

\* Loading implements Memo: to the shac.star files, the concurrent evaluation
\* under two kinds of locks (env.go:157-242) looks like a table of results, each
\* settled once; errors are told apart on their way through load() and threads,
\* and eg.Wait() returns the failure of a shac.star, unless all succeeded.
KeepsPromise == Promise!Spec

\* No failing source is swallowed: a source loads successfully only if
\* everything it loads did, and a goroutine succeeds only if its shac.star
\* and thus all it reaches did.
LoadedClosure ==
  /\ \A f \in File : outcome[f] = "ok" =>
       \A g \in LoadedBy(f) : outcome[g] = "ok"
  /\ \A t \in Thread : pc[t] = "done" /\ err[t] = "none" => outcome[Entry[t]] = "ok"

\* Threads never wait for each other's sources in a circle.
NoWaitCycle ==
  ~ \E S \in (SUBSET Thread) \ {{}} :
      \A t \in S : pc[t] = "wait" /\ mu[want[t]] \in S

\* On a source tree without cycles the concurrent loads never deadlock.
AcyclicNoWaitCycle == Acyclic => NoWaitCycle

\* The "loaded in a cycle dependency graph" error is raised only when the
\* failing thread's shac.star does reach a cycle.
CycleErrorSound ==
  \A t \in Thread : err[t] = "cycle" =>
    \E f \in Reach(Entry[t]) : \E g \in LoadedBy(f) : f \in Reach(g)

\* A source on a cycle is never loaded successfully, however the threads that
\* reach it are interleaved; and a shac.star that shares no source with another
\* one gets the cycle error only when it does reach a cycle (env.go:160-172).
CycleVerdict ==
  /\ \A f \in File : outcome[f] = "ok" => \A g \in LoadedBy(f) : f \notin Reach(g)
  /\ CycleErrorSound \/ \E t, u \in Thread : t # u /\ Reach(Entry[t]) \cap Reach(Entry[u]) # {}

\* A check is identified with the source that registers it: the functions of
\* two sources are two checks, though both may be called alike.
ChecksAreOwn ==
  \A tree \in Programs : \A f, g \in File :
    \A i \in DOMAIN tree[f], j \in DOMAIN tree[g] :
      /\ tree[f][i].op = "register" /\ tree[g][j].op = "register"
      /\ tree[f][i].check = tree[g][j].check
      => f = g

\* The checks registered by t.
CheckSet(t) == {checks[t][i] : i \in DOMAIN checks[t]}

\* A check belongs to one state, so that it runs once: when the phase succeeds,
\* whatever a reached source registers was registered, in exactly one of the
\* states, however the shac.star that share the source raced for it.
RegisteredOnce ==
  /\ \A t, u \in Thread : t # u => CheckSet(t) \cap CheckSet(u) = {}
  /\ parsed = "ok" =>
       \A t \in Thread : \A f \in Reach(Entry[t]) : \A s \in Statements(f) :
         s.op = "register" => \E u \in Thread : s.check \in CheckSet(u)

\* "Checks are executed [...] after all Starlark code is loaded and not
\* mutated" (run.go): once eg.Wait() returned, error or not, no goroutine of
\* the parse phase adds a check, prints or runs a source any more.
FrozenAfterParse ==
  [][parsed # "running" => UNCHANGED <<checks, printCalled, outcome, mu>>]_vars

\* The parse phase ends unless shac.star files load each other: eg.Wait()
\* returns whatever fails.
Termination == Acyclic => <>(parsed # "running")
=============================================================================

---------------------------- MODULE LoaderProofs ----------------------------
(***************************************************************************)
(* Proofs about Loader, for any number of shac.star files and any source   *)
(* tree.  The argument rests on the discipline of the call stacks: the     *)
(* sources a thread executes form one chain from its shac.star to "cur",   *)
(* linked by "parent", and a thread holds the mutex of each source of its  *)
(* chain and of at most one more, which it reads.                          *)
(***************************************************************************)
EXTENDS Loader, TLAPS

-----------------------------------------------------------------------------
(* Statements                                                              *)

LEMMA LoadHasFile == ASSUME NEW s \in Stmt, s.op = "load" PROVE s.file \in File
BY DEF Stmt, LoadStmt, RegisterStmt, OtherStmt

LEMMA RegisterHasCheck == ASSUME NEW s \in Stmt, s.op = "register" PROVE s.check \in Check
BY DEF Stmt, LoadStmt, RegisterStmt, OtherStmt

\* The statement a thread executes is a statement.
LEMMA ExecutesStmt ==
  ASSUME TypeOK, NEW t \in Thread, NEW op, Executes(t, op), cur[t] \in File
  PROVE  script[cur[t]][pos[cur[t]]] \in Stmt
<1>. DEFINE f == cur[t]
<1>1. script \in [File -> Seq(Stmt)]
  BY LoaderAssumption DEF TypeOK
<1>2. script[f] \in Seq(Stmt)
  BY <1>1
<1>3. pos[f] \in Nat \ {0} /\ ~(pos[f] > Len(script[f]))
  BY DEF TypeOK, Executes, AtEnd
<1>. QED BY <1>2, <1>3

-----------------------------------------------------------------------------
(* Types                                                                   *)

\* Where a thread is in relation to its stack; needed for types, because a
\* thread that executes or unwinds has a source to do it in.
ControlInv ==
  \A t \in Thread :
    /\ pc[t] \in {"exec", "unwind"} => cur[t] # NoFile
    /\ pc[t] \in {"queued", "returned", "done"} => cur[t] = NoFile
    /\ pc[t] = "unwind" => err[t] \in ErrKind
    /\ pc[t] \in {"queued", "enter", "wait", "read", "exec"} => err[t] = "none"
    /\ pc[t] \in {"queued", "enter", "wait", "read"} /\ cur[t] = NoFile =>
         \A f \in File : owner[f] # t

\* Threads, sources and their locks.
StackInv ==
  /\ \A f \in File : owner[f] = NoThread <=> outcome[f] = "absent"
  /\ \A t \in Thread : cur[t] # NoFile => owner[cur[t]] = t /\ outcome[cur[t]] = "panic"
  /\ \A f \in File : outcome[f] = "panic" =>
       /\ parent[f] # cur[owner[f]]
       /\ parent[f] # NoFile =>
            owner[parent[f]] = owner[f] /\ outcome[parent[f]] = "panic"
  /\ \A f, g \in File :
       outcome[f] = "panic" /\ outcome[g] = "panic" /\ owner[f] = owner[g] /\ f # g
         => parent[f] # parent[g]

LockInv ==
  /\ \A f \in File : outcome[f] = "panic" => mu[f] = owner[f]
  /\ \A f \in File : mu[f] # NoThread =>
       \/ outcome[f] = "panic" /\ owner[f] = mu[f]
       \/ pc[mu[f]] = "read" /\ want[mu[f]] = f
  /\ \A t \in Thread : pc[t] = "read" => mu[want[t]] = t /\ Finished(want[t])
  /\ \A t \in Thread : pc[t] = "wait" => owner[want[t]] # NoThread

CoreInv == TypeOK /\ ControlInv /\ StackInv /\ LockInv

LEMMA InitCore == Init => CoreInv
BY SMTT(30), LoaderAssumption DEF Init, CoreInv, TypeOK, ControlInv, StackInv, LockInv, Thread, Finished

LEMMA LaunchCore == ASSUME CoreInv, NEW t \in Thread, Launch(t) PROVE CoreInv'
<1>. USE LoaderAssumption DEF CoreInv, Launch, sourceVars, stateVars, groupVars
<1>1. TypeOK' BY DEF TypeOK
<1>2. ControlInv' BY DEF TypeOK, ControlInv
<1>3. StackInv' BY DEF TypeOK, StackInv
<1>4. LockInv' BY DEF TypeOK, LockInv, Finished
<1>. QED BY <1>1, <1>2, <1>3, <1>4

LEMMA LoadMissCore == ASSUME CoreInv, NEW t \in Thread, LoadMiss(t) PROVE CoreInv'
<1>. USE LoaderAssumption DEF CoreInv, LoadMiss, stateVars, groupVars
<1>1. TypeOK' BY DEF TypeOK
<1>2. ControlInv' BY DEF TypeOK, ControlInv
<1>3. StackInv' BY DEF TypeOK, StackInv, ControlInv
<1>4. LockInv' BY DEF TypeOK, LockInv, StackInv, Finished
<1>. QED BY <1>1, <1>2, <1>3, <1>4

LEMMA LoadAgainCore == ASSUME CoreInv, NEW t \in Thread, LoadAgain(t) PROVE CoreInv'
<1>. USE LoaderAssumption DEF CoreInv, LoadAgain, stateVars, groupVars
<1>1. TypeOK' BY DEF TypeOK
<1>2. ControlInv' BY DEF TypeOK, ControlInv
<1>3. StackInv' BY DEF TypeOK, StackInv
<1>4. LockInv' BY DEF TypeOK, LockInv, StackInv, Finished
<1>. QED BY <1>1, <1>2, <1>3, <1>4

LEMMA LoadCycleCore == ASSUME CoreInv, NEW t \in Thread, LoadCycle(t) PROVE CoreInv'
<1>. USE LoaderAssumption DEF CoreInv, LoadCycle, sourceVars, stateVars, groupVars
<1>1. TypeOK' BY DEF TypeOK, ErrKind
<1>2. ControlInv' BY DEF TypeOK, ControlInv, ErrKind
<1>3. StackInv' BY DEF TypeOK, StackInv
<1>4. LockInv' BY DEF TypeOK, LockInv, StackInv, Finished
<1>. QED BY <1>1, <1>2, <1>3, <1>4

LEMMA LoadOtherCore == ASSUME CoreInv, NEW t \in Thread, LoadOther(t) PROVE CoreInv'
<1>. USE LoaderAssumption DEF CoreInv, LoadOther, sourceVars, stateVars, groupVars
<1>1. TypeOK' BY DEF TypeOK
<1>2. ControlInv' BY DEF TypeOK, ControlInv
<1>3. StackInv' BY DEF TypeOK, StackInv
<1>4. LockInv' BY DEF TypeOK, LockInv, Finished
<1>. QED BY <1>1, <1>2, <1>3, <1>4

LEMMA LockAcquiredCore == ASSUME CoreInv, NEW t \in Thread, LockAcquired(t) PROVE CoreInv'
<1>. USE LoaderAssumption DEF CoreInv, LockAcquired, stateVars, groupVars
<1>1. TypeOK' BY DEF TypeOK
<1>2. ControlInv' BY DEF TypeOK, ControlInv
<1>3. StackInv' BY DEF TypeOK, StackInv
<1>4. LockInv' BY DEF TypeOK, LockInv, StackInv, Finished
<1>. QED BY <1>1, <1>2, <1>3, <1>4

LEMMA LoadReturnCore == ASSUME CoreInv, NEW t \in Thread, LoadReturn(t) PROVE CoreInv'
<1>. USE LoaderAssumption DEF CoreInv, LoadReturn, stateVars, groupVars, After, StepOver
<1>1. TypeOK' BY DEF TypeOK, LockInv, Finished
<1>2. ControlInv' BY DEF TypeOK, ControlInv, LockInv, Finished
<1>3. StackInv' BY DEF TypeOK, StackInv
<1>4. LockInv' BY DEF TypeOK, LockInv, StackInv, Finished
<1>. QED BY <1>1, <1>2, <1>3, <1>4

LEMMA OpenFailsCore == ASSUME CoreInv, NEW t \in Thread, OpenFails(t) PROVE CoreInv'
<1>. USE LoaderAssumption DEF CoreInv, OpenFails, Executes, sourceVars, stateVars, groupVars
<1>1. TypeOK' BY DEF TypeOK, ErrKind
<1>2. ControlInv' BY DEF TypeOK, ControlInv, ErrKind
<1>3. StackInv' BY DEF TypeOK, StackInv
<1>4. LockInv' BY DEF TypeOK, LockInv, Finished
<1>. QED BY <1>1, <1>2, <1>3, <1>4

LEMMA ExecLoadCore == ASSUME CoreInv, NEW t \in Thread, ExecLoad(t) PROVE CoreInv'
<1>. USE LoaderAssumption DEF CoreInv, sourceVars, stateVars, groupVars
<1>0. want'[t] \in File
  <2>1. Executes(t, "load") /\ cur[t] \in File
    BY DEF ExecLoad, Executes, TypeOK, ControlInv
  <2>2. script[cur[t]][pos[cur[t]]] \in Stmt /\ script[cur[t]][pos[cur[t]]].op = "load"
    BY <2>1, ExecutesStmt DEF Executes
  <2>. QED BY <2>2, LoadHasFile DEF ExecLoad, TypeOK
<1>1. TypeOK' BY <1>0 DEF TypeOK, ExecLoad
<1>2. ControlInv' BY DEF TypeOK, ControlInv, ExecLoad, Executes
<1>3. StackInv' BY DEF TypeOK, StackInv, ExecLoad
<1>4. LockInv' BY DEF TypeOK, LockInv, Finished, ExecLoad, Executes
<1>. QED BY <1>1, <1>2, <1>3, <1>4

LEMMA ExecRegisterCore == ASSUME CoreInv, NEW t \in Thread, ExecRegister(t) PROVE CoreInv'
<1>. USE LoaderAssumption DEF CoreInv, groupVars
<1>0. script[cur[t]][pos[cur[t]]].check \in Check
  <2>1. Executes(t, "register") /\ cur[t] \in File
    BY DEF ExecRegister, Executes, TypeOK, ControlInv
  <2>2. script[cur[t]][pos[cur[t]]] \in Stmt /\ script[cur[t]][pos[cur[t]]].op = "register"
    BY <2>1, ExecutesStmt DEF Executes
  <2>. QED BY <2>2, RegisterHasCheck
<1>1. TypeOK' BY <1>0 DEF TypeOK, ControlInv, ExecRegister, Executes
<1>2. ControlInv' BY DEF TypeOK, ControlInv, ExecRegister
<1>3. StackInv' BY DEF TypeOK, StackInv, ExecRegister
<1>4. LockInv' BY DEF TypeOK, LockInv, Finished, ExecRegister
<1>. QED BY <1>1, <1>2, <1>3, <1>4

LEMMA ExecDuplicateCore == ASSUME CoreInv, NEW t \in Thread, ExecDuplicate(t) PROVE CoreInv'
<1>. USE LoaderAssumption DEF CoreInv, ExecDuplicate, Executes, sourceVars, stateVars, groupVars
<1>1. TypeOK' BY DEF TypeOK, ErrKind
<1>2. ControlInv' BY DEF TypeOK, ControlInv, ErrKind
<1>3. StackInv' BY DEF TypeOK, StackInv
<1>4. LockInv' BY DEF TypeOK, LockInv, Finished
<1>. QED BY <1>1, <1>2, <1>3, <1>4

LEMMA ExecPrintCore == ASSUME CoreInv, NEW t \in Thread, ExecPrint(t) PROVE CoreInv'
<1>. USE LoaderAssumption DEF CoreInv, ExecPrint, Executes, stateVars, groupVars
<1>1. TypeOK' BY DEF TypeOK, ControlInv
<1>2. ControlInv' BY DEF TypeOK, ControlInv
<1>3. StackInv' BY DEF TypeOK, StackInv
<1>4. LockInv' BY DEF TypeOK, LockInv, Finished
<1>. QED BY <1>1, <1>2, <1>3, <1>4

LEMMA ExecFailCore == ASSUME CoreInv, NEW t \in Thread, ExecFail(t) PROVE CoreInv'
<1>. USE LoaderAssumption DEF CoreInv, ExecFail, Executes, sourceVars, stateVars, groupVars
<1>1. TypeOK' BY DEF TypeOK, ErrKind
<1>2. ControlInv' BY DEF TypeOK, ControlInv, ErrKind
<1>3. StackInv' BY DEF TypeOK, StackInv
<1>4. LockInv' BY DEF TypeOK, LockInv, Finished
<1>. QED BY <1>1, <1>2, <1>3, <1>4

\* The one step that changes the shape of a stack downwards.
LEMMA PopFrameCore ==
  ASSUME CoreInv, NEW t \in Thread, NEW result \in {"ok"} \cup ErrKind,
         PopFrame(t, result), pc[t] \in {"exec", "unwind"},
         pc[t] = "exec" => result = "ok", pc[t] = "unwind" => result = err[t]
  PROVE  CoreInv'
<1>. USE LoaderAssumption DEF CoreInv, PopFrame, stateVars, groupVars, After, StepOver
<1>0. result \notin {"absent", "panic", "none"}
  BY DEF ErrKind
<1>1. TypeOK' BY <1>0 DEF TypeOK, ControlInv
<1>2. ControlInv' BY <1>0 DEF TypeOK, ControlInv, ErrKind
<1>3. StackInv' BY <1>0 DEF TypeOK, StackInv, ControlInv
<1>4. LockInv' BY <1>0 DEF TypeOK, LockInv, StackInv, ControlInv, Finished
<1>. QED BY <1>1, <1>2, <1>3, <1>4

LEMMA FrameEndsCore == ASSUME CoreInv, NEW t \in Thread, FrameEnds(t) PROVE CoreInv'
BY PopFrameCore DEF FrameEnds

LEMMA FrameFailsCore == ASSUME CoreInv, NEW t \in Thread, FrameFails(t) PROVE CoreInv'
BY PopFrameCore DEF FrameFails, CoreInv, ControlInv

LEMMA ReturnCore == ASSUME CoreInv, NEW t \in Thread, Return(t) PROVE CoreInv'
<1>. USE LoaderAssumption DEF CoreInv, Return, sourceVars, stateVars
<1>1. TypeOK' BY DEF TypeOK, ErrKind
<1>2. ControlInv' BY DEF TypeOK, ControlInv, ErrKind
<1>3. StackInv' BY DEF TypeOK, StackInv
<1>4. LockInv' BY DEF TypeOK, LockInv, Finished
<1>. QED BY <1>1, <1>2, <1>3, <1>4

LEMMA WaitCore == ASSUME CoreInv, Wait PROVE CoreInv'
<1>. USE LoaderAssumption DEF CoreInv, Wait, sourceVars, stateVars
<1>1. TypeOK' BY DEF TypeOK
<1>2. ControlInv' BY DEF TypeOK, ControlInv
<1>3. StackInv' BY DEF TypeOK, StackInv
<1>4. LockInv' BY DEF TypeOK, LockInv, Finished
<1>. QED BY <1>1, <1>2, <1>3, <1>4

LEMMA StutterCore == ASSUME CoreInv, UNCHANGED vars PROVE CoreInv'
BY DEF CoreInv, TypeOK, ControlInv, StackInv, LockInv, Finished, vars, sourceVars, stateVars, groupVars

LEMMA NextCore == CoreInv /\ [Next]_vars => CoreInv'
<1>. SUFFICES ASSUME CoreInv, [Next]_vars PROVE CoreInv'
  OBVIOUS
<1>1. ASSUME NEW t \in Thread, Load(t) PROVE CoreInv'
  BY <1>1, LoadMissCore, LoadAgainCore, LoadCycleCore, LoadOtherCore, LockAcquiredCore,
     LoadReturnCore DEF Load
<1>2. ASSUME NEW t \in Thread, Exec(t) PROVE CoreInv'
  BY <1>2, OpenFailsCore, ExecLoadCore, ExecRegisterCore, ExecDuplicateCore, ExecPrintCore,
     ExecFailCore, FrameEndsCore, FrameFailsCore DEF Exec
<1>3. ASSUME NEW t \in Thread, Step(t) PROVE CoreInv'
  BY <1>1, <1>2, <1>3, LaunchCore, ReturnCore DEF Step
<1>. QED BY <1>3, WaitCore, StutterCore DEF Next, Over

\* The types, the stacks and the locks are consistent in every reachable state.
THEOREM CoreInvariance == Spec => []CoreInv
BY InitCore, NextCore, PTL DEF Spec

\* Every variable of the parse phase keeps its type: in particular a goroutine
\* never waits for, or unwinds to, a source that does not exist.
THEOREM TypeCorrect == Spec => []TypeOK
<1>1. CoreInv => TypeOK BY DEF CoreInv
<1>. QED BY <1>1, CoreInvariance, PTL

\* No load() ever sees the placeholder of a source that still executes.
THEOREM NoUnfinishedReadHolds == Spec => []NoUnfinishedRead
<1>1. CoreInv => NoUnfinishedRead BY DEF CoreInv, LockInv, NoUnfinishedRead
<1>. QED BY <1>1, CoreInvariance, PTL

-----------------------------------------------------------------------------
(* What a source evaluated to is final                                     *)

\* A source changes outcome only when it is inserted (it was absent) and when
\* its frame is popped (it was executing).
LEMMA SettledStays ==
  ASSUME CoreInv, [Next]_vars, NEW f \in File, Finished(f)
  PROVE  outcome'[f] = outcome[f]
<1>. USE DEF Finished
<1>1. ASSUME NEW t \in Thread, LoadMiss(t) PROVE outcome'[f] = outcome[f]
  BY <1>1 DEF LoadMiss, CoreInv, StackInv, TypeOK
<1>2. ASSUME NEW t \in Thread, NEW r, PopFrame(t, r), pc[t] \in {"exec", "unwind"}
      PROVE  outcome'[f] = outcome[f]
  BY <1>2 DEF PopFrame, CoreInv, StackInv, ControlInv, TypeOK
<1>3. ASSUME NEW t \in Thread, Step(t) PROVE outcome'[f] = outcome[f]
  BY <1>1, <1>2, <1>3 DEF Step, Load, Exec, Launch, LoadAgain, LoadCycle, LoadOther, LockAcquired,
     LoadReturn, OpenFails, ExecLoad, ExecRegister, ExecDuplicate, ExecPrint, ExecFail,
     FrameEnds, FrameFails, Return, sourceVars
<1>4. CASE Wait
  BY <1>4 DEF Wait, sourceVars
<1>5. CASE UNCHANGED vars
  BY <1>5 DEF vars, sourceVars
<1>. QED BY <1>3, <1>4, <1>5 DEF Next, Over

\* What a source evaluated to is never replaced, nor is it evaluated again.
THEOREM OutcomeFinalHolds == Spec => OutcomeFinal
<1>. DEFINE Settled == \A f \in File : Finished(f) => outcome'[f] = outcome[f]
<1>1. ASSUME CoreInv, [Next]_vars PROVE [Settled]_vars
  BY <1>1, SettledStays
<1>. QED BY <1>1, CoreInvariance, PTL DEF Spec, OutcomeFinal

-----------------------------------------------------------------------------
(* Acyclic source trees do not deadlock                                    *)

\* Source p is stopped at a statement that loads g.
AtLoad(p, g) ==
  /\ ~AtEnd(p)
  /\ script[p][pos[p]].op = "load"
  /\ script[p][pos[p]].file = g

\* Each source on a stack but the top one is the parent of another one, and
\* is stopped at the statement that loads it; the top one is stopped at the
\* statement whose load is under way.
ChainInv ==
  /\ \A f \in File : outcome[f] = "panic" /\ f # cur[owner[f]] =>
       \E g \in Frames(owner[f]) : parent[g] = f
  /\ \A g \in File : outcome[g] = "panic" /\ parent[g] # NoFile => AtLoad(parent[g], g)
  /\ \A t \in Thread : pc[t] \in {"enter", "wait", "read"} /\ cur[t] # NoFile =>
       AtLoad(cur[t], want[t])

LEMMA InitChain == Init => ChainInv
BY LoaderAssumption DEF Init, ChainInv

\* Steps that move no source and leave every stack as it is.
LEMMA StillChain ==
  ASSUME CoreInv, ChainInv, UNCHANGED <<script, owner, outcome, parent, pos, cur>>,
         \A u \in Thread : pc'[u] \in {"enter", "wait", "read"} /\ cur[u] # NoFile =>
           \/ pc[u] \in {"enter", "wait", "read"} /\ want'[u] = want[u]
           \/ AtLoad(cur[u], want'[u])
  PROVE  ChainInv'
BY DEF ChainInv, AtLoad, AtEnd, Frames, CoreInv, TypeOK

LEMMA LoadMissChain ==
  ASSUME CoreInv, ChainInv, NEW t \in Thread, LoadMiss(t) PROVE ChainInv'
<1>. USE DEF CoreInv, TypeOK
<1>. DEFINE f == want[t]
<1>0. /\ f \in File /\ outcome[f] = "absent" /\ f # NoFile
      /\ outcome' = [outcome EXCEPT ![f] = "panic"] /\ owner' = [owner EXCEPT ![f] = t]
      /\ parent' = [parent EXCEPT ![f] = cur[t]] /\ cur' = [cur EXCEPT ![t] = f]
      /\ script' = script /\ pos' = pos /\ want' = want /\ pc' = [pc EXCEPT ![t] = "exec"]
  BY LoaderAssumption DEF LoadMiss, StackInv
<1>1. ASSUME NEW h \in File, outcome'[h] = "panic", h # cur'[owner'[h]]
      PROVE  \E g \in Frames(owner[h])' : parent'[g] = h
  <2>1. h # f /\ outcome[h] = "panic" /\ owner'[h] = owner[h] /\ owner[h] \in Thread
    BY <1>0, <1>1 DEF StackInv
  <2>2. CASE h = cur[owner[h]]
    <3>1. owner[h] = t /\ cur[t] = h
      BY <1>0, <1>1, <2>1, <2>2
    <3>. QED BY <1>0, <2>1, <3>1 DEF Frames
  <2>3. CASE h # cur[owner[h]]
    <3>1. PICK g \in Frames(owner[h]) : parent[g] = h
      BY <2>1, <2>3 DEF ChainInv
    <3>. QED BY <1>0, <2>1, <3>1 DEF Frames
  <2>. QED BY <2>2, <2>3
<1>2. ASSUME NEW g \in File, outcome'[g] = "panic", parent'[g] # NoFile
      PROVE  AtLoad(parent[g], g)'
  BY <1>0, <1>2, LoaderAssumption DEF ChainInv, AtLoad, AtEnd, LoadMiss
<1>3. ASSUME NEW u \in Thread, pc'[u] \in {"enter", "wait", "read"}, cur'[u] # NoFile
      PROVE  AtLoad(cur[u], want[u])'
  BY <1>0, <1>3 DEF ChainInv, AtLoad, AtEnd
<1>. QED BY <1>1, <1>2, <1>3 DEF ChainInv

\* The source at the top of the stack of t steps over its current statement;
\* nobody else depends on where it is.
LEMMA AdvanceChain ==
  ASSUME CoreInv, ChainInv, NEW t \in Thread, cur[t] \in File,
         UNCHANGED <<script, owner, outcome, parent, cur, want>>,
         pos' = [pos EXCEPT ![cur[t]] = @ + 1],
         pc'[t] = "exec", \A u \in Thread \ {t} : pc'[u] = pc[u]
  PROVE  ChainInv'
<1>. USE DEF CoreInv, TypeOK
<1>1. \A h \in File : outcome'[h] = "panic" /\ h # cur'[owner'[h]] =>
        \E g \in Frames(owner[h])' : parent'[g] = h
  BY DEF ChainInv, Frames
<1>2. ASSUME NEW g \in File, outcome'[g] = "panic", parent'[g] # NoFile
      PROVE  AtLoad(parent[g], g)'
  <2>1. parent[g] # cur[t]
    BY <1>2 DEF StackInv
  <2>2. parent[g] \in File
    BY <1>2
  <2>. QED BY <1>2, <2>1, <2>2 DEF ChainInv, AtLoad, AtEnd
<1>3. ASSUME NEW u \in Thread, pc'[u] \in {"enter", "wait", "read"}, cur'[u] # NoFile
      PROVE  AtLoad(cur[u], want[u])'
  <2>1. u # t /\ cur[u] # cur[t] /\ cur[u] \in File
    BY <1>3 DEF StackInv
  <2>. QED BY <1>3, <2>1 DEF ChainInv, AtLoad, AtEnd
<1>. QED BY <1>1, <1>2, <1>3 DEF ChainInv

LEMMA LoadReturnChain ==
  ASSUME CoreInv, ChainInv, NEW t \in Thread, LoadReturn(t) PROVE ChainInv'
<1>1. CASE cur[t] # NoFile /\ outcome[want[t]] = "ok"
  <2>1. cur[t] \in File /\ pc'[t] = "exec" /\ pos' = [pos EXCEPT ![cur[t]] = @ + 1]
        /\ \A u \in Thread \ {t} : pc'[u] = pc[u]
    BY <1>1 DEF LoadReturn, After, StepOver, CoreInv, TypeOK
  <2>. QED BY <2>1, AdvanceChain DEF LoadReturn
<1>2. CASE ~(cur[t] # NoFile /\ outcome[want[t]] = "ok")
  <2>1. pos' = pos /\ pc'[t] \notin {"enter", "wait", "read"}
        /\ \A u \in Thread \ {t} : pc'[u] = pc[u]
    BY <1>2 DEF LoadReturn, After, StepOver, CoreInv, TypeOK
  <2>. QED BY <2>1, StillChain DEF LoadReturn
<1>. QED BY <1>1, <1>2

LEMMA PopFrameChain ==
  ASSUME CoreInv, ChainInv, NEW t \in Thread, NEW result \in {"ok"} \cup ErrKind,
         PopFrame(t, result), pc[t] \in {"exec", "unwind"}
  PROVE  ChainInv'
<1>. USE DEF CoreInv, TypeOK
<1>. DEFINE f == cur[t]
            p == parent[f]
<1>a. f \in File /\ owner[f] = t /\ outcome[f] = "panic"
  BY DEF ControlInv, StackInv
<1>b. /\ result # "panic"
      /\ outcome' = [outcome EXCEPT ![f] = result] /\ cur' = [cur EXCEPT ![t] = p]
      /\ script' = script /\ owner' = owner /\ parent' = parent /\ want' = want
      /\ pc'[t] \notin {"enter", "wait", "read"} /\ \A u \in Thread \ {t} : pc'[u] = pc[u]
  BY DEF PopFrame, After, ErrKind
<1>0. f # p /\ (p # NoFile => p \in File /\ owner[p] = t /\ outcome[p] = "panic")
  BY <1>a DEF StackInv
<1>. HIDE DEF f, p
<1>c. f = cur[t] /\ p = parent[f]
  BY DEF f, p
<1>1. ASSUME NEW h \in File, outcome'[h] = "panic", h # cur'[owner'[h]]
      PROVE  \E g \in Frames(owner[h])' : parent'[g] = h
  <2>1. h # f /\ outcome[h] = "panic" /\ owner'[h] = owner[h]
    BY <1>0, <1>a, <1>b, <1>c, <1>1
  <2>2. h # cur[owner[h]]
    <3>1. owner[h] \in Thread
      BY <2>1 DEF StackInv
    <3>2. CASE owner[h] = t
      BY <1>c, <2>1, <3>2
    <3>3. CASE owner[h] # t
      BY <1>1, <1>b, <2>1, <3>1, <3>3
    <3>. QED BY <3>2, <3>3
  <2>3. PICK g \in Frames(owner[h]) : parent[g] = h
    BY <2>1, <2>2 DEF ChainInv
  <2>4. g # f
    BY <1>0, <1>a, <1>b, <1>c, <1>1, <2>1, <2>3 DEF Frames
  <2>. QED BY <1>0, <1>a, <1>b, <1>c, <2>1, <2>3, <2>4 DEF Frames
<1>2. ASSUME NEW g \in File, outcome'[g] = "panic", parent'[g] # NoFile
      PROVE  AtLoad(parent[g], g)'
  <2>1. g # f /\ outcome[g] = "panic" /\ parent[g] \in File
    BY <1>0, <1>a, <1>b, <1>c, <1>2
  <2>2. parent[g] # p
    BY LoaderAssumption, <1>0, <1>a, <1>b, <1>c, <2>1 DEF StackInv
  <2>3. pos'[parent[g]] = pos[parent[g]]
    BY <1>c, <2>1, <2>2 DEF PopFrame, StepOver
  <2>. QED BY LoaderAssumption, <1>0, <1>a, <1>b, <1>c, <1>2, <2>1, <2>3 DEF ChainInv, AtLoad, AtEnd
<1>3. ASSUME NEW u \in Thread, pc'[u] \in {"enter", "wait", "read"}, cur'[u] # NoFile
      PROVE  AtLoad(cur[u], want[u])'
  <2>1. u # t /\ cur'[u] = cur[u] /\ cur[u] \in File /\ cur[u] # p /\ pc'[u] = pc[u]
    BY <1>0, <1>a, <1>b, <1>c, <1>3 DEF StackInv
  <2>2. pos'[cur[u]] = pos[cur[u]]
    BY <1>c, <2>1 DEF PopFrame, StepOver
  <2>. QED BY <1>0, <1>a, <1>b, <1>c, <1>3, <2>1, <2>2 DEF ChainInv, AtLoad, AtEnd
<1>. QED BY <1>1, <1>2, <1>3 DEF ChainInv

LEMMA NextChain == CoreInv /\ ChainInv /\ [Next]_vars => ChainInv'
<1>. SUFFICES ASSUME CoreInv, ChainInv, [Next]_vars PROVE ChainInv'
  OBVIOUS
<1>. USE DEF sourceVars, stateVars, groupVars
<1>1. ASSUME NEW t \in Thread, \/ LoadAgain(t) \/ LoadCycle(t) \/ LoadOther(t) \/ LockAcquired(t)
                               \/ OpenFails(t) \/ ExecDuplicate(t) \/ ExecFail(t) \/ Return(t)
      PROVE  ChainInv'
  BY <1>1, StillChain DEF LoadAgain, LoadCycle, LoadOther, LockAcquired, OpenFails, ExecDuplicate,
     ExecFail, Return, CoreInv, TypeOK
<1>2. ASSUME NEW t \in Thread, Launch(t) PROVE ChainInv'
  BY <1>2, StillChain DEF Launch, CoreInv, TypeOK, ControlInv
<1>3. ASSUME NEW t \in Thread, ExecLoad(t) PROVE ChainInv'
  <2>1. AtLoad(cur[t], want'[t])
    BY <1>3 DEF ExecLoad, Executes, AtLoad, CoreInv, TypeOK
  <2>. QED BY <1>3, <2>1, StillChain DEF ExecLoad, CoreInv, TypeOK
<1>4. ASSUME NEW t \in Thread, ExecRegister(t) \/ ExecPrint(t) PROVE ChainInv'
  <2>1. cur[t] \in File
    BY <1>4 DEF ExecRegister, ExecPrint, Executes, CoreInv, TypeOK, ControlInv
  <2>. QED BY <1>4, <2>1, AdvanceChain DEF ExecRegister, ExecPrint, Executes
<1>5. ASSUME NEW t \in Thread, FrameEnds(t) \/ FrameFails(t) PROVE ChainInv'
  BY <1>5, PopFrameChain DEF FrameEnds, FrameFails, CoreInv, ControlInv
<1>6. ASSUME NEW t \in Thread, Step(t) PROVE ChainInv'
  BY <1>1, <1>2, <1>3, <1>4, <1>5, <1>6, LoadMissChain, LoadReturnChain DEF Step, Load, Exec
<1>7. CASE Wait
  BY <1>7, StillChain DEF Wait
<1>8. CASE UNCHANGED vars
  BY <1>8, StillChain DEF vars
<1>. QED BY <1>6, <1>7, <1>8 DEF Next, Over

\* A source stopped at a load() of g is one of those that load g.
LEMMA AtLoadLoads ==
  ASSUME TypeOK, NEW p \in File, NEW g, AtLoad(p, g)
  PROVE  g \in LoadedBy(p)
<1>1. script \in [File -> Seq(Stmt)] /\ pos[p] \in Nat \ {0}
  BY LoaderAssumption DEF TypeOK
<1>2. pos[p] \in DOMAIN script[p]
  BY <1>1 DEF AtLoad, AtEnd
<1>. QED BY <1>2 DEF AtLoad, LoadedBy, Statements

\* Threads that wait in a circle hold sources of which each one loads another
\* one: the next source of its own stack or, at the top, the source awaited.
LEMMA WaitCycleIsLoadCycle == CoreInv /\ ChainInv => AcyclicNoWaitCycle
<1>. SUFFICES ASSUME CoreInv, ChainInv, Acyclic,
                     NEW S \in (SUBSET Thread) \ {{}},
                     \A t \in S : pc[t] = "wait" /\ mu[want[t]] \in S
              PROVE  FALSE
  BY DEF AcyclicNoWaitCycle, NoWaitCycle
<1>. USE DEF CoreInv, TypeOK
<1>. DEFINE Held == {f \in File : outcome[f] = "panic" /\ owner[f] \in S}
<1>1. ASSUME NEW t \in S PROVE want[t] \in Held
  <2>1. want[t] \in File /\ mu[want[t]] \in S /\ mu[want[t]] # NoThread
    BY LoaderAssumption
  <2>2. pc[mu[want[t]]] = "wait"
    BY <2>1
  <2>. QED BY <2>1, <2>2 DEF LockInv
<1>2. Held # {}
  <2>1. PICK t : t \in S
    OBVIOUS
  <2>. QED BY <1>1, <2>1
<1>3. PICK f \in Held : LoadedBy(f) \cap Held = {}
  BY <1>2 DEF Acyclic
<1>4. CASE f = cur[owner[f]]
  <2>1. f # NoFile /\ owner[f] \in S /\ owner[f] \in Thread
    BY LoaderAssumption
  <2>2. AtLoad(f, want[owner[f]])
    BY <1>4, <2>1 DEF ChainInv
  <2>3. want[owner[f]] \in LoadedBy(f)
    BY <2>2, AtLoadLoads
  <2>4. want[owner[f]] \in Held
    BY <1>1, <2>1
  <2>. QED BY <1>3, <2>3, <2>4
<1>5. CASE f # cur[owner[f]]
  <2>1. PICK g \in Frames(owner[f]) : parent[g] = f
    BY <1>5 DEF ChainInv
  <2>2. g \in Held /\ AtLoad(f, g)
    BY <2>1, LoaderAssumption DEF Frames, ChainInv
  <2>3. g \in LoadedBy(f)
    BY <2>2, AtLoadLoads
  <2>. QED BY <1>3, <2>2, <2>3
<1>. QED BY <1>4, <1>5

\* Whatever the number of shac.star files and threads, loads never deadlock on
\* a source tree without load cycles.
THEOREM AcyclicTreesDoNotDeadlock == Spec => []AcyclicNoWaitCycle
<1>1. Spec => []ChainInv
  BY InitChain, NextChain, CoreInvariance, PTL DEF Spec
<1>. QED BY <1>1, CoreInvariance, WaitCycleIsLoadCycle, PTL

-----------------------------------------------------------------------------
(* No failing source is swallowed                                          *)

\* What source p has loaded before its current statement.
Before(p) == {g \in File : \E i \in DOMAIN script[p] :
                i < pos[p] /\ script[p][i].op = "load" /\ script[p][i].file = g}

\* A source gets past a load() only when it succeeded, and a goroutine ends
\* without error only when its shac.star did.
ClosureInv ==
  /\ \A f \in File : outcome[f] = "absent" => pos[f] = 1
  /\ \A f \in File : outcome[f] = "panic" => \A g \in Before(f) : outcome[g] = "ok"
  /\ \A f \in File : outcome[f] = "ok" => \A g \in LoadedBy(f) : outcome[g] = "ok"
  /\ \A t \in Thread : pc[t] \in {"queued", "enter", "wait", "read"} /\ cur[t] = NoFile =>
       want[t] = Entry[t]
  /\ \A f \in File : outcome[f] = "panic" /\ parent[f] = NoFile => f = Entry[owner[f]]
  /\ \A t \in Thread : pc[t] \in {"returned", "done"} /\ err[t] = "none" =>
       outcome[Entry[t]] = "ok"

LEMMA InitClosure == Init => ClosureInv
BY LoaderAssumption DEF Init, ClosureInv

\* Steps that move no source.
LEMMA StillClosure ==
  ASSUME CoreInv, ClosureInv, UNCHANGED <<script, owner, outcome, parent, pos, cur>>,
         \A u \in Thread :
           /\ pc'[u] \in {"queued", "enter", "wait", "read"} /\ cur[u] = NoFile =>
                pc[u] \in {"queued", "enter", "wait", "read"} /\ want'[u] = want[u]
           /\ pc'[u] \in {"returned", "done"} /\ err'[u] = "none" =>
                pc[u] \in {"returned", "done"} /\ err[u] = "none"
  PROVE  ClosureInv'
BY DEF ClosureInv, Before, LoadedBy, Statements, CoreInv, TypeOK

\* A source p steps over a statement that is not a load, or a load that
\* succeeded.
LEMMA AdvanceBefore ==
  ASSUME TypeOK, ClosureInv, NEW p \in File, outcome[p] = "panic",
         UNCHANGED script, pos' = [pos EXCEPT ![p] = @ + 1],
         \A g \in File : outcome[g] = "ok" => outcome'[g] = "ok",
         \A g \in File : AtLoad(p, g) => outcome'[g] = "ok"
  PROVE  \A g \in Before(p)' : outcome'[g] = "ok"
<1>. SUFFICES ASSUME NEW g \in File, NEW i \in DOMAIN script[p],
                     i < pos[p] + 1, script[p][i].op = "load", script[p][i].file = g
              PROVE  outcome'[g] = "ok"
  BY DEF Before, TypeOK
<1>1. script[p] \in Seq(Stmt) /\ pos[p] \in Nat \ {0}
  BY LoaderAssumption DEF TypeOK
<1>2. i \in Nat /\ i \in 1..Len(script[p])
  BY <1>1
<1>3. CASE i < pos[p]
  BY <1>3 DEF ClosureInv, Before
<1>4. CASE i = pos[p]
  BY <1>1, <1>2, <1>4 DEF AtLoad, AtEnd
<1>. QED BY <1>1, <1>2, <1>3, <1>4

LEMMA AdvanceClosure ==
  ASSUME CoreInv, ClosureInv, NEW t \in Thread, cur[t] \in File,
         UNCHANGED <<script, owner, outcome, parent, cur, want, err>>,
         pos' = [pos EXCEPT ![cur[t]] = @ + 1],
         \A g \in File : AtLoad(cur[t], g) => outcome[g] = "ok",
         pc'[t] = "exec", \A u \in Thread \ {t} : pc'[u] = pc[u]
  PROVE  ClosureInv'
<1>. USE DEF CoreInv, TypeOK
<1>1. outcome[cur[t]] = "panic"
  BY LoaderAssumption DEF StackInv
<1>2. \A g \in Before(cur[t])' : outcome'[g] = "ok"
  BY <1>1, AdvanceBefore
<1>3. ASSUME NEW f \in File, f # cur[t] PROVE pos'[f] = pos[f] /\ Before(f)' = Before(f)
  BY <1>3 DEF Before
<1>4. \A f \in File : LoadedBy(f)' = LoadedBy(f)
  BY DEF LoadedBy, Statements
<1>5. \A f \in File : outcome[f] = "absent" => pos'[f] = 1
  BY <1>1, <1>3 DEF ClosureInv
<1>6. ASSUME NEW f \in File, outcome[f] = "panic" PROVE \A g \in Before(f)' : outcome[g] = "ok"
  <2>1. CASE f = cur[t]
    BY <1>2, <2>1
  <2>2. CASE f # cur[t]
    BY <1>3, <1>6, <2>2 DEF ClosureInv
  <2>. QED BY <2>1, <2>2
<1>7. \A u \in Thread : pc'[u] \in {"queued", "enter", "wait", "read", "returned", "done"} =>
        pc'[u] = pc[u]
  OBVIOUS
<1>. QED BY <1>4, <1>5, <1>6, <1>7 DEF ClosureInv

LEMMA LoadMissClosure ==
  ASSUME CoreInv, ClosureInv, NEW t \in Thread, LoadMiss(t) PROVE ClosureInv'
<1>. USE DEF CoreInv, TypeOK
<1>1. want[t] \in File /\ outcome[want[t]] = "absent" /\ pos[want[t]] = 1
  BY DEF LoadMiss, StackInv, ClosureInv
<1>2. ASSUME NEW f \in File PROVE Before(f)' = Before(f) /\ LoadedBy(f)' = LoadedBy(f)
  BY DEF LoadMiss, Before, LoadedBy, Statements
<1>3. Before(want[t]) = {}
  <2>1. DOMAIN script[want[t]] \subseteq Nat \ {0}
    BY <1>1, LoaderAssumption
  <2>. QED BY <1>1, <2>1 DEF Before
<1>4. ASSUME NEW f \in File PROVE
        /\ outcome'[f] = "panic" => f = want[t] \/ outcome[f] = "panic"
        /\ outcome'[f] = "ok" <=> outcome[f] = "ok"
        /\ outcome'[f] = "absent" => outcome[f] = "absent"
  BY <1>1 DEF LoadMiss
<1>5. \A f \in File : Before(f) \subseteq File /\ LoadedBy(f) \subseteq File
  <2>1. ASSUME NEW f \in File PROVE Statements(f) \subseteq Stmt
    <3>1. script[f] \in Seq(Stmt)
      BY LoaderAssumption
    <3>. QED BY <3>1 DEF Statements
  <2>. QED BY <2>1, LoadHasFile DEF Before, LoadedBy
<1>6. ASSUME NEW f \in File, outcome'[f] = "panic" PROVE \A g \in Before(f)' : outcome'[g] = "ok"
  <2>1. CASE f = want[t]
    BY <1>2, <1>3, <2>1
  <2>2. CASE f # want[t]
    <3>1. outcome[f] = "panic" /\ Before(f)' = Before(f)
      BY <1>2, <1>4, <1>6, <2>2
    <3>2. \A g \in Before(f) : g \in File /\ outcome[g] = "ok"
      BY <1>5, <3>1 DEF ClosureInv
    <3>. QED BY <1>4, <3>1, <3>2
  <2>. QED BY <2>1, <2>2
<1>7. \A f \in File : outcome'[f] = "ok" => \A g \in LoadedBy(f)' : outcome'[g] = "ok"
  BY <1>2, <1>4, <1>5 DEF ClosureInv
<1>8. \A f \in File : outcome'[f] = "panic" /\ parent'[f] = NoFile => f = Entry[owner'[f]]
  BY <1>1 DEF ClosureInv, LoadMiss
<1>9. \A f \in File : outcome'[f] = "absent" => pos'[f] = 1
  BY <1>4 DEF ClosureInv, LoadMiss
<1>10. \A u \in Thread : pc'[u] \in {"queued", "enter", "wait", "read"} /\ cur'[u] = NoFile =>
         want'[u] = Entry[u]
  BY <1>1, LoaderAssumption DEF ClosureInv, LoadMiss
<1>11. \A u \in Thread : pc'[u] \in {"returned", "done"} /\ err'[u] = "none" =>
         outcome'[Entry[u]] = "ok"
  <2>1. \A u \in Thread : Entry[u] \in File
    BY LoaderAssumption DEF Thread
  <2>. QED BY <1>4, <2>1 DEF ClosureInv, LoadMiss
<1>. QED BY <1>6, <1>7, <1>8, <1>9, <1>10, <1>11 DEF ClosureInv

LEMMA LoadReturnClosure ==
  ASSUME CoreInv, ChainInv, ClosureInv, NEW t \in Thread, LoadReturn(t) PROVE ClosureInv'
<1>. DEFINE ok == outcome[want[t]] = "ok"
<1>0. err[t] = "none" /\ "none" \notin ErrKind /\ want[t] \in File /\ pc[t] = "read"
  BY DEF LoadReturn, CoreInv, ControlInv, TypeOK, ErrKind
<1>1. CASE cur[t] # NoFile /\ ok
  <2>1. /\ cur[t] \in File /\ pc'[t] = "exec" /\ pos' = [pos EXCEPT ![cur[t]] = @ + 1] /\ err' = err
        /\ \A u \in Thread \ {t} : pc'[u] = pc[u]
    BY <1>0, <1>1 DEF LoadReturn, After, StepOver, CoreInv, TypeOK
  <2>2. \A g \in File : AtLoad(cur[t], g) => outcome[g] = "ok"
    BY <1>0, <1>1 DEF ChainInv, AtLoad
  <2>. QED BY <2>1, <2>2, AdvanceClosure DEF LoadReturn
<1>2. CASE cur[t] = NoFile /\ ok
  <2>1. outcome[Entry[t]] = "ok"
    BY <1>0, <1>2 DEF ClosureInv
  <2>. QED BY <1>0, <1>2, <2>1 DEF LoadReturn, After, StepOver, CoreInv, TypeOK, ClosureInv,
                Before, LoadedBy, Statements
<1>3. CASE ~ok
  <2>1. err'[t] # "none"
    BY <1>0, <1>3 DEF LoadReturn, CoreInv, TypeOK, LockInv, Finished
  <2>. QED BY <1>0, <1>3, <2>1, StillClosure DEF LoadReturn, After, StepOver, CoreInv, TypeOK
<1>. QED BY <1>1, <1>2, <1>3

\* What a source that reaches its end has loaded is all it loads.
LEMMA BeforeAtEnd ==
  ASSUME TypeOK, NEW f \in File, AtEnd(f) PROVE LoadedBy(f) \subseteq Before(f)
<1>1. script[f] \in Seq(Stmt) /\ pos[f] \in Nat
  BY LoaderAssumption DEF TypeOK
<1>2. ASSUME NEW i \in DOMAIN script[f], script[f][i].op = "load"
      PROVE  script[f][i].file \in Before(f)
  <2>1. i \in 1..Len(script[f]) /\ script[f][i] \in Stmt
    BY <1>1
  <2>2. i < pos[f]
    BY <1>1, <2>1 DEF AtEnd
  <2>. QED BY <1>2, <2>1, <2>2, LoadHasFile DEF Before
<1>. QED BY <1>2 DEF LoadedBy, Statements

LEMMA FrameEndsClosure ==
  ASSUME CoreInv, ChainInv, ClosureInv, NEW t \in Thread, FrameEnds(t) PROVE ClosureInv'
<1>. USE DEF CoreInv, TypeOK
<1>. DEFINE f == cur[t]
            q == parent[f]
<1>1. /\ f \in File /\ owner[f] = t /\ outcome[f] = "panic" /\ err[t] = "none" /\ AtEnd(f)
      /\ outcome' = [outcome EXCEPT ![f] = "ok"] /\ cur' = [cur EXCEPT ![t] = q]
      /\ pc' = [pc EXCEPT ![t] = IF q = NoFile THEN "returned" ELSE "exec"]
      /\ pos' = IF q = NoFile THEN pos ELSE [pos EXCEPT ![q] = @ + 1]
      /\ UNCHANGED <<script, owner, parent, want, err>>
  BY DEF FrameEnds, PopFrame, After, StepOver, ControlInv, StackInv
<1>2. q # f /\ (q # NoFile => q \in File /\ outcome[q] = "panic")
  BY <1>1 DEF StackInv
<1>. HIDE DEF f, q
<1>3. f = cur[t] /\ q = parent[f]
  BY DEF f, q
<1>4. \A g \in LoadedBy(f) : outcome[g] = "ok"
  BY <1>1, BeforeAtEnd DEF ClosureInv
<1>5. \A g \in File : outcome[g] = "ok" => outcome'[g] = "ok"
  BY <1>1
<1>6. \A g \in File : LoadedBy(g)' = LoadedBy(g)
  BY <1>1 DEF LoadedBy, Statements
<1>7. \A g \in File : LoadedBy(g) \subseteq File
  <2>1. ASSUME NEW g \in File PROVE Statements(g) \subseteq Stmt
    <3>1. script[g] \in Seq(Stmt)
      BY LoaderAssumption
    <3>. QED BY <3>1 DEF Statements
  <2>. QED BY <2>1, LoadHasFile DEF LoadedBy
<1>8. ASSUME NEW h \in File, outcome'[h] = "ok", NEW g \in LoadedBy(h) PROVE outcome'[g] = "ok"
  <2>1. g \in File /\ outcome[g] = "ok"
    BY <1>1, <1>4, <1>7, <1>8 DEF ClosureInv
  <2>. QED BY <1>5, <2>1
<1>9. ASSUME NEW h \in File, outcome'[h] = "panic" PROVE \A g \in Before(h)' : outcome'[g] = "ok"
  <2>1. outcome[h] = "panic"
    BY <1>1, <1>9
  <2>2. CASE h = q
    <3>1. \A g \in File : AtLoad(q, g) => outcome'[g] = "ok"
      BY <1>1, <1>2, <1>3, <2>2, LoaderAssumption DEF ChainInv, AtLoad
    <3>2. pos' = [pos EXCEPT ![q] = @ + 1]
      BY <1>1, <2>2, LoaderAssumption
    <3>. QED BY <1>1, <1>5, <2>1, <2>2, <3>1, <3>2, AdvanceBefore
  <2>3. CASE h # q
    <3>1. pos'[h] = pos[h]
      BY <1>1, <2>3
    <3>2. Before(h)' = Before(h)
      BY <1>1, <3>1 DEF Before
    <3>3. \A g \in Before(h) : g \in File /\ outcome[g] = "ok"
      BY <2>1 DEF Before, ClosureInv
    <3>. QED BY <1>5, <3>2, <3>3
  <2>. QED BY <2>2, <2>3
<1>10. \A h \in File : outcome'[h] = "absent" => pos'[h] = 1
  BY <1>1, <1>2 DEF ClosureInv
<1>11. \A u \in Thread : pc'[u] \in {"queued", "enter", "wait", "read"} /\ cur'[u] = NoFile =>
         want'[u] = Entry[u]
  BY <1>1 DEF ClosureInv
<1>12. \A h \in File : outcome'[h] = "panic" /\ parent'[h] = NoFile => h = Entry[owner'[h]]
  BY <1>1 DEF ClosureInv
<1>13. ASSUME NEW u \in Thread, pc'[u] \in {"returned", "done"}, err'[u] = "none"
       PROVE  outcome'[Entry[u]] = "ok"
  <2>1. CASE u = t
    <3>1. q = NoFile
      BY <1>1, <1>13, <2>1
    <3>. QED BY <1>1, <1>3, <2>1, <3>1 DEF ClosureInv
  <2>2. CASE u # t
    <3>1. Entry[u] \in File
      BY LoaderAssumption DEF Thread
    <3>. QED BY <1>1, <1>5, <1>13, <2>2, <3>1 DEF ClosureInv
  <2>. QED BY <2>1, <2>2
<1>. QED BY <1>6, <1>8, <1>9, <1>10, <1>11, <1>12, <1>13 DEF ClosureInv

LEMMA FrameFailsClosure ==
  ASSUME CoreInv, ChainInv, ClosureInv, NEW t \in Thread, FrameFails(t) PROVE ClosureInv'
<1>. USE DEF CoreInv, TypeOK
<1>. DEFINE f == cur[t]
            q == parent[f]
<1>0. err[t] \in ErrKind /\ err[t] # "ok"
  BY DEF FrameFails, ControlInv, ErrKind
<1>1. /\ f \in File /\ owner[f] = t /\ outcome[f] = "panic" /\ err[t] \in ErrKind
      /\ outcome' = [outcome EXCEPT ![f] = err[t]] /\ cur' = [cur EXCEPT ![t] = q]
      /\ pc' = [pc EXCEPT ![t] = IF q = NoFile THEN "returned" ELSE "unwind"]
      /\ UNCHANGED <<script, owner, parent, want, err, pos>>
  BY <1>0 DEF FrameFails, PopFrame, After, StepOver, ControlInv, StackInv
<1>. HIDE DEF f, q
<1>2. err[t] \notin {"ok", "absent", "panic", "none"}
  BY <1>1 DEF ErrKind
<1>3. \A h \in File : /\ LoadedBy(h)' = LoadedBy(h) /\ Before(h)' = Before(h)
                      /\ outcome'[h] = "panic" => outcome[h] = "panic"
                      /\ outcome'[h] = "absent" => outcome[h] = "absent"
                      /\ outcome'[h] = "ok" <=> outcome[h] = "ok"
  BY <1>1, <1>2 DEF LoadedBy, Statements, Before
<1>4. \A h \in File : LoadedBy(h) \subseteq File /\ Before(h) \subseteq File
  <2>1. ASSUME NEW g \in File PROVE Statements(g) \subseteq Stmt
    <3>1. script[g] \in Seq(Stmt)
      BY LoaderAssumption
    <3>. QED BY <3>1 DEF Statements
  <2>. QED BY <2>1, LoadHasFile DEF LoadedBy, Before
<1>5. \A h \in File : outcome'[h] = "ok" => \A g \in LoadedBy(h)' : outcome'[g] = "ok"
  BY <1>3, <1>4 DEF ClosureInv
<1>6. \A h \in File : outcome'[h] = "panic" => \A g \in Before(h)' : outcome'[g] = "ok"
  BY <1>3, <1>4 DEF ClosureInv
<1>7. \A h \in File : outcome'[h] = "absent" => pos'[h] = 1
  BY <1>1, <1>3 DEF ClosureInv
<1>8. \A u \in Thread : pc'[u] \in {"queued", "enter", "wait", "read"} /\ cur'[u] = NoFile =>
        want'[u] = Entry[u]
  BY <1>1 DEF ClosureInv
<1>9. \A h \in File : outcome'[h] = "panic" /\ parent'[h] = NoFile => h = Entry[owner'[h]]
  BY <1>1, <1>3 DEF ClosureInv
<1>10. \A u \in Thread : pc'[u] \in {"returned", "done"} /\ err'[u] = "none" =>
         outcome'[Entry[u]] = "ok"
  <2>1. \A u \in Thread : Entry[u] \in File
    BY LoaderAssumption DEF Thread
  <2>. QED BY <1>1, <1>2, <1>3, <2>1 DEF ClosureInv
<1>. QED BY <1>5, <1>6, <1>7, <1>8, <1>9, <1>10 DEF ClosureInv

LEMMA NextClosure == CoreInv /\ ChainInv /\ ClosureInv /\ [Next]_vars => ClosureInv'
<1>. SUFFICES ASSUME CoreInv, ChainInv, ClosureInv, [Next]_vars PROVE ClosureInv'
  OBVIOUS
<1>. USE DEF sourceVars, stateVars, groupVars
<1>1. ASSUME NEW t \in Thread, \/ Launch(t) \/ LoadAgain(t) \/ LoadCycle(t) \/ LoadOther(t)
                               \/ LockAcquired(t) \/ OpenFails(t) \/ ExecDuplicate(t)
                               \/ ExecFail(t) \/ ExecLoad(t)
      PROVE  ClosureInv'
  BY <1>1, StillClosure DEF Launch, LoadAgain, LoadCycle, LoadOther, LockAcquired, OpenFails,
     ExecDuplicate, ExecFail, ExecLoad, Executes, CoreInv, TypeOK, ControlInv
<1>2. ASSUME NEW t \in Thread, Return(t) PROVE ClosureInv'
  BY <1>2, StillClosure DEF Return, CoreInv, TypeOK
<1>3. ASSUME NEW t \in Thread, ExecRegister(t) \/ ExecPrint(t) PROVE ClosureInv'
  <2>1. cur[t] \in File
    BY <1>3 DEF ExecRegister, ExecPrint, Executes, CoreInv, TypeOK, ControlInv
  <2>2. \A g \in File : ~AtLoad(cur[t], g)
    BY <1>3 DEF ExecRegister, ExecPrint, Executes, AtLoad
  <2>. QED BY <1>3, <2>1, <2>2, AdvanceClosure DEF ExecRegister, ExecPrint, Executes
<1>4. ASSUME NEW t \in Thread, Step(t) PROVE ClosureInv'
  BY <1>1, <1>2, <1>3, <1>4, LoadMissClosure, LoadReturnClosure, FrameEndsClosure,
     FrameFailsClosure DEF Step, Load, Exec
<1>5. CASE Wait
  BY <1>5, StillClosure DEF Wait
<1>6. CASE UNCHANGED vars
  BY <1>6, StillClosure DEF vars
<1>. QED BY <1>4, <1>5, <1>6 DEF Next, Over

\* A source that loaded has loaded everything it asked for, and a goroutine
\* that returns no error has loaded its shac.star.
THEOREM LoadedClosureHolds == Spec => []LoadedClosure
<1>1. Spec => [](CoreInv /\ ChainInv /\ ClosureInv)
  <2>1. Init => CoreInv /\ ChainInv /\ ClosureInv
    BY InitCore, InitChain, InitClosure
  <2>2. CoreInv /\ ChainInv /\ ClosureInv /\ [Next]_vars => (CoreInv /\ ChainInv /\ ClosureInv)'
    BY NextCore, NextChain, NextClosure
  <2>. QED BY <2>1, <2>2, PTL DEF Spec
<1>2. ClosureInv => LoadedClosure
  BY DEF ClosureInv, LoadedClosure
<1>. QED BY <1>1, <1>2, PTL

-----------------------------------------------------------------------------
(* The end of the phase                                                    *)

\* Once eg.Wait() has returned, every goroutine has.
QuietInv == parsed # "running" => \A t \in Thread : pc[t] = "done"

LEMMA InitQuiet == Init => QuietInv
BY DEF Init, QuietInv

LEMMA NextQuiet == QuietInv /\ [Next]_vars => QuietInv'
BY DEF QuietInv, Next, Step, Load, Exec, Launch, LoadMiss, LoadAgain, LoadCycle, LoadOther,
   LockAcquired, LoadReturn, OpenFails, ExecLoad, ExecRegister, ExecDuplicate, ExecPrint,
   ExecFail, Executes, FrameEnds, FrameFails, PopFrame, Return, Wait, Over, vars, groupVars

\* After the parse phase nothing loads, registers or prints.
THEOREM FrozenAfterParseHolds == Spec => FrozenAfterParse
<1>1. ASSUME QuietInv, [Next]_vars
      PROVE  [parsed # "running" => UNCHANGED <<checks, printCalled, outcome, mu>>]_vars
  <2>. SUFFICES ASSUME parsed # "running" PROVE UNCHANGED <<checks, printCalled, outcome, mu>>
    OBVIOUS
  <2>1. \A t \in Thread : pc[t] = "done"
    BY <1>1 DEF QuietInv
  <2>2. ASSUME NEW t \in Thread, Load(t) PROVE FALSE
    BY <2>1, <2>2 DEF Load, LoadMiss, LoadAgain, LoadCycle, LoadOther, LockAcquired, LoadReturn
  <2>3. ASSUME NEW t \in Thread, Exec(t) PROVE FALSE
    BY <2>1, <2>3 DEF Exec, Executes, OpenFails, ExecLoad, ExecRegister, ExecDuplicate, ExecPrint,
       ExecFail, FrameEnds, FrameFails
  <2>4. ASSUME NEW t \in Thread, Launch(t) \/ Return(t) PROVE FALSE
    BY <2>1, <2>4 DEF Launch, Return
  <2>5. UNCHANGED vars
    BY <1>1, <2>2, <2>3, <2>4 DEF Next, Step, Wait, Over
  <2>. QED BY <2>5 DEF vars, stateVars, sourceVars
<1>. QED BY InitQuiet, NextQuiet, <1>1, PTL DEF Spec, FrozenAfterParse

-----------------------------------------------------------------------------
(* What a shac.star reaches                                                *)

\* The load graph is that of the source tree and never changes.
LEMMA TreeStays ==
  ASSUME [Next]_vars
  PROVE  /\ script' = script
         /\ \A f : Statements(f)' = Statements(f) /\ LoadedBy(f)' = LoadedBy(f)
         /\ \A f : Reach(f)' = Reach(f)
<1>1. script' = script
  BY DEF Next, Step, Load, Exec, Launch, LoadMiss, LoadAgain, LoadCycle, LoadOther, LockAcquired,
     LoadReturn, OpenFails, ExecLoad, ExecRegister, ExecDuplicate, ExecPrint, ExecFail,
     FrameEnds, FrameFails, PopFrame, Return, Wait, Over, vars
<1>2. \A f : Statements(f)' = Statements(f)
  BY <1>1 DEF Statements
<1>3. \A f : LoadedBy(f)' = LoadedBy(f)
  BY <1>2 DEF LoadedBy
<1>4. \A S : Closed(S)' <=> Closed(S)
  BY <1>3 DEF Closed
<1>5. \A f : Reach(f)' = Reach(f)
  BY <1>4 DEF Reach
<1>. QED BY <1>1, <1>2, <1>3, <1>5

LEMMA LoadedByFiles ==
  ASSUME TypeOK, NEW f \in File
  PROVE  LoadedBy(f) \subseteq File
<1>1. script[f] \in Seq(Stmt)
  BY LoaderAssumption DEF TypeOK
<1>2. Statements(f) \subseteq Stmt
  BY <1>1 DEF Statements
<1>. QED BY <1>2, LoadHasFile DEF LoadedBy

LEMMA ReachIs ==
  ASSUME TypeOK, NEW f \in File
  PROVE  /\ f \in Reach(f)
         /\ \A g \in Reach(f) : LoadedBy(g) \subseteq Reach(f)
         /\ \A S \in SUBSET File : f \in S /\ Closed(S) => Reach(f) \subseteq S
<1>1. f \in Reach(f) /\ \A S \in SUBSET File : f \in S /\ Closed(S) => Reach(f) \subseteq S
  BY DEF Reach
<1>2. ASSUME NEW g \in Reach(f), NEW h \in LoadedBy(g) PROVE h \in Reach(f)
  <2>1. g \in File
    BY DEF Reach
  <2>2. h \in File
    BY <2>1, LoadedByFiles
  <2>3. ASSUME NEW S \in SUBSET File, f \in S, Closed(S) PROVE h \in S
    BY <1>1, <2>1, <2>3 DEF Closed
  <2>. QED BY <2>2, <2>3 DEF Reach
<1>. QED BY <1>1, <1>2

\* The steps that change a stack.
LEMMA StackSteps ==
  ASSUME [Next]_vars
  PROVE  \/ UNCHANGED <<owner, outcome, parent, cur>>
         \/ \E t \in Thread : LoadMiss(t) \/ FrameEnds(t) \/ FrameFails(t)
BY DEF Next, Step, Load, Exec, Launch, LoadAgain, LoadCycle, LoadOther, LockAcquired, LoadReturn,
   OpenFails, ExecLoad, ExecRegister, ExecDuplicate, ExecPrint, ExecFail, Return, Wait, Over,
   vars, sourceVars

\* What popping a frame does.
Popped(t, r) ==
  /\ r = "ok" => FrameEnds(t)
  /\ r # "ok" => r = err[t]
  /\ outcome' = [outcome EXCEPT ![cur[t]] = r]

LEMMA PoppedIs ==
  ASSUME CoreInv, NEW t \in Thread, FrameEnds(t) \/ FrameFails(t)
  PROVE  /\ cur[t] \in File /\ owner[cur[t]] = t /\ outcome[cur[t]] = "panic"
         /\ \E r \in {"ok"} \cup ErrKind : Popped(t, r)
         /\ cur' = [cur EXCEPT ![t] = parent[cur[t]]]
         /\ UNCHANGED <<owner, parent, err>>
<1>1. cur[t] \in File /\ owner[cur[t]] = t /\ outcome[cur[t]] = "panic"
  BY DEF FrameEnds, FrameFails, CoreInv, ControlInv, StackInv, TypeOK
<1>2. FrameFails(t) => err[t] \in ErrKind /\ err[t] # "ok" /\ pc[t] # "exec"
  BY DEF FrameFails, CoreInv, ControlInv, ErrKind
<1>3. CASE FrameEnds(t)
  <2>1. Popped(t, "ok")
    BY <1>3 DEF Popped, FrameEnds, PopFrame
  <2>. QED BY <1>1, <1>3, <2>1 DEF FrameEnds, PopFrame
<1>4. CASE FrameFails(t)
  <2>1. Popped(t, err[t]) /\ err[t] \in ErrKind
    BY <1>2, <1>4 DEF Popped, FrameFails, PopFrame
  <2>. QED BY <1>1, <1>4, <2>1 DEF FrameFails, PopFrame
<1>. QED BY <1>3, <1>4

-----------------------------------------------------------------------------
(* The verdict on cycles                                                   *)

\* S has the next one of each of its sources but the top.
GoesUp(S, top, up) == \A f \in S : f # top => \E g \in S : up[g] = f

\* No stack goes round in a circle: going up it from anywhere ends at the top.
InOrder(fs, top, up) == \A S \in SUBSET fs : S # {} /\ GoesUp(S, top, up) => top \in S

OrderInv == \A t \in Thread : InOrder(Frames(t), cur[t], parent)

LEMMA GoingUpEnds ==
  ASSUME OrderInv, NEW t \in Thread, NEW S \in SUBSET Frames(t), S # {}, GoesUp(S, cur[t], parent)
  PROVE  cur[t] \in S
<1>1. InOrder(Frames(t), cur[t], parent)
  BY DEF OrderInv
<1>. QED BY <1>1 DEF InOrder

LEMMA InitOrder == Init => OrderInv
BY DEF Init, OrderInv, InOrder, Frames

LEMMA NextOrder ==
  ASSUME CoreInv, OrderInv, [Next]_vars
  PROVE  OrderInv'
<1>. USE DEF CoreInv, TypeOK
<1>1. CASE UNCHANGED <<owner, outcome, parent, cur>>
  <2>1. \A t \in Thread : Frames(t)' = Frames(t)
    BY <1>1 DEF Frames
  <2>. QED BY <1>1, <2>1 DEF OrderInv
<1>2. ASSUME NEW t \in Thread, LoadMiss(t) PROVE OrderInv'
  <2>. DEFINE f == want[t]
              c == cur[t]
  <2>1. /\ f \in File /\ f # NoFile /\ outcome[f] = "absent"
        /\ owner' = [owner EXCEPT ![f] = t] /\ outcome' = [outcome EXCEPT ![f] = "panic"]
        /\ parent' = [parent EXCEPT ![f] = c] /\ cur' = [cur EXCEPT ![t] = f]
    BY <1>2, LoaderAssumption DEF LoadMiss, StackInv
  <2>. HIDE DEF f
  <2>2. SUFFICES ASSUME NEW u \in Thread, NEW S \in SUBSET Frames(u)', S # {},
                        GoesUp(S, cur'[u], parent')
                 PROVE  cur'[u] \in S
    BY DEF OrderInv, InOrder
  <2>3. CASE f \in S
    <3>1. u = t
      BY <2>1, <2>3 DEF Frames
    <3>. QED BY <2>1, <2>3, <3>1
  <2>4. CASE f \notin S
    <3>1. S \subseteq Frames(u)
      BY <2>1, <2>4 DEF Frames
    <3>2. \A g \in S : parent'[g] = parent[g]
      BY <2>1, <2>4 DEF Frames
    <3>3. CASE u # t
      <4>1. cur'[u] = cur[u] /\ GoesUp(S, cur[u], parent)
        BY <2>1, <2>2, <3>2, <3>3 DEF GoesUp
      <4>. QED BY <2>2, <3>1, <4>1, GoingUpEnds
    <3>4. CASE u = t
      <4>1. \A g \in S : parent[g] # c
        BY <3>1, <3>4 DEF Frames, StackInv
      <4>2. c \notin S
        <5>1. cur'[u] = f
          BY <2>1, <3>4
        <5>. QED BY <2>2, <2>4, <3>2, <4>1, <5>1 DEF GoesUp
      <4>3. GoesUp(S, c, parent)
        BY <2>1, <2>2, <2>4, <3>2, <3>4 DEF GoesUp
      <4>. QED BY <2>2, <3>1, <3>4, <4>2, <4>3, GoingUpEnds
    <3>. QED BY <3>3, <3>4
  <2>. QED BY <2>3, <2>4
<1>3. ASSUME NEW t \in Thread, FrameEnds(t) \/ FrameFails(t) PROVE OrderInv'
  <2>. DEFINE f == cur[t]
  <2>1. PICK r \in {"ok"} \cup ErrKind : outcome' = [outcome EXCEPT ![f] = r]
    BY <1>3, PoppedIs DEF Popped
  <2>2. /\ f \in File /\ owner[f] = t /\ r # "panic" /\ owner' = owner /\ parent' = parent
        /\ cur' = [cur EXCEPT ![t] = parent[f]]
    BY <1>3, PoppedIs DEF ErrKind
  <2>3. SUFFICES ASSUME NEW u \in Thread, NEW S \in SUBSET Frames(u)', S # {},
                        GoesUp(S, cur'[u], parent')
                 PROVE  cur'[u] \in S
    BY DEF OrderInv, InOrder
  <2>. HIDE DEF f
  <2>4. S \subseteq Frames(u) /\ f \notin S
    BY <2>1, <2>2 DEF Frames
  <2>5. CASE u # t
    <3>1. cur'[u] = cur[u] /\ GoesUp(S, cur[u], parent)
      BY <2>2, <2>3, <2>5
    <3>. QED BY <2>3, <2>4, <3>1, GoingUpEnds
  <2>6. CASE u = t /\ cur'[u] \notin S
    <3>1. GoesUp(S, cur[t], parent)
      BY <2>2, <2>3, <2>6 DEF GoesUp
    <3>2. cur[t] \in S
      BY <2>3, <2>4, <2>6, <3>1, GoingUpEnds
    <3>. QED BY <2>4, <3>2 DEF f
  <2>. QED BY <2>5, <2>6
<1>. QED BY <1>1, <1>2, <1>3, StackSteps

\* Whatever a goroutine loads can be reached from its shac.star.
ReachInv == \A f \in File : owner[f] # NoThread => f \in Reach(Entry[owner[f]])

LEMMA InitReach == Init => ReachInv
BY DEF Init, ReachInv

LEMMA WantIsReached ==
  ASSUME CoreInv, ChainInv, ClosureInv, ReachInv, NEW t \in Thread, pc[t] \in {"enter", "wait", "read"}
  PROVE  want[t] \in Reach(Entry[t])
<1>. USE DEF CoreInv
<1>1. Entry[t] \in File
  BY LoaderAssumption DEF Thread
<1>2. CASE cur[t] = NoFile
  <2>1. want[t] = Entry[t]
    BY <1>2 DEF ClosureInv
  <2>. QED BY <1>1, <2>1, ReachIs
<1>3. CASE cur[t] # NoFile
  <2>1. cur[t] \in File /\ owner[cur[t]] = t /\ AtLoad(cur[t], want[t])
    BY <1>3 DEF TypeOK, StackInv, ChainInv
  <2>2. cur[t] \in Reach(Entry[t])
    BY <2>1, LoaderAssumption DEF ReachInv
  <2>3. want[t] \in LoadedBy(cur[t])
    BY <2>1, AtLoadLoads
  <2>. QED BY <1>1, <2>2, <2>3, ReachIs
<1>. QED BY <1>2, <1>3

LEMMA NextReach ==
  ASSUME CoreInv, ChainInv, ClosureInv, ReachInv, [Next]_vars
  PROVE  ReachInv'
<1>1. \A f : Reach(f)' = Reach(f)
  BY TreeStays
<1>2. ASSUME NEW t \in Thread, LoadMiss(t) PROVE ReachInv'
  <2>1. want[t] \in Reach(Entry[t]) /\ owner' = [owner EXCEPT ![want[t]] = t]
    BY <1>2, WantIsReached DEF LoadMiss
  <2>. QED BY <1>1, <2>1 DEF ReachInv, CoreInv, TypeOK
<1>3. CASE owner' = owner
  BY <1>1, <1>3 DEF ReachInv
<1>. QED BY <1>2, <1>3, StackSteps, PoppedIs

\* A source that is on a cycle would have to be loaded before itself.
OkInv == \A f \in File : outcome[f] = "ok" => \A g \in LoadedBy(f) : f \notin Reach(g)

LEMMA NextOk ==
  ASSUME CoreInv, ClosureInv, OkInv, [Next]_vars
  PROVE  OkInv'
<1>. SUFFICES ASSUME NEW f \in File, outcome'[f] = "ok", NEW g \in LoadedBy(f) PROVE f \notin Reach(g)
  BY TreeStays DEF OkInv
<1>1. CASE outcome[f] = "ok"
  BY <1>1 DEF OkInv
<1>2. CASE outcome[f] # "ok"
  <2>1. PICK t \in Thread : FrameEnds(t) /\ f = cur[t]
    <3>1. ~ \E t \in Thread : LoadMiss(t)
      BY <1>2 DEF LoadMiss, CoreInv, TypeOK
    <3>2. PICK t \in Thread : FrameEnds(t) \/ FrameFails(t)
      BY <1>2, <3>1, StackSteps
    <3>3. PICK r \in {"ok"} \cup ErrKind : Popped(t, r)
      BY <3>2, PoppedIs
    <3>. QED BY <1>2, <3>3 DEF Popped, CoreInv, TypeOK
  <2>. DEFINE S == {h \in File : outcome[h] = "ok"}
  <2>2. LoadedBy(f) \subseteq File
    BY LoadedByFiles DEF CoreInv
  <2>3. g \in S
    <3>1. AtEnd(f) /\ outcome[f] = "panic"
      BY <2>1, PoppedIs DEF FrameEnds
    <3>2. g \in Before(f)
      BY <3>1, BeforeAtEnd DEF CoreInv
    <3>. QED BY <2>2, <3>1, <3>2 DEF ClosureInv
  <2>4. Closed(S)
    <3>1. ASSUME NEW h \in S PROVE LoadedBy(h) \subseteq S
      <4>1. LoadedBy(h) \subseteq File
        BY LoadedByFiles DEF CoreInv
      <4>. QED BY <4>1 DEF ClosureInv
    <3>. HIDE DEF S
    <3>. QED BY <3>1 DEF Closed
  <2>5. g \in File /\ S \in SUBSET File /\ f \notin S
    BY <1>2, <2>2
  <2>. HIDE DEF S
  <2>6. Reach(g) \subseteq S
    BY <2>3, <2>4, <2>5, ReachIs DEF CoreInv
  <2>. QED BY <2>5, <2>6
<1>. QED BY <1>1, <1>2

\* A cycle that t reaches, and two shac.star that reach one source.
MeetsCycle(t) == \E f \in Reach(Entry[t]) : \E g \in LoadedBy(f) : f \in Reach(g)

Shared == \E t, u \in Thread : t # u /\ Reach(Entry[t]) \cap Reach(Entry[u]) # {}

\* Unless they share a source, the cycle error is only raised for a cycle.
CycleInv ==
  Shared \/ /\ \A t \in Thread : err[t] = "cycle" => MeetsCycle(t)
            /\ \A f \in File : outcome[f] = "cycle" => MeetsCycle(owner[f])

LEMMA LoadCycleIsRight ==
  ASSUME CoreInv, ChainInv, ClosureInv, ReachInv, OrderInv, NEW t \in Thread, LoadCycle(t), ~Shared
  PROVE  MeetsCycle(t)
<1>. DEFINE f == want[t]
            c == cur[t]
<1>1. /\ pc[t] = "enter" /\ f \in File /\ owner[f] = t /\ mu[f] # NoThread
  BY DEF LoadCycle, CoreInv, TypeOK
<1>2. CASE outcome[f] = "panic"
  <2>1. f \in Frames(t)
    BY <1>1, <1>2 DEF Frames
  <2>2. ASSUME NEW S \in SUBSET File, f \in S, Closed(S) PROVE c \in S
    <3>. DEFINE T == Frames(t) \cap S
    <3>1. T \in SUBSET Frames(t) /\ T # {}
      BY <2>1, <2>2
    <3>2. ASSUME NEW h \in T, h # cur[t] PROVE \E g \in T : parent[g] = h
      <4>1. h \in File /\ outcome[h] = "panic" /\ owner[h] = t /\ h \in S
        BY DEF Frames
      <4>2. PICK g \in Frames(t) : parent[g] = h
        BY <3>2, <4>1 DEF ChainInv
      <4>3. g \in File /\ AtLoad(h, g)
        BY <4>1, <4>2, LoaderAssumption DEF Frames, ChainInv
      <4>4. g \in LoadedBy(h)
        BY <4>1, <4>3, AtLoadLoads DEF CoreInv
      <4>5. g \in S
        BY <2>2, <4>1, <4>4 DEF Closed
      <4>. QED BY <4>2, <4>5
    <3>3. GoesUp(T, cur[t], parent)
      <4>. HIDE DEF T
      <4>. QED BY <3>2 DEF GoesUp
    <3>. HIDE DEF T
    <3>4. cur[t] \in T
      BY <3>1, <3>3, GoingUpEnds
    <3>. QED BY <3>4 DEF T
  <2>3. c \in File
    <3>1. File \in SUBSET File /\ Closed(File)
      BY LoadedByFiles DEF Closed, CoreInv
    <3>. QED BY <1>1, <2>2, <3>1
  <2>4. c \in Reach(f)
    BY <2>2, <2>3 DEF Reach
  <2>5. c # NoFile /\ owner[c] = t /\ AtLoad(c, f)
    BY <1>1, <2>3, LoaderAssumption DEF CoreInv, StackInv, ChainInv
  <2>6. f \in LoadedBy(c)
    BY <2>3, <2>5, AtLoadLoads DEF CoreInv
  <2>7. c \in Reach(Entry[t])
    BY <2>3, <2>5, LoaderAssumption DEF ReachInv
  <2>. QED BY <2>4, <2>6, <2>7 DEF MeetsCycle
<1>3. CASE outcome[f] # "panic"
  <2>. DEFINE u == mu[f]
  <2>1. pc[u] = "read" /\ want[u] = f /\ u \in Thread /\ u # t
    BY <1>1, <1>3 DEF CoreInv, LockInv, TypeOK
  <2>2. f \in Reach(Entry[u])
    BY <2>1, WantIsReached
  <2>3. f \in Reach(Entry[t])
    BY <1>1, WantIsReached
  <2>. QED BY <2>1, <2>2, <2>3 DEF Shared
<1>. QED BY <1>2, <1>3

LEMMA NextCycle ==
  ASSUME CoreInv, ChainInv, ClosureInv, ReachInv, OrderInv, CycleInv, [Next]_vars
  PROVE  CycleInv'
<1>1. /\ Shared' <=> Shared
      /\ \A t : MeetsCycle(t)' <=> MeetsCycle(t)
  BY TreeStays DEF Shared, MeetsCycle
<1>. SUFFICES ASSUME ~Shared
              PROVE  /\ \A t \in Thread : err'[t] = "cycle" => MeetsCycle(t)
                     /\ \A f \in File : outcome'[f] = "cycle" => MeetsCycle(owner'[f])
  BY <1>1 DEF CycleInv
<1>2. ASSUME NEW t \in Thread, err'[t] = "cycle" PROVE MeetsCycle(t)
  <2>1. \/ err[t] = "cycle" \/ LoadCycle(t)
        \/ LoadReturn(t) /\ outcome[want[t]] = "cycle"
    <3>1. ASSUME NEW u \in Thread, LoadCycle(u) PROVE err[t] = "cycle" \/ LoadCycle(t)
      BY <1>2, <3>1 DEF LoadCycle, CoreInv, TypeOK
    <3>2. ASSUME NEW u \in Thread, LoadReturn(u)
          PROVE  err[t] = "cycle" \/ (LoadReturn(t) /\ outcome[want[t]] = "cycle")
      <4>1. CASE u = t
        <5>1. err'[t] = IF outcome[want[t]] # "ok" THEN outcome[want[t]] ELSE "none"
          BY <3>2, <4>1 DEF LoadReturn, CoreInv, TypeOK
        <5>. QED BY <1>2, <3>2, <4>1, <5>1
      <4>2. CASE u # t
        BY <1>2, <3>2, <4>2 DEF LoadReturn, CoreInv, TypeOK
      <4>. QED BY <4>1, <4>2
    <3>3. ASSUME NEW u \in Thread, OpenFails(u) \/ ExecDuplicate(u) \/ ExecFail(u) PROVE err[t] = "cycle"
      BY <1>2, <3>3 DEF OpenFails, ExecDuplicate, ExecFail, CoreInv, TypeOK
    <3>4. ASSUME NEW u \in Thread, Return(u) PROVE err[t] = "cycle"
      BY <1>2, <3>4 DEF Return, CoreInv, TypeOK
    <3>5. CASE err' = err
      BY <1>2, <3>5
    <3>6. \/ err' = err
          \/ \E u \in Thread : \/ LoadCycle(u) \/ LoadReturn(u) \/ Return(u)
                               \/ OpenFails(u) \/ ExecDuplicate(u) \/ ExecFail(u)
      BY DEF Next, Step, Load, Exec, Launch, LoadMiss, LoadAgain, LoadOther, LockAcquired, ExecLoad,
         ExecRegister, ExecPrint, FrameEnds, FrameFails, PopFrame, Wait, Over, vars
    <3>. QED BY <3>1, <3>2, <3>3, <3>4, <3>5, <3>6
  <2>2. CASE LoadReturn(t) /\ outcome[want[t]] = "cycle"
    <3>1. pc[t] = "read" /\ want[t] \in File /\ owner[want[t]] \in Thread
      BY <2>2 DEF LoadReturn, CoreInv, TypeOK, StackInv
    <3>2. MeetsCycle(owner[want[t]])
      BY <2>2, <3>1 DEF CycleInv
    <3>3. want[t] \in Reach(Entry[t]) /\ want[t] \in Reach(Entry[owner[want[t]]])
      BY <3>1, WantIsReached, LoaderAssumption DEF ReachInv
    <3>4. owner[want[t]] = t
      BY <3>1, <3>3 DEF Shared
    <3>. QED BY <3>2, <3>4
  <2>. QED BY <2>1, <2>2, LoadCycleIsRight DEF CycleInv
<1>3. ASSUME NEW f \in File, outcome'[f] = "cycle" PROVE MeetsCycle(owner'[f])
  <2>1. CASE UNCHANGED <<owner, outcome, parent, cur>>
    BY <1>3, <2>1 DEF CycleInv
  <2>2. ASSUME NEW t \in Thread, LoadMiss(t) PROVE MeetsCycle(owner'[f])
    <3>1. f # want[t] /\ outcome[f] = "cycle" /\ owner'[f] = owner[f]
      BY <1>3, <2>2 DEF LoadMiss, CoreInv, TypeOK
    <3>. QED BY <3>1 DEF CycleInv
  <2>3. ASSUME NEW t \in Thread, FrameEnds(t) \/ FrameFails(t) PROVE MeetsCycle(owner'[f])
    <3>1. PICK r \in {"ok"} \cup ErrKind : /\ r # "ok" => r = err[t]
                                           /\ outcome' = [outcome EXCEPT ![cur[t]] = r]
      BY <2>3, PoppedIs DEF Popped
    <3>2. owner' = owner /\ owner[cur[t]] = t
      BY <2>3, PoppedIs
    <3>3. CASE f = cur[t]
      <4>1. r = "cycle"
        BY <1>3, <3>1, <3>3 DEF CoreInv, TypeOK
      <4>2. err[t] = "cycle"
        BY <3>1, <4>1
      <4>. QED BY <3>2, <3>3, <4>2 DEF CycleInv
    <3>4. CASE f # cur[t]
      <4>1. outcome[f] = "cycle"
        BY <1>3, <3>1, <3>4 DEF CoreInv, TypeOK
      <4>. QED BY <3>2, <4>1 DEF CycleInv
    <3>. QED BY <3>3, <3>4
  <2>. QED BY <2>1, <2>2, <2>3, StackSteps
<1>. QED BY <1>2, <1>3

\* A source on a cycle never loads, and the cycle error is raised only for a
\* cycle, unless two shac.star share a source: TryLock then fails on a source
\* that another goroutine reads (env.go:160-172).
THEOREM CycleVerdictHolds == Spec => []CycleVerdict
<1>. DEFINE I == /\ CoreInv /\ ChainInv /\ ClosureInv
                 /\ OrderInv /\ ReachInv /\ OkInv /\ CycleInv
<1>1. Init => I
  BY InitCore, InitChain, InitClosure, InitOrder, InitReach DEF Init, OkInv, CycleInv
<1>2. I /\ [Next]_vars => I'
  BY NextCore, NextChain, NextClosure, NextOrder, NextReach, NextOk, NextCycle
<1>3. I => CycleVerdict
  BY DEF OkInv, CycleInv, CycleVerdict, CycleErrorSound, MeetsCycle, Shared
<1>. QED BY <1>1, <1>2, <1>3, PTL DEF Spec

-----------------------------------------------------------------------------
(* The registered checks                                                   *)

\* The checks that f registers when it executes, and those before its current
\* statement.
Registers(f) == {s.check : s \in {x \in Statements(f) : x.op = "register"}}

RegistersBefore(f) ==
  {script[f][i].check : i \in {j \in DOMAIN script[f] : j < pos[f] /\ script[f][j].op = "register"}}

\* A check in a state was registered by a source of that goroutine.
OwnedInv == \A t \in Thread : \A c \in CheckSet(t) : \E f \in File : owner[f] = t /\ c \in Registers(f)

\* What a source has registered so far is in the state of its goroutine.
KeptInv ==
  /\ \A f \in File : outcome[f] = "panic" => RegistersBefore(f) \subseteq CheckSet(owner[f])
  /\ \A f \in File : outcome[f] = "ok" => Registers(f) \subseteq CheckSet(owner[f])

\* The group has seen the error of every goroutine that returned.
SuccessInv ==
  /\ egErr = "none" => \A t \in Thread : pc[t] = "done" => err[t] = "none"
  /\ parsed = "ok" => egErr = "none"

LEMMA InitSuccess == Init => SuccessInv
BY DEF Init, SuccessInv

LEMMA NextSuccess ==
  ASSUME CoreInv, QuietInv, SuccessInv, [Next]_vars
  PROVE  SuccessInv'
<1>. USE DEF CoreInv, TypeOK, SuccessInv
<1>1. ASSUME NEW t \in Thread, Return(t) PROVE SuccessInv'
  <2>1. parsed = "running" /\ parsed' = "running"
    BY <1>1 DEF Return, QuietInv
  <2>2. /\ pc' = [pc EXCEPT ![t] = "done"]
        /\ egErr' = (IF egErr = "none" THEN err'[t] ELSE egErr)
        /\ \A u \in Thread \ {t} : err'[u] = err[u]
    BY <1>1 DEF Return
  <2>. QED BY <2>1, <2>2
<1>2. ASSUME NEW t \in Thread, Step(t), ~Return(t) PROVE SuccessInv'
  <2>1. pc[t] # "done" /\ pc'[t] # "done" /\ UNCHANGED <<egErr, parsed>>
        /\ \A u \in Thread \ {t} : pc'[u] = pc[u] /\ err'[u] = err[u]
    BY <1>2 DEF Step, Load, Exec, Launch, LoadMiss, LoadAgain, LoadCycle, LoadOther, LockAcquired,
       LoadReturn, OpenFails, ExecLoad, ExecRegister, ExecDuplicate, ExecPrint, ExecFail, Executes,
       FrameEnds, FrameFails, PopFrame, After, groupVars
  <2>. QED BY <2>1
<1>3. CASE Wait
  BY <1>3 DEF Wait, ErrKind
<1>4. CASE UNCHANGED vars
  BY <1>4 DEF vars, groupVars
<1>. QED BY <1>1, <1>2, <1>3, <1>4 DEF Next, Over

\* The steps that change the checks, and what they add.
LEMMA ChecksGrow ==
  ASSUME CoreInv, [Next]_vars
  PROVE  \/ checks' = checks
         \/ \E t \in Thread :
              /\ ExecRegister(t)
              /\ cur[t] \in File /\ owner[cur[t]] = t /\ outcome[cur[t]] = "panic"
              /\ CheckSet(t)' = CheckSet(t) \cup {script[cur[t]][pos[cur[t]]].check}
              /\ \A u \in Thread \ {t} : CheckSet(u)' = CheckSet(u)
<1>1. ASSUME NEW t \in Thread, ExecRegister(t)
      PROVE  /\ cur[t] \in File /\ owner[cur[t]] = t /\ outcome[cur[t]] = "panic"
             /\ CheckSet(t)' = CheckSet(t) \cup {script[cur[t]][pos[cur[t]]].check}
             /\ \A u \in Thread \ {t} : CheckSet(u)' = CheckSet(u)
  <2>. DEFINE c == script[cur[t]][pos[cur[t]]].check
  <2>1. Executes(t, "register") /\ cur[t] \in File /\ owner[cur[t]] = t /\ outcome[cur[t]] = "panic"
    BY <1>1 DEF ExecRegister, Executes, CoreInv, TypeOK, ControlInv, StackInv
  <2>2. script[cur[t]][pos[cur[t]]] \in Stmt /\ script[cur[t]][pos[cur[t]]].op = "register"
    BY <2>1, ExecutesStmt DEF Executes, CoreInv
  <2>3. c \in Check
    BY <2>2, RegisterHasCheck
  <2>4. checks[t] \in Seq(Check) /\ checks' = [checks EXCEPT ![t] = Append(checks[t], c)]
    BY <1>1 DEF ExecRegister, CoreInv, TypeOK
  <2>. HIDE DEF c
  <2>5. checks'[t] = Append(checks[t], c)
    BY <2>4 DEF CoreInv, TypeOK
  <2>6. DOMAIN checks'[t] = DOMAIN checks[t] \cup {Len(checks[t]) + 1}
    BY <2>3, <2>4, <2>5
  <2>7. checks'[t][Len(checks[t]) + 1] = c /\ \A i \in DOMAIN checks[t] : checks'[t][i] = checks[t][i]
    BY <2>3, <2>4, <2>5
  <2>8. CheckSet(t)' = CheckSet(t) \cup {c}
    BY <2>6, <2>7 DEF CheckSet
  <2>9. \A u \in Thread \ {t} : CheckSet(u)' = CheckSet(u)
    BY <2>4 DEF CheckSet, CoreInv, TypeOK
  <2>. QED BY <2>1, <2>8, <2>9 DEF c
<1>2. checks' = checks \/ \E t \in Thread : ExecRegister(t)
  BY DEF Next, Step, Load, Exec, Launch, LoadMiss, LoadAgain, LoadCycle, LoadOther, LockAcquired,
     LoadReturn, OpenFails, ExecLoad, ExecDuplicate, ExecPrint, ExecFail,
     FrameEnds, FrameFails, PopFrame, Return, Wait, Over, vars, stateVars
<1>. QED BY <1>1, <1>2

Elements(list) == {list[i] : i \in DOMAIN list}

LEMMA ChecksStay ==
  ASSUME CoreInv, [Next]_vars, NEW t \in Thread
  PROVE  CheckSet(t) \subseteq CheckSet(t)'
<1>1. CASE checks' = checks
  BY <1>1 DEF CheckSet
<1>. QED BY <1>1, ChecksGrow

\* Only a source that is not in the map gets an owner.
LEMMA OwnersStay ==
  ASSUME CoreInv, [Next]_vars, NEW f \in File, owner[f] # NoThread
  PROVE  owner'[f] = owner[f]
<1>1. ASSUME NEW t \in Thread, LoadMiss(t) PROVE owner'[f] = owner[f]
  BY <1>1 DEF LoadMiss, CoreInv, TypeOK
<1>. QED BY <1>1, StackSteps, PoppedIs

LEMMA NextOwned ==
  ASSUME CoreInv, OwnedInv, [Next]_vars
  PROVE  OwnedInv'
<1>1. \A f : Registers(f)' = Registers(f)
  BY TreeStays DEF Registers
<1>2. \A t \in Thread, f \in File : owner[f] = t => owner'[f] = t
  BY OwnersStay, LoaderAssumption
<1>3. ASSUME NEW t \in Thread, NEW c \in CheckSet(t) PROVE \E f \in File : owner'[f] = t /\ c \in Registers(f)
  BY <1>2 DEF OwnedInv
<1>4. CASE checks' = checks
  <2>1. \A t \in Thread : CheckSet(t)' = CheckSet(t)
    BY <1>4 DEF CheckSet
  <2>. QED BY <1>1, <1>3, <2>1 DEF OwnedInv
<1>5. ASSUME NEW t \in Thread,
             ExecRegister(t), cur[t] \in File, owner[cur[t]] = t,
             CheckSet(t)' = CheckSet(t) \cup {script[cur[t]][pos[cur[t]]].check},
             \A u \in Thread \ {t} : CheckSet(u)' = CheckSet(u)
      PROVE  OwnedInv'
  <2>1. script[cur[t]][pos[cur[t]]] \in Statements(cur[t])
        /\ script[cur[t]][pos[cur[t]]].op = "register"
    <3>1. script[cur[t]] \in Seq(Stmt) /\ pos[cur[t]] \in Nat \ {0}
      BY <1>5, LoaderAssumption DEF CoreInv, TypeOK
    <3>. QED BY <1>5, <3>1 DEF ExecRegister, Executes, AtEnd, Statements
  <2>2. script[cur[t]][pos[cur[t]]].check \in Registers(cur[t])
    BY <2>1 DEF Registers
  <2>3. ASSUME NEW u \in Thread, NEW c \in CheckSet(u)' PROVE \E f \in File : owner'[f] = u /\ c \in Registers(f)
    <3>1. CASE c \in CheckSet(u)
      BY <1>3, <3>1
    <3>2. CASE c \notin CheckSet(u)
      BY <1>2, <1>5, <2>2, <3>2
    <3>. QED BY <3>1, <3>2
  <2>. QED BY <1>1, <2>3 DEF OwnedInv
<1>. QED BY <1>4, <1>5, ChecksGrow

\* A statement is passed when it is not a registration or has registered.
LEMMA Passes ==
  ASSUME CoreInv, ChainInv, [Next]_vars, NEW f \in File, pos'[f] # pos[f]
  PROVE  /\ pos'[f] = pos[f] + 1
         /\ script[f][pos[f]].op = "register" => script[f][pos[f]].check \in CheckSet(owner[f])'
<1>. USE DEF CoreInv, TypeOK
<1>1. ASSUME NEW t \in Thread, LoadReturn(t)
      PROVE  pos'[f] = pos[f] + 1 /\ AtLoad(f, want[t])
  <2>1. f = cur[t] /\ pos'[f] = pos[f] + 1
    BY <1>1 DEF LoadReturn, StepOver
  <2>. QED BY <1>1, <2>1, LoaderAssumption DEF LoadReturn, ChainInv
<1>2. ASSUME NEW t \in Thread, FrameEnds(t) \/ FrameFails(t)
      PROVE  pos'[f] = pos[f] + 1 /\ AtLoad(f, cur[t])
  <2>1. f = parent[cur[t]] /\ pos'[f] = pos[f] + 1
    BY <1>2 DEF FrameEnds, FrameFails, PopFrame, StepOver
  <2>2. cur[t] \in File /\ outcome[cur[t]] = "panic"
    BY <1>2, PoppedIs
  <2>. QED BY <2>1, <2>2, LoaderAssumption DEF ChainInv
<1>3. ASSUME NEW t \in Thread, ExecPrint(t)
      PROVE  pos'[f] = pos[f] + 1 /\ script[f][pos[f]].op = "print"
  BY <1>3 DEF ExecPrint, Executes
<1>4. ASSUME NEW t \in Thread, ExecRegister(t)
      PROVE  pos'[f] = pos[f] + 1 /\ f = cur[t]
  BY <1>4 DEF ExecRegister
<1>5. ASSUME NEW t \in Thread, ExecRegister(t)
      PROVE  script[f][pos[f]].check \in CheckSet(owner[f])'
  <2>1. checks' # checks
    <3>1. checks[t] \in Seq(Check) /\ checks'[t] = Append(checks[t], script[cur[t]][pos[cur[t]]].check)
      BY <1>5 DEF ExecRegister
    <3>2. Len(checks'[t]) = Len(checks[t]) + 1 /\ Len(checks[t]) \in Nat
      BY <3>1
    <3>. QED BY <3>2
  <2>2. PICK u \in Thread : ExecRegister(u) /\ owner[cur[u]] = u
                            /\ script[cur[u]][pos[cur[u]]].check \in CheckSet(u)'
    BY <2>1, ChecksGrow
  <2>3. f = cur[u]
    BY <1>4, <2>2
  <2>4. owner'[f] = u
    BY <2>2, <2>3 DEF ExecRegister
  <2>. QED BY <2>2, <2>3, <2>4 DEF CheckSet
<1>6. \E t \in Thread : \/ LoadReturn(t) \/ FrameEnds(t) \/ FrameFails(t) \/ ExecPrint(t)
                        \/ ExecRegister(t)
  BY DEF Next, Step, Load, Exec, Launch, LoadMiss, LoadAgain, LoadCycle, LoadOther, LockAcquired,
     OpenFails, ExecLoad, ExecDuplicate, ExecFail, Return, Wait, Over, vars, sourceVars
<1>. QED BY <1>1, <1>2, <1>3, <1>4, <1>5, <1>6 DEF AtLoad

LEMMA InitKept == Init => KeptInv /\ OwnedInv
BY DEF Init, KeptInv, OwnedInv, CheckSet

LEMMA NextKept ==
  ASSUME CoreInv, ChainInv, ClosureInv, KeptInv, [Next]_vars
  PROVE  KeptInv'
<1>. USE DEF CoreInv, TypeOK
<1>1. /\ script' = script
      /\ \A f : Registers(f)' = Registers(f)
  BY TreeStays DEF Registers
<1>2. \A f \in File : script[f] \in Seq(Stmt) /\ pos[f] \in Nat \ {0}
  BY LoaderAssumption
<1>3. ASSUME NEW f \in File, outcome[f] # "absent"
      PROVE  owner[f] \in Thread /\ owner'[f] = owner[f] /\ CheckSet(owner[f]) \subseteq CheckSet(owner[f])'
  <2>1. owner[f] \in Thread /\ owner'[f] = owner[f]
    BY <1>3, OwnersStay DEF StackInv
  <2>2. \A u \in Thread : Elements(checks[u]) \subseteq Elements(checks'[u])
    BY ChecksStay DEF CheckSet, Elements
  <2>3. CheckSet(owner[f]) = Elements(checks[owner[f]]) /\ CheckSet(owner[f])' = Elements(checks'[owner'[f]])
    BY DEF CheckSet, Elements
  <2>. QED BY <2>1, <2>2, <2>3
<1>4. ASSUME NEW f \in File, outcome'[f] = "panic"
      PROVE  RegistersBefore(f)' \subseteq CheckSet(owner[f])'
  <2>. SUFFICES ASSUME NEW i \in DOMAIN script[f], i < pos'[f], script[f][i].op = "register"
                PROVE  script[f][i].check \in CheckSet(owner[f])'
    BY <1>1 DEF RegistersBefore
  <2>1. i \in 1..Len(script[f])
    BY <1>2
  <2>2. CASE outcome[f] = "panic"
    <3>1. CASE i < pos[f]
      <4>1. script[f][i].check \in RegistersBefore(f)
        BY <3>1 DEF RegistersBefore
      <4>. QED BY <1>3, <2>2, <4>1 DEF KeptInv
    <3>2. CASE ~(i < pos[f])
      <4>1. pos'[f] # pos[f]
        BY <3>2
      <4>2. pos'[f] = pos[f] + 1
        BY <4>1, Passes
      <4>3. i = pos[f]
        BY <1>2, <2>1, <3>2, <4>2
      <4>4. script[f][i].check \in CheckSet(owner[f])'
        BY <4>1, <4>3, Passes
      <4>. QED BY <1>3, <2>2, <4>4
    <3>. QED BY <3>1, <3>2
  <2>3. CASE outcome[f] # "panic"
    <3>1. PICK t \in Thread : LoadMiss(t) /\ f = want[t]
      <4>1. ASSUME NEW t \in Thread, FrameEnds(t) \/ FrameFails(t) PROVE FALSE
        <5>1. PICK r \in {"ok"} \cup ErrKind : outcome' = [outcome EXCEPT ![cur[t]] = r]
          BY <4>1, PoppedIs DEF Popped
        <5>. QED BY <1>4, <2>3, <5>1 DEF ErrKind
      <4>2. ASSUME NEW t \in Thread, LoadMiss(t) PROVE f = want[t]
        BY <1>4, <2>3, <4>2 DEF LoadMiss
      <4>. QED BY <1>4, <2>3, <4>1, <4>2, StackSteps
    <3>2. outcome[f] = "absent" /\ pos'[f] = pos[f]
      BY <3>1 DEF LoadMiss, StackInv
    <3>3. pos'[f] = 1
      BY <3>2 DEF ClosureInv
    <3>. QED BY <2>1, <3>3
  <2>. QED BY <2>2, <2>3
<1>5. ASSUME NEW f \in File, outcome'[f] = "ok"
      PROVE  Registers(f) \subseteq CheckSet(owner[f])'
  <2>1. CASE outcome[f] = "ok"
    BY <1>3, <2>1 DEF KeptInv
  <2>2. CASE outcome[f] # "ok"
    <3>1. PICK t \in Thread : FrameEnds(t) /\ f = cur[t]
      <4>1. ~ \E t \in Thread : LoadMiss(t)
        BY <1>5, <2>2 DEF LoadMiss
      <4>2. PICK t \in Thread : FrameEnds(t) \/ FrameFails(t)
        BY <1>5, <2>2, <4>1, StackSteps
      <4>3. PICK r \in {"ok"} \cup ErrKind : Popped(t, r)
        BY <4>2, PoppedIs
      <4>. QED BY <1>5, <2>2, <4>3 DEF Popped
    <3>2. outcome[f] = "panic" /\ AtEnd(f)
      BY <3>1, PoppedIs DEF FrameEnds
    <3>3. Registers(f) \subseteq RegistersBefore(f)
      <4>1. ASSUME NEW i \in DOMAIN script[f] PROVE i < pos[f]
        BY <1>2, <3>2 DEF AtEnd
      <4>. QED BY <4>1 DEF Registers, RegistersBefore, Statements
    <3>. QED BY <1>3, <3>2, <3>3 DEF KeptInv
  <2>. QED BY <2>1, <2>2
<1>. QED BY <1>1, <1>4, <1>5 DEF KeptInv

\* When two states hold one check, one source registered it and has one owner.
LEMMA OwnersDiffer ==
  ASSUME CoreInv, OwnedInv, ChecksAreOwn, NEW t \in Thread, NEW u \in Thread, t # u
  PROVE  CheckSet(t) \cap CheckSet(u) = {}
<1>1. ASSUME NEW c \in CheckSet(t) \cap CheckSet(u) PROVE FALSE
  <2>1. PICK f \in File : owner[f] = t /\ c \in Registers(f)
    BY DEF OwnedInv
  <2>2. PICK g \in File : owner[g] = u /\ c \in Registers(g)
    BY DEF OwnedInv
  <2>3. PICK i \in DOMAIN script[f] : script[f][i].op = "register" /\ script[f][i].check = c
    BY <2>1 DEF Registers, Statements
  <2>4. PICK j \in DOMAIN script[g] : script[g][j].op = "register" /\ script[g][j].check = c
    BY <2>2 DEF Registers, Statements
  <2>5. script \in Programs
    BY DEF CoreInv, TypeOK
  <2>6. f = g
    BY <2>3, <2>4, <2>5 DEF ChecksAreOwn
  <2>. QED BY <2>1, <2>2, <2>6
<1>. QED BY <1>1

\* When the phase succeeds, all that is reached has loaded.
LEMMA AllLoaded ==
  ASSUME CoreInv, ClosureInv, QuietInv, SuccessInv, parsed = "ok", NEW t \in Thread
  PROVE  \A f \in Reach(Entry[t]) : f \in File /\ outcome[f] = "ok"
<1>. DEFINE S == {h \in File : outcome[h] = "ok"}
<1>1. Entry[t] \in File
  BY LoaderAssumption DEF Thread
<1>2. pc[t] = "done" /\ err[t] = "none"
  BY DEF QuietInv, SuccessInv
<1>3. Entry[t] \in S
  BY <1>1, <1>2 DEF ClosureInv
<1>4. \A h \in S : LoadedBy(h) \subseteq S
  <2>1. ASSUME NEW h \in S PROVE LoadedBy(h) \subseteq File
    BY LoadedByFiles DEF CoreInv
  <2>. QED BY <2>1 DEF ClosureInv
<1>5. S \in SUBSET File
  OBVIOUS
<1>. HIDE DEF S
<1>6. Closed(S)
  BY <1>4 DEF Closed
<1>7. Reach(Entry[t]) \subseteq S
  BY <1>1, <1>3, <1>5, <1>6, ReachIs DEF CoreInv
<1>. QED BY <1>7 DEF S

\* However the shac.star race for a source, the checks it registers end in
\* exactly one of the states when the phase succeeds, and run once.
THEOREM RegisteredOnceHolds == ASSUME ChecksAreOwn PROVE Spec => []RegisteredOnce
<1>. DEFINE I == /\ CoreInv /\ ChainInv /\ ClosureInv /\ QuietInv
                 /\ SuccessInv /\ OwnedInv /\ KeptInv
<1>1. Init => I
  BY InitCore, InitChain, InitClosure, InitQuiet, InitSuccess, InitKept
<1>2. I /\ [Next]_vars => I'
  BY NextCore, NextChain, NextClosure, NextQuiet, NextSuccess, NextOwned, NextKept
<1>3. I => RegisteredOnce
  <2>. SUFFICES ASSUME I PROVE RegisteredOnce
    OBVIOUS
  <2>1. ASSUME parsed = "ok", NEW t \in Thread, NEW f \in Reach(Entry[t]), NEW s \in Statements(f),
               s.op = "register"
        PROVE  \E u \in Thread : s.check \in CheckSet(u)
    <3>1. f \in File /\ outcome[f] = "ok"
      BY <2>1, AllLoaded
    <3>2. owner[f] \in Thread /\ s.check \in Registers(f)
      BY <2>1, <3>1 DEF CoreInv, TypeOK, StackInv, Registers
    <3>. QED BY <3>1, <3>2 DEF KeptInv
  <2>. QED BY <2>1, OwnersDiffer DEF RegisteredOnce
<1>. QED BY <1>1, <1>2, <1>3, PTL DEF Spec

-----------------------------------------------------------------------------
(* Loader implements Memo.  To what is said above of stacks and locks, this  *)
(* adds where errors come from: an error on its way out of a source has a    *)
(* cause there, or is the result of a source that it loads.                  *)

-----------------------------------------------------------------------------
(* What every step does to results and positions                           *)

\* A source moves on by one statement, which does not fail.
LEMMA Advances ==
  ASSUME CoreInv, ChainInv, [Next]_vars, NEW f \in File
  PROVE  \/ pos'[f] = pos[f]
         \/ /\ pos'[f] = pos[f] + 1
            /\ script[f][pos[f]].op # "fail"
<1>. USE DEF CoreInv, TypeOK, sourceVars
<1>1. ASSUME NEW t \in Thread, LoadReturn(t) PROVE pos'[f] = pos[f] \/ (pos'[f] = pos[f] + 1 /\ script[f][pos[f]].op # "fail")
  <2>1. cur[t] # NoFile => script[cur[t]][pos[cur[t]]].op = "load"
    BY <1>1 DEF LoadReturn, ChainInv, AtLoad
  <2>. QED BY <1>1, <2>1 DEF LoadReturn, StepOver
<1>2. ASSUME NEW t \in Thread, ExecRegister(t) \/ ExecPrint(t) PROVE pos'[f] = pos[f] \/ (pos'[f] = pos[f] + 1 /\ script[f][pos[f]].op # "fail")
  BY <1>2 DEF ExecRegister, ExecPrint, Executes
<1>3. ASSUME NEW t \in Thread, NEW r, PopFrame(t, r), pc[t] \in {"exec", "unwind"}
      PROVE  pos'[f] = pos[f] \/ (pos'[f] = pos[f] + 1 /\ script[f][pos[f]].op # "fail")
  <2>1. cur[t] \in File /\ outcome[cur[t]] = "panic"
    BY <1>3 DEF ControlInv, StackInv
  <2>2. parent[cur[t]] # NoFile => script[parent[cur[t]]][pos[parent[cur[t]]]].op = "load"
    BY <2>1 DEF ChainInv, AtLoad
  <2>. QED BY <1>3, <2>1, <2>2 DEF PopFrame, StepOver
<1>4. ASSUME NEW t \in Thread, Step(t) PROVE pos'[f] = pos[f] \/ (pos'[f] = pos[f] + 1 /\ script[f][pos[f]].op # "fail")
  BY <1>1, <1>2, <1>3, <1>4 DEF Step, Load, Exec, Launch, LoadMiss, LoadAgain, LoadCycle, LoadOther,
     LockAcquired, OpenFails, ExecLoad, ExecDuplicate, ExecFail, FrameEnds, FrameFails, Return
<1>. QED BY <1>4 DEF Next, Over, Wait, vars

-----------------------------------------------------------------------------
(* Where errors come from                                                  *)

\* No source gets past an expression that fails.
FailInv == \A f \in File : \A i \in DOMAIN script[f] : i < pos[f] => script[f][i].op # "fail"

\* A source that cannot be opened loads nothing.
OpenInv ==
  /\ \A t \in Thread : pc[t] \in {"enter", "wait", "read"} /\ cur[t] # NoFile => cur[t] \notin Missing
  /\ \A f \in File : outcome[f] = "panic" /\ parent[f] # NoFile => parent[f] \notin Missing

\* Source f may fail with e: a statement of its own, or a source it loads.
Cause(f, e) == e \in OwnErrors(f) \/ \E g \in OwnLoads(f) : outcome[g] = e

\* The error that leaves a source has a cause there; that of a goroutine which
\* returns is the result of its shac.star.
CauseInv ==
  /\ \A t \in Thread : pc[t] = "unwind" => Cause(cur[t], err[t])
  /\ \A t \in Thread : pc[t] = "returned" /\ err[t] # "none" => outcome[Entry[t]] = err[t]

\* The errgroup has the error of a goroutine that is done, if there is one.
GroupInv ==
  /\ egErr = "none" => \A t \in Thread : pc[t] = "done" => err[t] = "none"
  /\ egErr # "none" => \E t \in Thread : pc[t] = "done" /\ err[t] = egErr

\* At the start nothing has moved, opened or failed.
LEMMA InitPromise == Init => FailInv /\ OpenInv /\ CauseInv /\ GroupInv
<1>. SUFFICES ASSUME Init PROVE FailInv /\ OpenInv /\ CauseInv /\ GroupInv
  OBVIOUS
<1>1. FailInv
  <2>1. script \in [File -> Seq(Stmt)]
    BY LoaderAssumption DEF Init
  <2>. QED BY <2>1 DEF Init, FailInv
<1>. QED BY <1>1 DEF Init, OpenInv, CauseInv, GroupInv

\* A step over a statement is never one over a failing expression.
LEMMA NextFail == ASSUME CoreInv, ChainInv, FailInv, [Next]_vars PROVE FailInv'
<1>. SUFFICES ASSUME NEW f \in File, NEW i \in DOMAIN script[f], i < pos'[f]
              PROVE  script[f][i].op # "fail"
  BY TreeStays DEF FailInv
<1>1. i \in Nat /\ pos[f] \in Nat
  <2>1. script[f] \in Seq(Stmt)
    BY LoaderAssumption DEF CoreInv, TypeOK
  <2>. QED BY <2>1 DEF CoreInv, TypeOK
<1>2. CASE i < pos[f]
  BY <1>2 DEF FailInv
<1>3. CASE ~(i < pos[f])
  <2>1. i = pos[f] /\ pos'[f] = pos[f] + 1
    BY <1>1, <1>3, Advances
  <2>. QED BY <1>1, <2>1, Advances
<1>. QED BY <1>2, <1>3

\* Steps after which no other thread is about to load.
LEMMA StillOpen ==
  ASSUME OpenInv, UNCHANGED <<outcome, parent, cur>>,
         \A u \in Thread : pc'[u] \in {"enter", "wait", "read"} =>
           pc[u] \in {"enter", "wait", "read"} \/ cur[u] \notin Missing
  PROVE  OpenInv'
BY DEF OpenInv

\* A source is opened before its first load, by every step.
LEMMA NextOpen == ASSUME CoreInv, OpenInv, [Next]_vars PROVE OpenInv'
<1>1. ASSUME NEW t \in Thread, LoadMiss(t) PROVE OpenInv'
  BY <1>1, LoaderAssumption DEF LoadMiss, OpenInv, CoreInv, TypeOK, StackInv
<1>2. ASSUME NEW t \in Thread, FrameEnds(t) \/ FrameFails(t) PROVE OpenInv'
  <2>1. ASSUME NEW r \in {"ok"} \cup ErrKind, PopFrame(t, r), pc[t] \in {"exec", "unwind"}
        PROVE  OpenInv'
    <3>1. r # "panic"
      BY DEF ErrKind
    <3>. QED BY <2>1, <3>1, LoaderAssumption DEF PopFrame, After, OpenInv, CoreInv, TypeOK, ControlInv
  <2>. QED BY <1>2, <2>1 DEF FrameEnds, FrameFails, CoreInv, ControlInv
<1>3. ASSUME NEW t \in Thread, \/ Launch(t) \/ LoadAgain(t) \/ LoadOther(t) \/ LockAcquired(t)
                               \/ LoadReturn(t) \/ ExecLoad(t)
      PROVE  OpenInv'
  <2>1. pc[t] = "queued" => cur[t] \notin Missing
    BY LoaderAssumption DEF CoreInv, ControlInv
  <2>2. DOMAIN pc = Thread
    BY DEF CoreInv, TypeOK
  <2>. QED BY <1>3, <2>1, <2>2, StillOpen DEF Launch, LoadAgain, LoadOther, LockAcquired, LoadReturn, After,
           ExecLoad, Executes, sourceVars
<1>4. ASSUME NEW t \in Thread, \/ LoadCycle(t) \/ OpenFails(t) \/ ExecRegister(t) \/ ExecDuplicate(t)
                               \/ ExecPrint(t) \/ ExecFail(t) \/ Return(t)
      PROVE  OpenInv'
  <2>1. DOMAIN pc = Thread
    BY DEF CoreInv, TypeOK
  <2>. QED BY <1>4, <2>1, StillOpen DEF LoadCycle, OpenFails, ExecRegister, ExecDuplicate, ExecPrint,
           ExecFail, Return, sourceVars
<1>5. ASSUME NEW t \in Thread, Step(t) PROVE OpenInv'
  BY <1>1, <1>2, <1>3, <1>4, <1>5 DEF Step, Load, Exec
<1>6. CASE Wait
  BY <1>6, StillOpen DEF Wait, sourceVars
<1>7. CASE UNCHANGED vars
  BY <1>7, StillOpen DEF vars, sourceVars
<1>. QED BY <1>5, <1>6, <1>7 DEF Next, Over

\* A cause stays one: what a source evaluated to is final.
LEMMA CauseStays ==
  ASSUME CoreInv, [Next]_vars, NEW f \in File, NEW e \in ErrKind, Cause(f, e)
  PROVE  Cause(f, e)'
<1>1. OwnErrors(f)' = OwnErrors(f) /\ OwnLoads(f)' = OwnLoads(f)
  BY TreeStays DEF OwnErrors, OwnLoads, Has, LoadedBy, Statements
<1>2. OwnLoads(f) \subseteq File
  BY LoadedByFiles DEF OwnLoads, CoreInv
<1>3. ASSUME NEW g \in OwnLoads(f), outcome[g] = e PROVE outcome'[g] = e
  <2>1. g \in File /\ Finished(g)
    BY <1>2, <1>3 DEF Finished, ErrKind
  <2>. QED BY <1>3, <2>1, SettledStays
<1>. QED BY <1>1, <1>3 DEF Cause

\* The statement that a thread executes is one of its source.
LEMMA HasStatement ==
  ASSUME TypeOK, NEW t \in Thread, NEW op, Executes(t, op), cur[t] \in File
  PROVE  Has(cur[t], op)
<1>1. script[cur[t]] \in Seq(Stmt) /\ pos[cur[t]] \in Nat \ {0}
  BY LoaderAssumption DEF TypeOK
<1>2. pos[cur[t]] \in DOMAIN script[cur[t]]
  BY <1>1 DEF Executes, AtEnd
<1>. QED BY <1>2 DEF Executes, Has, Statements

\* A source that is stopped at a load has a load statement.
LEMMA HasLoad ==
  ASSUME TypeOK, NEW p \in File, NEW g, AtLoad(p, g)
  PROVE  Has(p, "load")
<1>1. script[p] \in Seq(Stmt) /\ pos[p] \in Nat \ {0}
  BY LoaderAssumption DEF TypeOK
<1>2. pos[p] \in DOMAIN script[p]
  BY <1>1 DEF AtLoad, AtEnd
<1>. QED BY <1>2 DEF AtLoad, Has, Statements

\* Steps that raise an error, and what of.
LEMMA RaisesCause ==
  ASSUME CoreInv, ChainInv, OpenInv, NEW t \in Thread,
         LoadCycle(t) \/ OpenFails(t) \/ ExecDuplicate(t) \/ ExecFail(t)
  PROVE  cur[t] \in File /\ Cause(cur[t], err'[t])
<1>. USE DEF CoreInv
<1>1. CASE LoadCycle(t)
  <2>1. cur[t] \in File /\ AtLoad(cur[t], want[t]) /\ cur[t] \notin Missing /\ err'[t] = "cycle"
    BY <1>1 DEF LoadCycle, ControlInv, ChainInv, OpenInv, TypeOK
  <2>. QED BY <2>1, HasLoad DEF Cause, OwnErrors, ErrKind
<1>2. CASE OpenFails(t)
  BY <1>2, LoaderAssumption DEF OpenFails, TypeOK, Cause, OwnErrors
<1>3. CASE ExecDuplicate(t)
  <2>1. cur[t] \in File /\ err'[t] = "duplicate" /\ Executes(t, "register") /\ cur[t] \notin Missing
    BY <1>3 DEF ExecDuplicate, Executes, ControlInv, TypeOK
  <2>. QED BY <2>1, HasStatement DEF Cause, OwnErrors, ErrKind
<1>4. CASE ExecFail(t)
  <2>1. cur[t] \in File /\ err'[t] = "failed" /\ Executes(t, "fail") /\ cur[t] \notin Missing
    BY <1>4 DEF ExecFail, Executes, ControlInv, TypeOK
  <2>. QED BY <2>1, HasStatement DEF Cause, OwnErrors, ErrKind
<1>. QED BY <1>1, <1>2, <1>3, <1>4

\* What another thread does leaves the error of this one, and its cause.
LEMMA OthersKeepCause ==
  ASSUME CoreInv, CauseInv, [Next]_vars, NEW u \in Thread,
         pc'[u] = pc[u], err'[u] = err[u], cur'[u] = cur[u]
  PROVE  /\ pc'[u] = "unwind" => Cause(cur[u], err[u])'
         /\ pc'[u] = "returned" /\ err'[u] # "none" => outcome'[Entry[u]] = err'[u]
<1>1. ASSUME pc[u] = "unwind" PROVE Cause(cur[u], err[u])'
  <2>1. cur[u] \in File /\ err[u] \in ErrKind /\ Cause(cur[u], err[u])
    BY <1>1 DEF CoreInv, TypeOK, ControlInv, CauseInv
  <2>2. \A f \in File : \A e \in ErrKind : Cause(f, e) => Cause(f, e)'
    BY CauseStays
  <2>. QED BY <2>1, <2>2
<1>2. ASSUME pc[u] = "returned", err[u] # "none" PROVE outcome'[Entry[u]] = err[u]
  <2>1. Entry[u] \in File
    BY LoaderAssumption DEF Thread
  <2>2. outcome[Entry[u]] = err[u] /\ err[u] \in ErrKind
    BY <1>2 DEF CauseInv, CoreInv, TypeOK
  <2>. QED BY <2>1, <2>2, SettledStays DEF Finished, ErrKind
<1>. QED BY <1>1, <1>2

\* A source that fails is a cause of failure of the source that loads it.
LEMMA FailedFrameCause ==
  ASSUME CoreInv, ChainInv, ClosureInv, OpenInv, NEW t \in Thread, FrameFails(t),
         NEW f \in File, cur[t] = f, NEW p \in File \cup {NoFile}, parent[f] = p
  PROVE  /\ pc'[t] = "unwind" => Cause(cur[t], err[t])'
         /\ pc'[t] = "returned" /\ err'[t] # "none" => outcome'[Entry[t]] = err'[t]
<1>. USE DEF CoreInv
<1>1. /\ owner[f] = t /\ outcome[f] = "panic" /\ err[t] \in ErrKind /\ err[t] # "ok"
      /\ DOMAIN outcome = File /\ DOMAIN cur = Thread /\ DOMAIN pc = Thread
  BY LoaderAssumption DEF FrameFails, TypeOK, ControlInv, StackInv, ErrKind
<1>2. /\ outcome' = [outcome EXCEPT ![f] = err[t]] /\ cur' = [cur EXCEPT ![t] = p]
      /\ pc' = [pc EXCEPT ![t] = IF p = NoFile THEN "returned" ELSE "unwind"]
      /\ err' = err /\ script' = script
  BY <1>1 DEF FrameFails, PopFrame, After
<1>3. /\ outcome'[f] = err[t] /\ cur'[t] = p /\ err'[t] = err[t]
      /\ pc'[t] = IF p = NoFile THEN "returned" ELSE "unwind"
  BY <1>1, <1>2
<1>4. ASSUME p # NoFile PROVE Cause(p, err[t])'
  <2>1. p \in File /\ p \notin Missing /\ AtLoad(p, f)
    BY <1>1, <1>4 DEF OpenInv, ChainInv
  <2>2. f \in OwnLoads(p)
    BY <2>1, AtLoadLoads DEF OwnLoads
  <2>3. OwnLoads(p)' = OwnLoads(p)
    BY <1>2 DEF OwnLoads, LoadedBy, Statements
  <2>. QED BY <1>3, <2>2, <2>3 DEF Cause
<1>5. p = NoFile => f = Entry[t]
  BY <1>1 DEF ClosureInv
<1>6. p # NoFile => Cause(cur[t], err[t])'
  BY <1>3, <1>4 DEF Cause, OwnErrors, OwnLoads, LoadedBy, Statements, Has
<1>. QED BY <1>3, <1>5, <1>6

\* Whatever step is taken, errors keep having a cause.
LEMMA NextCause ==
  ASSUME CoreInv, ChainInv, ClosureInv, OpenInv, CauseInv, [Next]_vars PROVE CauseInv'
<1>. USE DEF CoreInv
<1>1. ASSUME NEW t \in Thread, NEW u \in Thread, Step(t), u # t
      PROVE  pc'[u] = pc[u] /\ err'[u] = err[u] /\ cur'[u] = cur[u]
  BY <1>1 DEF TypeOK, Step, Load, Exec, Launch, LoadMiss, LoadAgain, LoadCycle, LoadOther, LockAcquired,
     LoadReturn, OpenFails, ExecLoad, ExecRegister, ExecDuplicate, ExecPrint, ExecFail, FrameEnds,
     FrameFails, PopFrame, Return
<1>2. ASSUME NEW t \in Thread, LoadCycle(t) \/ OpenFails(t) \/ ExecDuplicate(t) \/ ExecFail(t)
      PROVE  pc'[t] = "unwind" /\ cur'[t] = cur[t] /\ Cause(cur[t], err[t])'
  <2>1. /\ pc'[t] = "unwind" /\ cur' = cur /\ err'[t] \in ErrKind
    BY <1>2 DEF LoadCycle, OpenFails, ExecDuplicate, ExecFail, TypeOK, ErrKind
  <2>2. cur[t] \in File /\ Cause(cur[t], err'[t])
    BY <1>2, RaisesCause
  <2>. QED BY <2>1, <2>2, CauseStays
<1>3. ASSUME NEW t \in Thread, \/ Launch(t) \/ LoadMiss(t) \/ LoadAgain(t) \/ LoadOther(t)
                               \/ LockAcquired(t) \/ ExecLoad(t) \/ ExecRegister(t) \/ ExecPrint(t)
                               \/ Return(t)
      PROVE  pc'[t] \notin {"unwind", "returned"}
  <2>1. DOMAIN pc = Thread
    BY DEF TypeOK
  <2>. QED BY <1>3, <2>1 DEF Launch, LoadMiss, LoadAgain, LoadOther, LockAcquired, ExecLoad, ExecRegister,
           ExecPrint, Executes, Return
<1>4. ASSUME NEW t \in Thread, LoadReturn(t)
      PROVE  /\ pc'[t] = "unwind" => Cause(cur[t], err[t])'
             /\ pc'[t] = "returned" /\ err'[t] # "none" => outcome'[Entry[t]] = err'[t]
  <2>1. /\ want[t] \in File /\ pc[t] = "read" /\ outcome' = outcome /\ cur' = cur /\ script' = script
        /\ pc'[t] = After(cur[t], outcome[want[t]] # "ok")
        /\ err'[t] = IF outcome[want[t]] # "ok" THEN outcome[want[t]] ELSE "none"
    BY <1>4 DEF LoadReturn, TypeOK
  <2>2. ASSUME pc'[t] = "unwind" PROVE Cause(cur[t], err[t])'
    <3>1. cur[t] \in File /\ AtLoad(cur[t], want[t]) /\ cur[t] \notin Missing
      BY <2>1, <2>2 DEF After, TypeOK, ChainInv, OpenInv
    <3>2. outcome'[want[t]] = err'[t]
      BY <2>1, <2>2 DEF After
    <3>3. want[t] \in OwnLoads(cur[t])' /\ cur'[t] = cur[t]
      BY <2>1, <3>1, AtLoadLoads DEF OwnLoads, LoadedBy, Statements
    <3>. QED BY <3>2, <3>3 DEF Cause
  <2>3. ASSUME pc'[t] = "returned", err'[t] # "none" PROVE outcome'[Entry[t]] = err'[t]
    <3>1. cur[t] = NoFile
      BY <2>1, <2>3 DEF After
    <3>2. want[t] = Entry[t]
      BY <2>1, <3>1 DEF ClosureInv
    <3>. QED BY <2>1, <2>3, <3>2
  <2>. QED BY <2>2, <2>3
<1>5. ASSUME NEW t \in Thread, FrameEnds(t) PROVE pc'[t] # "unwind" /\ err'[t] = "none"
  <2>1. DOMAIN pc = Thread /\ err[t] = "none"
    BY <1>5 DEF FrameEnds, TypeOK, ControlInv
  <2>. QED BY <1>5, <2>1 DEF FrameEnds, PopFrame, After
<1>6. ASSUME NEW t \in Thread, FrameFails(t)
      PROVE  /\ pc'[t] = "unwind" => Cause(cur[t], err[t])'
             /\ pc'[t] = "returned" /\ err'[t] # "none" => outcome'[Entry[t]] = err'[t]
  BY <1>6, FailedFrameCause DEF FrameFails, ControlInv, TypeOK
<1>. DEFINE Good(u) == /\ pc'[u] = "unwind" => Cause(cur[u], err[u])'
                       /\ pc'[u] = "returned" /\ err'[u] # "none" => outcome'[Entry[u]] = err'[u]
<1>7. ASSUME NEW t \in Thread, Step(t) PROVE Good(t)
  BY <1>2, <1>3, <1>4, <1>5, <1>6, <1>7 DEF Step, Load, Exec
<1>8. ASSUME NEW t \in Thread, Step(t), NEW u \in Thread PROVE Good(u)
  <2>1. CASE u = t
    BY <1>7, <1>8, <2>1
  <2>2. CASE u # t
    BY <1>1, <1>8, <2>2, OthersKeepCause
  <2>. QED BY <2>1, <2>2
<1>9. ASSUME Wait \/ UNCHANGED vars, NEW u \in Thread PROVE Good(u)
  <2>1. pc'[u] = pc[u] /\ err'[u] = err[u] /\ cur'[u] = cur[u]
    BY <1>9 DEF Wait, vars
  <2>. QED BY <2>1, OthersKeepCause
<1>10. ASSUME NEW u \in Thread PROVE Good(u)
  BY <1>8, <1>9, <1>10 DEF Next, Over
<1>. QED BY <1>10 DEF CauseInv

\* Steps after which the same goroutines are done, with the same results.
LEMMA StillGroup ==
  ASSUME GroupInv, egErr' = egErr,
         \A u \in Thread : /\ pc'[u] = "done" <=> pc[u] = "done"
                           /\ pc[u] = "done" => err'[u] = err[u]
  PROVE  GroupInv'
<1>1. CASE egErr = "none"
  BY <1>1 DEF GroupInv
<1>2. CASE egErr # "none"
  <2>1. PICK t \in Thread : pc[t] = "done" /\ err[t] = egErr
    BY <1>2 DEF GroupInv
  <2>2. pc'[t] = "done" /\ err'[t] = egErr'
    BY <2>1
  <2>. QED BY <1>2, <2>2 DEF GroupInv
<1>. QED BY <1>1, <1>2

\* The errgroup learns the error of a goroutine in the step that ends it.
LEMMA NextGroup == ASSUME CoreInv, GroupInv, [Next]_vars PROVE GroupInv'
<1>. USE DEF CoreInv, TypeOK
<1>1. ASSUME NEW t \in Thread, \/ Launch(t) \/ Load(t) \/ Exec(t)
      PROVE  egErr' = egErr /\ \A u \in Thread :
               /\ pc'[u] = "done" <=> pc[u] = "done"
               /\ pc[u] = "done" => err'[u] = err[u]
  BY <1>1 DEF Load, Exec, Launch, LoadMiss, LoadAgain, LoadCycle, LoadOther, LockAcquired, LoadReturn,
     OpenFails, ExecLoad, ExecRegister, ExecDuplicate, ExecPrint, ExecFail, Executes, FrameEnds,
     FrameFails, PopFrame, After, groupVars
<1>2. ASSUME NEW t \in Thread, Return(t) PROVE GroupInv'
  <2>1. /\ pc[t] = "returned" /\ pc' = [pc EXCEPT ![t] = "done"] /\ err' = [err EXCEPT ![t] = err'[t]]
        /\ egErr' = IF egErr = "none" THEN err'[t] ELSE egErr
    BY <1>2 DEF Return
  <2>2. \A u \in Thread : u # t => (pc'[u] = pc[u] /\ err'[u] = err[u])
    BY <2>1
  <2>3. pc'[t] = "done"
    BY <2>1
  <2>4. CASE egErr = "none"
    BY <2>1, <2>2, <2>3, <2>4 DEF GroupInv
  <2>5. CASE egErr # "none"
    BY <2>1, <2>2, <2>3, <2>5 DEF GroupInv
  <2>. QED BY <2>4, <2>5
<1>3. CASE Wait \/ UNCHANGED vars
  BY <1>3, StillGroup DEF Wait, vars, groupVars
<1>4. ASSUME NEW t \in Thread, Step(t) PROVE GroupInv'
  BY <1>1, <1>2, <1>4, StillGroup DEF Step
<1>. QED BY <1>3, <1>4 DEF Next, Over

-----------------------------------------------------------------------------
(* The invariant of the refinement                                         *)

\* What relates a state of Loader to one of Memo.
ImplInv ==
  /\ CoreInv /\ ChainInv /\ ClosureInv /\ QuietInv
  /\ FailInv /\ OpenInv /\ CauseInv /\ GroupInv

\* Errors have causes, and failing sources do not succeed, in every state.
THEOREM ImplInvariance == Spec => []ImplInv
<1>1. Init => ImplInv
  BY InitCore, InitChain, InitClosure, InitQuiet, InitPromise DEF ImplInv
<1>2. ImplInv /\ [Next]_vars => ImplInv'
  BY NextCore, NextChain, NextClosure, NextQuiet, NextFail, NextOpen, NextCause, NextGroup DEF ImplInv
<1>. QED BY <1>1, <1>2, PTL DEF Spec

-----------------------------------------------------------------------------
(* Steps of Loader as steps of Memo                                        *)

\* What Memo sees depends on the results, the answers and the verdict.
LEMMA SameTree ==
  ASSUME script' = script
  PROVE  /\ \A f \in File : OwnLoads(f)' = OwnLoads(f) /\ OwnErrors(f)' = OwnErrors(f)
         /\ Promise!tree' = Promise!tree
<1>1. \A f \in File : OwnLoads(f)' = OwnLoads(f) /\ OwnErrors(f)' = OwnErrors(f)
  BY DEF OwnErrors, OwnLoads, Has, LoadedBy, Statements
<1>2. \A f \in File : Has(f, "fail")' = Has(f, "fail")
  BY DEF Has, Statements
<1>. QED BY <1>1, <1>2 DEF Promise!tree

\* A step that changes none of them is a stutter of Memo.
LEMMA Stutters ==
  ASSUME script' = script, parsed' = parsed,
         \A f \in File : ResultOf(f)' = ResultOf(f),
         \A t \in Thread : AnswerOf(t)' = AnswerOf(t)
  PROVE  UNCHANGED Promise!vars
BY SameTree DEF Promise!vars

\* The parse phase starts with no result and no answer.
LEMMA InitRefines == Init => Promise!Init
BY DEF Init, Promise!Init, ResultOf, AnswerOf, Finished

\* A source settles: its frame is popped.
LEMMA Settling ==
  ASSUME TypeOK, NEW f \in File, NEW r \in {"ok"} \cup ErrKind,
         outcome[f] = "panic", outcome' = [outcome EXCEPT ![f] = r],
         \/ /\ r = "ok" /\ f \notin Missing /\ ~Has(f, "fail")
            /\ \A g \in LoadedBy(f) : outcome[g] = "ok"
         \/ r \in ErrKind /\ Cause(f, r),
         parsed = "running", parsed' = parsed, script' = script,
         \A t \in Thread : AnswerOf(t)' = AnswerOf(t)
  PROVE  Promise!Settle(f)
<1>1. ResultOf(f) = "pending"
  BY DEF ResultOf, Finished
<1>2. [g \in File |-> ResultOf(g)]' = [[g \in File |-> ResultOf(g)] EXCEPT ![f] = r]
  <2>1. r \notin {"absent", "panic"}
    BY DEF ErrKind
  <2>2. \A g \in File : outcome'[g] = IF g = f THEN r ELSE outcome[g]
    BY DEF TypeOK
  <2>. QED BY <2>1, <2>2 DEF ResultOf, Finished
<1>3. \A g \in OwnLoads(f) : g \in File
  BY LoadedByFiles DEF OwnLoads
<1>4. CASE /\ r = "ok" /\ f \notin Missing /\ ~Has(f, "fail")
           /\ \A g \in LoadedBy(f) : outcome[g] = "ok"
  <2>1. \A g \in OwnLoads(f) : g \in File /\ ResultOf(g) = "ok"
    BY <1>3, <1>4 DEF OwnLoads, ResultOf, Finished
  <2>2. Promise!MaySucceed(f)
    BY <1>4, <2>1 DEF Promise!MaySucceed
  <2>. QED BY <1>1, <1>2, <1>4, <2>2, SameTree DEF Promise!Settle
<1>5. CASE r \in ErrKind /\ Cause(f, r)
  <2>1. \A g \in File : outcome[g] = r => ResultOf(g) = r
    BY <1>5 DEF ResultOf, Finished, ErrKind
  <2>2. Promise!MayFail(f, r)
    BY <1>3, <1>5, <2>1 DEF Promise!MayFail, Cause
  <2>. QED BY <1>1, <1>2, <1>5, <2>2, SameTree DEF Promise!Settle
<1>. QED BY <1>4, <1>5

\* A source that reaches its end may succeed: all it loads did.
LEMMA FrameEndsRefines ==
  ASSUME ImplInv, NEW t \in Thread, FrameEnds(t), NEW f \in File, cur[t] = f
  PROVE  Promise!Settle(f)
<1>. USE DEF ImplInv, CoreInv
<1>1. /\ pc[t] = "exec" /\ f \notin Missing /\ AtEnd(f)
      /\ outcome[f] = "panic" /\ outcome' = [outcome EXCEPT ![f] = "ok"]
      /\ err' = err /\ script' = script /\ parsed' = parsed
      /\ pc' = [pc EXCEPT ![t] = pc'[t]] /\ pc'[t] # "done"
  BY LoaderAssumption DEF FrameEnds, PopFrame, After, StackInv, TypeOK, groupVars
<1>2. ~Has(f, "fail")
  <2>1. script[f] \in Seq(Stmt) /\ pos[f] \in Nat
    BY LoaderAssumption DEF TypeOK
  <2>2. \A i \in DOMAIN script[f] : i < pos[f]
    BY <1>1, <2>1 DEF AtEnd
  <2>. QED BY <2>2 DEF Has, Statements, FailInv
<1>3. \A g \in LoadedBy(f) : outcome[g] = "ok"
  BY <1>1, BeforeAtEnd DEF ClosureInv
<1>4. parsed = "running"
  BY <1>1 DEF QuietInv
<1>5. \A u \in Thread : AnswerOf(u)' = AnswerOf(u)
  BY <1>1 DEF AnswerOf, TypeOK
<1>. QED BY <1>1, <1>2, <1>3, <1>4, <1>5, Settling

\* A source that unwinds may fail with the error it unwinds with.
LEMMA FrameFailsRefines ==
  ASSUME ImplInv, NEW t \in Thread, FrameFails(t), NEW f \in File, cur[t] = f
  PROVE  Promise!Settle(f)
<1>. USE DEF ImplInv, CoreInv
<1>1. /\ pc[t] = "unwind" /\ err[t] \in ErrKind
      /\ outcome[f] = "panic" /\ outcome' = [outcome EXCEPT ![f] = err[t]]
      /\ err' = err /\ script' = script /\ parsed' = parsed
      /\ pc' = [pc EXCEPT ![t] = pc'[t]] /\ pc'[t] # "done"
  BY LoaderAssumption DEF FrameFails, PopFrame, After, StackInv, ControlInv, TypeOK, groupVars
<1>2. Cause(f, err[t])
  BY <1>1 DEF CauseInv
<1>3. parsed = "running"
  BY <1>1 DEF QuietInv
<1>4. \A u \in Thread : AnswerOf(u)' = AnswerOf(u)
  BY <1>1 DEF AnswerOf, TypeOK
<1>. QED BY <1>1, <1>2, <1>3, <1>4, Settling

\* A goroutine answers with the result of its shac.star, or with forgot.
LEMMA ReturnRefines ==
  ASSUME ImplInv, NEW t \in Thread, Return(t) PROVE Promise!Answer(t)
<1>. USE DEF ImplInv, CoreInv
<1>. DEFINE a == AnswerOf(t)'
<1>1. /\ pc[t] = "returned" /\ pc' = [pc EXCEPT ![t] = "done"]
      /\ err' = [err EXCEPT ![t] = err'[t]] /\ err'[t] \in {"forgot", err[t]}
      /\ err[t] # "none" => err'[t] = err[t]
      /\ script' = script /\ parsed' = parsed /\ outcome' = outcome
  BY DEF Return, TypeOK, sourceVars
<1>2. Entry[t] \in File /\ err[t] \in {"none"} \cup ErrKind
  BY LoaderAssumption DEF Thread, TypeOK
<1>3. /\ err[t] = "none" => ResultOf(Entry[t]) = "ok"
      /\ err[t] # "none" => ResultOf(Entry[t]) = err[t]
  BY <1>1, <1>2 DEF ClosureInv, CauseInv, ResultOf, Finished, ErrKind
<1>4. AnswerOf(t) = "pending" /\ AnswerOf(t)' = IF err'[t] = "none" THEN "ok" ELSE err'[t]
  BY <1>1 DEF AnswerOf, TypeOK
<1>5. [u \in Thread |-> AnswerOf(u)]' = [[u \in Thread |-> AnswerOf(u)] EXCEPT ![t] = a]
  <2>1. \A u \in Thread : u # t => AnswerOf(u)' = AnswerOf(u)
    BY <1>1 DEF AnswerOf, TypeOK
  <2>. QED BY <2>1
<1>6. a = ResultOf(Entry[t]) \/ (ResultOf(Entry[t]) = "ok" /\ a = "forgot")
  BY <1>1, <1>3, <1>4
<1>7. ResultOf(Entry[t]) # "pending"
  BY <1>2, <1>3 DEF ErrKind
<1>8. \A f \in File : ResultOf(f)' = ResultOf(f)
  BY <1>1 DEF ResultOf, Finished
<1>. QED BY <1>1, <1>2, <1>4, <1>5, <1>6, <1>7, <1>8, SameTree DEF Promise!Answer

\* eg.Wait() returns one of the failures, if there is one.
LEMMA WaitRefines == ASSUME ImplInv, Wait PROVE Promise!Conclude
<1>. USE DEF ImplInv, CoreInv
<1>1. /\ parsed = "running" /\ parsed' = IF egErr = "none" THEN "ok" ELSE egErr
      /\ script' = script /\ \A f \in File : ResultOf(f)' = ResultOf(f)
      /\ \A t \in Thread : AnswerOf(t)' = AnswerOf(t)
  BY DEF Wait, sourceVars, ResultOf, Finished, AnswerOf
<1>2. \A t \in Thread : /\ pc[t] = "done" /\ AnswerOf(t) # "pending"
                        /\ AnswerOf(t) = IF err[t] = "none" THEN "ok" ELSE err[t]
  BY DEF Wait, AnswerOf, TypeOK, ErrKind
<1>3. CASE egErr = "none"
  <2>1. \A t \in Thread : AnswerOf(t) = "ok"
    BY <1>2, <1>3 DEF GroupInv
  <2>. QED BY <1>1, <1>2, <1>3, <2>1, SameTree DEF Promise!Conclude
<1>4. CASE egErr # "none"
  <2>1. PICK t \in Thread : err[t] = egErr
    BY <1>4 DEF GroupInv
  <2>2. AnswerOf(t) = egErr /\ egErr # "ok"
    BY <1>2, <1>4, <2>1 DEF TypeOK, ErrKind
  <2>. QED BY <1>1, <1>2, <1>4, <2>2, SameTree DEF Promise!Conclude
<1>. QED BY <1>3, <1>4

\* The other steps cannot be seen in Memo.
LEMMA OtherRefines ==
  ASSUME ImplInv, NEW t \in Thread, \/ Launch(t) \/ Load(t) \/ OpenFails(t) \/ ExecLoad(t)
                                   \/ ExecRegister(t) \/ ExecDuplicate(t) \/ ExecPrint(t)
                                   \/ ExecFail(t)
  PROVE  UNCHANGED Promise!vars
<1>. USE DEF ImplInv, CoreInv, TypeOK
<1>1. script' = script /\ parsed' = parsed
  BY DEF Load, Launch, LoadMiss, LoadAgain, LoadCycle, LoadOther, LockAcquired, LoadReturn, OpenFails,
     ExecLoad, ExecRegister, ExecDuplicate, ExecPrint, ExecFail, groupVars
<1>2. \A u \in Thread : /\ pc'[u] = "done" <=> pc[u] = "done"
                        /\ pc[u] = "done" => err'[u] = err[u]
  BY DEF Load, Launch, LoadMiss, LoadAgain, LoadCycle, LoadOther, LockAcquired, LoadReturn, OpenFails,
     ExecLoad, ExecRegister, ExecDuplicate, ExecPrint, ExecFail, Executes, After
<1>3. \A f \in File : outcome'[f] = outcome[f] \/ (outcome[f] = "absent" /\ outcome'[f] = "panic")
  BY DEF Load, Launch, LoadMiss, LoadAgain, LoadCycle, LoadOther, LockAcquired, LoadReturn, OpenFails,
     ExecLoad, ExecRegister, ExecDuplicate, ExecPrint, ExecFail, sourceVars, StackInv
<1>4. \A f \in File : ResultOf(f)' = ResultOf(f)
  BY <1>3 DEF ResultOf, Finished
<1>5. \A u \in Thread : AnswerOf(u)' = AnswerOf(u)
  BY <1>2 DEF AnswerOf
<1>. QED BY <1>1, <1>4, <1>5, Stutters

\* Every step of Loader is a step or a stutter of Memo.
LEMMA NextRefines == ASSUME ImplInv, [Next]_vars PROVE [Promise!Next]_(Promise!vars)
<1>1. ASSUME NEW t \in Thread, FrameEnds(t) \/ FrameFails(t) PROVE Promise!Next
  <2>1. PICK f \in File : cur[t] = f
    BY <1>1 DEF FrameEnds, FrameFails, ImplInv, CoreInv, ControlInv, TypeOK
  <2>. QED BY <1>1, <2>1, FrameEndsRefines, FrameFailsRefines DEF Promise!Next
<1>2. ASSUME NEW t \in Thread, Return(t) PROVE Promise!Next
  BY <1>2, ReturnRefines DEF Promise!Next
<1>3. ASSUME NEW t \in Thread, Step(t) PROVE [Promise!Next]_(Promise!vars)
  BY <1>1, <1>2, <1>3, OtherRefines DEF Step, Exec
<1>4. CASE Wait
  BY <1>4, WaitRefines DEF Promise!Next
<1>5. CASE UNCHANGED vars
  <2>1. /\ script' = script /\ parsed' = parsed
        /\ outcome' = outcome /\ pc' = pc /\ err' = err
    BY <1>5 DEF vars, sourceVars, groupVars
  <2>. QED BY <2>1, Stutters DEF ResultOf, Finished, AnswerOf
<1>. QED BY <1>3, <1>4, <1>5 DEF Next, Over

\* However its goroutines interleave and whatever fails in them, the parse
\* phase looks like a table of results, each settled once, with a verdict that
\* is a failure of a shac.star if there is one.
THEOREM LoaderKeepsPromise == Spec => KeepsPromise
BY ImplInvariance, InitRefines, NextRefines, PTL DEF Spec, KeepsPromise, Promise!Spec
=============================================================================

--------------------------- MODULE CheckRunProofs ---------------------------
(***************************************************************************)
(* Proofs about CheckRun, for any number of checks, subprocesses, tokens   *)
(* and buffers.  Checks, subprocesses, the semaphore and the pool share no *)
(* lock: what keeps them consistent is who may do what in which position,  *)
(* which the invariants below relate.                                      *)
(***************************************************************************)
EXTENDS CheckRun, FiniteSetTheorems, SequenceTheorems, TLAPS

\* The goroutine of p has a token of the semaphore.
Holds(p) == st[p] \in {"ready", "acquired", "running"}

Elements(s) == {s[i] : i \in DOMAIN s}
Distinct(s) == \A i, j \in DOMAIN s : s[i] = s[j] => i = j

\* The queue of the semaphore has each waiter once.
TokenInv == TokensAccounted /\ Distinct(semWaiters)

\* How far a check is with each of its subprocesses.  One that wait() was
\* called for is cleaned up when wait() returns, the others by call(), in order.
CheckInv(c) ==
  /\ pc[c] = "waiting" =>
       target[c] \in 1..nprocs[c] /\ waitCalled[<<c, target[c]>>] /\ ~cleaned[<<c, target[c]>>]
  /\ pc[c] = "cleanup" => target[c] >= 1

ProcInv(p) ==
  /\ st[p] # "none" <=> p[2] <= nprocs[p[1]]
  /\ waitCalled[p] => st[p] # "none"
  /\ cleaned[p] => st[p] = "finished"
  /\ waitCalled[p] /\ ~cleaned[p] => pc[p[1]] = "waiting" /\ target[p[1]] = p[2]
  /\ cleaned[p] /\ ~waitCalled[p] =>
       pc[p[1]] \in {"cleanup", "returned", "leaving", "done"} /\ p[2] < target[p[1]]
  /\ pc[p[1]] = "cleanup" /\ p[2] < target[p[1]] /\ st[p] # "none" => cleaned[p]
  /\ pc[p[1]] \in {"returned", "leaving", "done"} /\ kind[p[1]] = "none" /\ st[p] # "none"
       => cleaned[p]

CallInv == (\A c \in Check : CheckInv(c)) /\ (\A p \in Proc : ProcInv(p))

\* The output of the subprocess may still be written or read.
InUse(p) == st[p] # "none" /\ ~cleaned[p]

\* A buffer that was ever taken is in the pool or in use, not both.
PoolInv ==
  /\ ~panicked
  /\ \A p \in Proc :
       /\ st[p] = "none" <=> buf[p] = NoBuffer
       /\ InUse(p) => buf[p] \notin pool
       /\ st[p] # "none" => buf[p] \in pool \/ \E q \in Proc : InUse(q) /\ buf[q] = buf[p]
  /\ \A p, q \in Proc : InUse(p) /\ InUse(q) /\ p # q => buf[p] # buf[q]

\* A directory that could not be removed makes the check fail.
DirInv ==
  \A p \in Proc : /\ st[p] = "none" => ~tmp[p]
                  /\ cleaned[p] /\ tmp[p] => kind[p[1]] # "none"

LevelIsMax(c) ==
  /\ level[c] \in emitted[c] \cup {Nothing}
  /\ \A l \in emitted[c] : l <= level[c]

\* What the Report and the errgroup are told of a check.
Told(c) ==
  /\ kind[c] = "cancel" => ctxDone
  /\ kind[c] = "none" => LevelIsMax(c)
  /\ pc[c] \in {"queued", "running", "waiting"} => kind[c] = "none"
  /\ pc[c] \notin {"leaving", "done"} => completed[c] = "no"
  /\ pc[c] \in {"leaving", "done"} =>
       \/ ret[c] = "ctx" /\ completed[c] = "no" /\ kind[c] # "none" /\ ctxDone
       \/ ret[c] = kind[c] /\ completed[c] = kind[c] /\ kind[c] # "cancel"
  /\ pc[c] = "done" /\ egErr = "none" => ret[c] = "none"

\* Nothing is called a cancellation before there is one, and the context is
\* cancelled by the user, by a check that the Report knows of, or at the end.
ErrorInv ==
  /\ \A p \in Proc : errs[p] = "cancel" => ctxDone
  /\ \A c \in Check : Told(c)
  /\ ctxDone => interrupted \/ egErr # "none" \/ result # "running"
  /\ egErr # "none" => interrupted \/ \E c \in Check : pc[c] = "done" /\ completed[c] = egErr
  /\ result # "running" => (\A c \in Check : pc[c] = "done")
  /\ result # "running" => result = Verdict \/ (Verdict = "ok" /\ result = "notRemoved")

IInv == TypeOK /\ setup \in Setups /\ TokenInv /\ CallInv /\ PoolInv /\ DirInv /\ ErrorInv

-----------------------------------------------------------------------------
(* Checks and subprocesses                                                 *)

\* The steps of a check that clean up, whether the directory goes or not.
Cleans(p)     == \E removed \in BOOLEAN : Cleanup(p, removed)
Waits(c)      == \E removed \in BOOLEAN : WaitReturns(c, removed)
CleansNext(c) == \E removed \in BOOLEAN : CleanupNext(c, removed)

LEMMA ProcPair ==
  ASSUME NEW p
  PROVE  p \in Proc <=> \E c \in Check : \E i \in 1..setup.maxProcs[c] : p = <<c, i>>
BY DEF Proc, ProcsOf, Check

LEMMA ProcParts ==
  ASSUME NEW p \in Proc
  PROVE  p[1] \in Check /\ p[2] \in 1..setup.maxProcs[p[1]] /\ p = <<p[1], p[2]>>
BY ProcPair

LEMMA SetupTypes ==
  ASSUME setup \in Setup
  PROVE  /\ setup.maxConcurrency \in Nat \ {0}
         /\ setup.levels \subseteq {Notice, Warning, Error}
         /\ \A c \in Check : c \in Nat /\ setup.maxProcs[c] \in Nat
BY DEF Setup, Check, ChecksOf

LEMMA SameSetup == ASSUME setup' = setup PROVE Check' = Check /\ Proc' = Proc
BY DEF Check, Proc

LEMMA FiniteProcs == ASSUME setup \in Setup PROVE IsFiniteSet(Proc)
<1>. DEFINE F == [c \in Check |-> {c} \X (1..setup.maxProcs[c])]
            T == {F[c] : c \in Check}
<1>1. IsFiniteSet(Check)
  <2>1. setup.maxProcs \in Seq(Nat)
    BY DEF Setup
  <2>2. Check = 1..Len(setup.maxProcs) /\ Len(setup.maxProcs) \in Nat
    BY <2>1 DEF Check, ChecksOf
  <2>. QED BY <2>2, FS_Interval
<1>2. IsFiniteSet(T)
  <2>1. F \in Surjection(Check, T)
    BY DEF Surjection
  <2>. QED BY <1>1, <2>1, FS_Surjection
<1>3. ASSUME NEW c \in Check PROVE IsFiniteSet(F[c])
  <2>1. IsFiniteSet({c})
    BY FS_Singleton
  <2>2. IsFiniteSet(1..setup.maxProcs[c])
    <3>1. 1 \in Int /\ setup.maxProcs[c] \in Int
      BY SetupTypes
    <3>. QED BY <3>1, FS_Interval
  <2>. QED BY <2>1, <2>2, FS_Product
<1>4. Proc = UNION T
  BY DEF Proc, ProcsOf, Check
<1>. QED BY <1>2, <1>3, <1>4, FS_UNION

-----------------------------------------------------------------------------
(* The queue of the semaphore                                              *)

\* A queue without its i-th element.
Shortened(r, s, i) ==
  /\ Len(r) = Len(s) - 1
  /\ \A j \in 1..Len(r) : r[j] = IF j < i THEN s[j] ELSE s[j + 1]

LEMMA RemoveAtShortens ==
  ASSUME NEW S, NEW s \in Seq(S), NEW i \in DOMAIN s
  PROVE  RemoveAt(s, i) \in Seq(S) /\ Shortened(RemoveAt(s, i), s, i)
<1>. DEFINE a == SubSeq(s, 1, i - 1)
            b == SubSeq(s, i + 1, Len(s))
<1>1. Len(s) \in Nat /\ i \in 1..Len(s)
  OBVIOUS
<1>2. a \in Seq(S) /\ Len(a) = i - 1 /\ \A j \in 1..(i - 1) : a[j] = s[j]
  <2>1. \A j \in 1..(i - 1) : s[j] \in S
    BY <1>1
  <2>2. 1 \in Int /\ i - 1 \in Int
    BY <1>1
  <2>. QED BY <1>1, <2>1, <2>2, SubSeqProperties
<1>3. b \in Seq(S) /\ Len(b) = Len(s) - i /\ \A j \in 1..(Len(s) - i) : b[j] = s[i + j]
  <2>1. \A j \in (i + 1)..Len(s) : s[j] \in S
    BY <1>1
  <2>2. i + 1 \in Int /\ Len(s) \in Int
    BY <1>1
  <2>. QED BY <1>1, <2>1, <2>2, SubSeqProperties
<1>. DEFINE r == a \o b
<1>4. /\ r \in Seq(S) /\ Len(r) = Len(a) + Len(b)
      /\ \A j \in 1..(Len(a) + Len(b)) : r[j] = IF j <= Len(a) THEN a[j] ELSE b[j - Len(a)]
  BY <1>2, <1>3, ConcatProperties
<1>5. RemoveAt(s, i) = r
  BY DEF RemoveAt
<1>. HIDE DEF a, b, r
<1>6. Len(r) = Len(s) - 1 /\ Len(a) + Len(b) = Len(s) - 1
  BY <1>1, <1>2, <1>3, <1>4
<1>7. ASSUME NEW j \in 1..(Len(s) - 1) PROVE r[j] = IF j < i THEN s[j] ELSE s[j + 1]
  <2>1. r[j] = IF j <= i - 1 THEN a[j] ELSE b[j - (i - 1)]
    BY <1>2, <1>4, <1>6
  <2>2. CASE j < i
    BY <1>1, <1>2, <2>1, <2>2
  <2>3. CASE ~(j < i)
    <3>1. r[j] = b[j - (i - 1)] /\ j - (i - 1) \in 1..(Len(s) - i)
      BY <1>1, <2>1, <2>3
    <3>2. i + (j - (i - 1)) = j + 1
      BY <1>1
    <3>. QED BY <1>3, <2>3, <3>1, <3>2
  <2>. QED BY <2>2, <2>3
<1>. QED BY <1>4, <1>5, <1>6, <1>7 DEF Shortened

LEMMA TailShortens ==
  ASSUME NEW S, NEW s \in Seq(S), s # <<>>
  PROVE  Tail(s) \in Seq(S) /\ Shortened(Tail(s), s, 1) /\ Head(s) = s[1] /\ 1 \in DOMAIN s
BY HeadTailProperties DEF Shortened

LEMMA ShortenedElements ==
  ASSUME NEW S, NEW s \in Seq(S), Distinct(s), NEW i \in DOMAIN s,
         NEW r \in Seq(S), Shortened(r, s, i)
  PROVE  Distinct(r) /\ Elements(r) = Elements(s) \ {s[i]}
<1>1. Len(s) \in Nat /\ DOMAIN s = 1..Len(s) /\ DOMAIN r = 1..(Len(s) - 1)
  BY DEF Shortened
<1>2. \A j \in DOMAIN r : r[j] = IF j < i THEN s[j] ELSE s[j + 1]
  BY <1>1 DEF Shortened
<1>3. Distinct(r)
  BY <1>1, <1>2 DEF Distinct
<1>4. ASSUME NEW x \in Elements(r) PROVE x \in Elements(s) \ {s[i]}
  BY <1>1, <1>2 DEF Elements, Distinct
<1>5. ASSUME NEW x \in Elements(s), x # s[i] PROVE x \in Elements(r)
  <2>1. PICK j \in DOMAIN s : x = s[j]
    BY DEF Elements
  <2>2. CASE j < i
    BY <1>1, <1>2, <2>1, <2>2 DEF Elements
  <2>3. CASE j > i
    <3>1. j - 1 \in DOMAIN r /\ r[j - 1] = s[j]
      BY <1>1, <1>2, <2>3
    <3>. QED BY <2>1, <3>1 DEF Elements
  <2>. QED BY <1>1, <1>5, <2>1, <2>2, <2>3
<1>. QED BY <1>3, <1>4, <1>5

LEMMA AppendElements ==
  ASSUME NEW S, NEW s \in Seq(S), Distinct(s), NEW x \in S, x \notin Elements(s)
  PROVE  Distinct(Append(s, x)) /\ Elements(Append(s, x)) = Elements(s) \cup {x}
<1>1. /\ Len(s) \in Nat /\ DOMAIN s = 1..Len(s) /\ DOMAIN Append(s, x) = 1..(Len(s) + 1)
      /\ \A i \in 1..Len(s) : Append(s, x)[i] = s[i]
      /\ Append(s, x)[Len(s) + 1] = x
  BY AppendProperties
<1>. DEFINE r == Append(s, x)
<1>. HIDE DEF r
<1>2. DOMAIN r = 1..(Len(s) + 1) /\ r[Len(s) + 1] = x /\ \A i \in 1..Len(s) : r[i] = s[i]
  BY <1>1 DEF r
<1>3. Distinct(r)
  BY <1>1, <1>2 DEF Distinct, Elements
<1>4. Elements(r) = Elements(s) \cup {x}
  BY <1>1, <1>2 DEF Elements
<1>. QED BY <1>3, <1>4 DEF r

-----------------------------------------------------------------------------
(* Tokens                                                                  *)

Holders == {p \in Proc : Holds(p)}
Waiters == {p \in Proc : st[p] = "queued"}

ProcState == {"none", "start", "queued", "ready", "acquired", "running", "finished"}

\* The types of what the semaphore is made of.
SemTypes ==
  /\ st \in [Proc -> ProcState]
  /\ semCur \in 0..setup.maxConcurrency
  /\ semWaiters \in Seq(Proc)

LEMMA TokenFacts ==
  ASSUME TypeOK, TokenInv
  PROVE  /\ SemTypes /\ IsFiniteSet(Holders) /\ setup.maxConcurrency \in Nat \ {0}
         /\ semCur = Cardinality(Holders)
         /\ Elements(semWaiters) = Waiters /\ Distinct(semWaiters)
         /\ semWaiters # <<>> => semCur = setup.maxConcurrency
<1>1. IsFiniteSet(Proc) /\ Holders \subseteq Proc
  BY FiniteProcs DEF TypeOK, Holders
<1>2. IsFiniteSet(Holders)
  BY <1>1, FS_Subset
<1>3. setup.maxConcurrency \in Nat \ {0}
  BY SetupTypes DEF TypeOK
<1>4. SemTypes
  BY DEF SemTypes, TypeOK, ProcState
<1>5. semCur = Cardinality(Holders) /\ (semWaiters # <<>> => semCur = setup.maxConcurrency)
  BY DEF TokenInv, TokensAccounted, Holders, Holds
<1>6. Elements(semWaiters) = Waiters /\ Distinct(semWaiters)
  BY DEF TokenInv, TokensAccounted, Elements, Waiters
<1>. QED BY <1>2, <1>3, <1>4, <1>5, <1>6

\* How to establish the invariant of the next state.
LEMMA TokenGoal ==
  ASSUME setup' = setup, semCur' = Cardinality(Holders'),
         semWaiters' # <<>> => semCur' = setup.maxConcurrency,
         Elements(semWaiters') = Waiters', Distinct(semWaiters')
  PROVE  TokenInv'
BY DEF TokenInv, TokensAccounted, Holders, Holds, Elements, Waiters, Distinct

\* Steps that move no token.
LEMMA SameTokens ==
  ASSUME TypeOK, TokenInv, setup' = setup, UNCHANGED semVars, st' \in [Proc -> ProcState],
         \A p \in Proc : (Holds(p)' <=> Holds(p)) /\ (st'[p] = "queued" <=> st[p] = "queued")
  PROVE  TokenInv' /\ SemTypes'
<1>1. Holders' = Holders /\ Waiters' = Waiters /\ Proc' = Proc
  BY SameSetup DEF Holders, Waiters
<1>2. TokenInv'
  BY <1>1, TokenFacts, TokenGoal DEF semVars, Elements, Distinct
<1>. QED BY <1>1, <1>2, TokenFacts DEF SemTypes, semVars

\* A token goes to the first waiter, or back to the semaphore.
LEMMA TokenReleased ==
  ASSUME TypeOK, TokenInv, NEW p \in Proc, Holds(p), setup' = setup, ReleaseToken, st' = Ready(p)
  PROVE  TokenInv' /\ SemTypes'
<1>1. /\ SemTypes /\ IsFiniteSet(Holders) /\ setup.maxConcurrency \in Nat \ {0}
      /\ semCur = Cardinality(Holders) /\ Elements(semWaiters) = Waiters /\ Distinct(semWaiters)
      /\ semWaiters # <<>> => semCur = setup.maxConcurrency
  BY TokenFacts
<1>2. Proc' = Proc /\ p \in Holders
  BY SameSetup DEF Holders
<1>3. /\ IsFiniteSet(Holders \ {p}) /\ Cardinality(Holders \ {p}) = semCur - 1
      /\ Cardinality(Holders) \in Nat /\ semCur >= 1
  <2>1. IsFiniteSet(Holders \ {p}) /\ Cardinality(Holders \ {p}) = semCur - 1
    BY <1>1, <1>2, FS_RemoveElement
  <2>2. Cardinality(Holders \ {p}) \in Nat /\ Cardinality(Holders) \in Nat
    BY <1>1, <2>1, FS_CardinalityType
  <2>. QED BY <1>1, <2>1, <2>2
<1>4. CASE semWaiters = <<>>
  <2>1. semCur' = semCur - 1 /\ semWaiters' = semWaiters /\ st' = [st EXCEPT ![p] = "finished"]
    BY <1>4 DEF ReleaseToken, Ready
  <2>2. Holders' = Holders \ {p} /\ Waiters' = Waiters /\ st' \in [Proc -> ProcState]
    BY <1>1, <1>2, <2>1 DEF SemTypes, Holders, Holds, Waiters, ProcState
  <2>3. TokenInv'
    BY <1>1, <1>3, <1>4, <2>1, <2>2, TokenGoal
  <2>4. semCur' \in 0..setup.maxConcurrency
    BY <1>1, <1>3, <2>1 DEF SemTypes
  <2>. QED BY <1>1, <1>2, <2>1, <2>2, <2>3, <2>4 DEF SemTypes
<1>5. CASE semWaiters # <<>>
  <2>. DEFINE h == Head(semWaiters)
  <2>1. /\ semCur' = semCur /\ semWaiters' = Tail(semWaiters)
        /\ st' = [st EXCEPT ![p] = "finished", ![h] = "ready"]
    BY <1>5 DEF ReleaseToken, Ready
  <2>2. /\ Tail(semWaiters) \in Seq(Proc) /\ Shortened(Tail(semWaiters), semWaiters, 1)
        /\ h = semWaiters[1] /\ 1 \in DOMAIN semWaiters
    BY <1>1, <1>5, TailShortens DEF SemTypes
  <2>3. Distinct(semWaiters') /\ Elements(semWaiters') = Waiters \ {h}
    <3>1. semWaiters \in Seq(Proc)
      BY <1>1 DEF SemTypes
    <3>2. PICK i \in DOMAIN semWaiters : i = 1
      BY <2>2
    <3>3. Shortened(Tail(semWaiters), semWaiters, i) /\ h = semWaiters[i]
      BY <2>2, <3>2
    <3>4. /\ Distinct(Tail(semWaiters))
          /\ Elements(Tail(semWaiters)) = Elements(semWaiters) \ {semWaiters[i]}
      <4>1. Distinct(semWaiters) /\ Tail(semWaiters) \in Seq(Proc)
        BY <1>1, <2>2
      <4>. QED BY <4>1, <3>1, <3>2, <3>3, ShortenedElements
    <3>. QED BY <1>1, <2>1, <3>3, <3>4
  <2>4. h \in Proc /\ st[h] = "queued"
    <3>1. h \in Elements(semWaiters)
      BY <2>2 DEF Elements
    <3>. QED BY <1>1, <3>1 DEF Waiters
  <2>. HIDE DEF h
  <2>5. h # p /\ h \notin Holders \ {p}
    BY <2>4 DEF Holders, Holds
  <2>6. st' \in [Proc -> ProcState] /\ \A q \in Proc :
          st'[q] = IF q = h THEN "ready" ELSE IF q = p THEN "finished" ELSE st[q]
    BY <1>1, <2>1, <2>4, <2>5 DEF SemTypes, ProcState
  <2>7. Holders' = (Holders \ {p}) \cup {h} /\ Waiters' = Waiters \ {h}
    BY <1>2, <2>4, <2>5, <2>6 DEF Holders, Holds, Waiters
  <2>8. semCur' = Cardinality(Holders')
    <3>1. Cardinality((Holders \ {p}) \cup {h}) = (semCur - 1) + 1
      BY <1>3, <2>5, FS_AddElement
    <3>. QED BY <1>1, <1>3, <2>1, <2>7, <3>1
  <2>9. TokenInv'
    BY <1>1, <1>5, <2>1, <2>3, <2>7, <2>8, TokenGoal
  <2>. QED BY <1>1, <1>2, <2>1, <2>2, <2>6, <2>9 DEF SemTypes
<1>. QED BY <1>4, <1>5

\* The subprocess that a check starts next.
LEMMA NextProc ==
  ASSUME TypeOK, CallInv, NEW c \in Check, Exec(c)
  PROVE  <<c, nprocs[c] + 1>> \in Proc /\ st[<<c, nprocs[c] + 1>>] = "none"
<1>. DEFINE p == <<c, nprocs[c] + 1>>
<1>1. nprocs[c] \in Nat /\ setup.maxProcs[c] \in Nat /\ nprocs[c] < setup.maxProcs[c]
  BY SetupTypes DEF TypeOK, Exec
<1>2. p \in Proc
  BY <1>1, ProcPair
<1>. QED BY <1>1, <1>2 DEF CallInv, CheckInv, ProcInv

\* A goroutine gets a token that is free, queues for one, or leaves the queue.
LEMMA TokenAcquired ==
  ASSUME TypeOK, TokenInv, NEW p \in Proc, AcquireNow(p) PROVE TokenInv' /\ SemTypes'
<1>1. /\ SemTypes /\ IsFiniteSet(Holders) /\ setup.maxConcurrency \in Nat \ {0}
      /\ semCur = Cardinality(Holders) /\ Elements(semWaiters) = Waiters /\ Distinct(semWaiters)
  BY TokenFacts
<1>2. /\ semCur < setup.maxConcurrency /\ semWaiters = <<>> /\ st[p] = "start" /\ setup' = setup
      /\ semCur' = semCur + 1 /\ semWaiters' = semWaiters /\ st' = [st EXCEPT ![p] = "acquired"]
  BY DEF AcquireNow, procRest
<1>3. Proc' = Proc
  BY <1>2, SameSetup
<1>4. /\ Holders' = Holders \cup {p} /\ p \notin Holders /\ Waiters' = Waiters
      /\ st' \in [Proc -> ProcState]
  BY <1>1, <1>2, <1>3 DEF SemTypes, Holders, Holds, Waiters, ProcState
<1>5. semCur' = Cardinality(Holders')
  BY <1>1, <1>2, <1>4, FS_AddElement
<1>6. TokenInv'
  BY <1>1, <1>2, <1>4, <1>5, TokenGoal
<1>7. semCur' \in 0..setup.maxConcurrency
  BY <1>1, <1>2 DEF SemTypes
<1>. QED BY <1>1, <1>2, <1>3, <1>4, <1>6, <1>7 DEF SemTypes

LEMMA TokenAwaited ==
  ASSUME TypeOK, TokenInv, NEW p \in Proc, AcquireLater(p) PROVE TokenInv' /\ SemTypes'
<1>1. /\ SemTypes /\ setup.maxConcurrency \in Nat \ {0} /\ semCur = Cardinality(Holders)
      /\ Elements(semWaiters) = Waiters /\ Distinct(semWaiters)
      /\ semWaiters # <<>> => semCur = setup.maxConcurrency
  BY TokenFacts
<1>2. /\ semCur >= setup.maxConcurrency \/ semWaiters # <<>>
      /\ st[p] = "start" /\ setup' = setup
      /\ semCur' = semCur /\ semWaiters' = Append(semWaiters, p) /\ st' = [st EXCEPT ![p] = "queued"]
  BY DEF AcquireLater, procRest
<1>3. Proc' = Proc
  BY <1>2, SameSetup
<1>4. Holders' = Holders /\ Waiters' = Waiters \cup {p} /\ st' \in [Proc -> ProcState]
  BY <1>1, <1>2, <1>3 DEF SemTypes, Holders, Holds, Waiters, ProcState
<1>5. p \notin Elements(semWaiters)
  BY <1>1, <1>2 DEF Waiters
<1>6. /\ semWaiters' \in Seq(Proc) /\ Distinct(semWaiters')
      /\ Elements(semWaiters') = Waiters \cup {p}
  BY <1>1, <1>2, <1>5, AppendElements, AppendProperties DEF SemTypes
<1>7. semCur = setup.maxConcurrency
  BY <1>1, <1>2 DEF SemTypes
<1>8. TokenInv'
  BY <1>1, <1>2, <1>4, <1>6, <1>7, TokenGoal
<1>. QED BY <1>1, <1>2, <1>3, <1>4, <1>6, <1>8 DEF SemTypes

LEMMA TokenForgone ==
  ASSUME TypeOK, TokenInv, NEW p \in Proc, AcquireCancelled(p) PROVE TokenInv' /\ SemTypes'
<1>1. /\ SemTypes /\ semCur = Cardinality(Holders)
      /\ Elements(semWaiters) = Waiters /\ Distinct(semWaiters)
      /\ semWaiters # <<>> => semCur = setup.maxConcurrency
  BY TokenFacts
<1>2. /\ st[p] = "queued" /\ setup' = setup /\ semCur' = semCur
      /\ st' = [st EXCEPT ![p] = "finished"]
  BY DEF AcquireCancelled, procRest
<1>3. PICK i \in DOMAIN semWaiters : semWaiters[i] = p /\ semWaiters' = RemoveAt(semWaiters, i)
  BY DEF AcquireCancelled
<1>4. Proc' = Proc
  BY <1>2, SameSetup
<1>5. /\ semWaiters' \in Seq(Proc) /\ Distinct(semWaiters') /\ semWaiters # <<>>
      /\ Elements(semWaiters') = Waiters \ {p}
  BY <1>1, <1>3, RemoveAtShortens, ShortenedElements DEF SemTypes
<1>6. Holders' = Holders /\ Waiters' = Waiters \ {p} /\ st' \in [Proc -> ProcState]
  BY <1>1, <1>2, <1>4 DEF SemTypes, Holders, Holds, Waiters, ProcState
<1>7. TokenInv'
  BY <1>1, <1>2, <1>5, <1>6, TokenGoal
<1>. QED BY <1>1, <1>2, <1>4, <1>5, <1>6, <1>7 DEF SemTypes

\* No step of a check, of the user or of Run touches the semaphore.
LEMMA CheckTokens ==
  ASSUME TypeOK, TokenInv, CallInv, NEW c \in Check, CheckStep(c) PROVE TokenInv' /\ SemTypes'
<1>1. CASE Exec(c)
  <2>1. PICK p \in Proc : p = <<c, nprocs[c] + 1>>
    BY <1>1, NextProc
  <2>2. /\ setup' = setup /\ UNCHANGED semVars /\ st' = [st EXCEPT ![p] = "start"]
        /\ st[p] = "none"
    BY <1>1, <2>1, NextProc DEF Exec
  <2>. QED BY <2>2, SameTokens DEF TypeOK, Holds, ProcState
<1>2. CASE ~Exec(c)
  <2>1. setup' = setup /\ UNCHANGED semVars /\ st' = st
    BY <1>2 DEF CheckStep, CallStep, StartCheck, Emit, EmitFails, EndsBadly, Raises, CallWait, WaitAgain,
       WaitReturns, ReturnNone, CleanupNext, CleanupDone, Cleanup, Report, Leave, procVars
  <2>. QED BY <2>1, SameTokens DEF TypeOK, Holds, ProcState
<1>. QED BY <1>1, <1>2

LEMMA ProcTokens ==
  ASSUME TypeOK, TokenInv, NEW p \in Proc, ProcStep(p) \/ EndsByItself(p) PROVE TokenInv' /\ SemTypes'
<1>1. CASE Wake(p)
  <2>1. setup' = setup /\ st[p] = "ready"
    BY <1>1 DEF Wake, procRest
  <2>2. CASE ctxDone
    BY <1>1, <2>1, <2>2, TokenReleased DEF Wake, Holds
  <2>3. CASE ~ctxDone
    BY <1>1, <2>1, <2>3, SameTokens DEF Wake, Holds, TypeOK, ProcState
  <2>. QED BY <2>2, <2>3
<1>2. CASE AcquireFails(p) \/ LaunchProc(p)
  BY <1>2, SameTokens DEF AcquireFails, LaunchProc, Holds, TypeOK, ProcState, procRest
<1>3. CASE LaunchFails(p) \/ Killed(p) \/ EndsByItself(p)
  BY <1>3, TokenReleased DEF LaunchFails, Killed, EndsByItself, Exits, Holds, procRest
<1>. QED BY <1>1, <1>2, <1>3, TokenAcquired, TokenAwaited, TokenForgone DEF ProcStep

LEMMA NextTokens ==
  ASSUME TypeOK, TokenInv, CallInv, [Next]_vars PROVE TokenInv' /\ SemTypes'
<1>1. CASE Interrupt \/ Finish \/ UNCHANGED vars
  <2>1. setup' = setup /\ UNCHANGED semVars /\ st' = st
    BY <1>1 DEF Interrupt, Finish, vars, procVars
  <2>. QED BY <2>1, SameTokens DEF TypeOK, Holds, ProcState
<1>. QED BY <1>1, CheckTokens, ProcTokens DEF Next, Over

-----------------------------------------------------------------------------
(* Buffers                                                                 *)

\* There is always a buffer that no subprocess has had.
LEMMA FreshBuffer ==
  ASSUME TypeOK, setup \in Setups, NEW p \in Proc, buf[p] = NoBuffer
  PROVE  NewBuffer \in Buffer /\ \A q \in Proc : buf[q] # NewBuffer
<1>. DEFINE S == Proc \ {p}
            T == {buf[q] : q \in S}
            f == [q \in S |-> buf[q]]
<1>1. IsFiniteSet(Proc)
  BY FiniteProcs DEF TypeOK
<1>2. /\ IsFiniteSet(S) /\ Cardinality(S) = Cardinality(Proc) - 1
      /\ Cardinality(Proc) \in Nat
  BY <1>1, FS_RemoveElement, FS_CardinalityType
<1>3. IsFiniteSet(T) /\ Cardinality(T) <= Cardinality(S)
  <2>1. f \in Surjection(S, T)
    BY DEF Surjection
  <2>. QED BY <1>2, <2>1, FS_Surjection
<1>4. \E b \in Buffer : b \notin T
  <2>. SUFFICES ASSUME Buffer \subseteq T PROVE FALSE
    OBVIOUS
  <2>1. IsFiniteSet(Buffer) /\ Cardinality(Buffer) <= Cardinality(T)
    BY <1>3, FS_Subset
  <2>2. Cardinality(Proc) <= Cardinality(Buffer)
    BY <2>1, BufferAssumption DEF Proc
  <2>3. Cardinality(T) \in Nat /\ Cardinality(Buffer) \in Nat /\ Cardinality(S) \in Nat
    BY <1>2, <1>3, <2>1, FS_CardinalityType
  <2>. QED BY <1>2, <1>3, <2>1, <2>2, <2>3
<1>5. \E b \in Buffer : b \notin {buf[q] : q \in Proc}
  <2>1. PICK b \in Buffer : b \notin T
    BY <1>4
  <2>2. b # NoBuffer
    BY CheckRunAssumption
  <2>. QED BY <2>1, <2>2
<1>. QED BY <1>5 DEF NewBuffer

LEMMA GotBuffer ==
  ASSUME TypeOK, setup \in Setups, CallInv, PoolInv, NEW c \in Check, Exec(c)
  PROVE  \E b \in Buffer :
           /\ buf' = [buf EXCEPT ![<<c, nprocs[c] + 1>>] = b] /\ pool' = pool \ {b}
           /\ \A q \in Proc : InUse(q) => buf[q] # b
<1>. DEFINE p == <<c, nprocs[c] + 1>>
<1>1. p \in Proc /\ st[p] = "none"
  BY NextProc
<1>2. buf[p] = NoBuffer
  BY <1>1 DEF PoolInv
<1>3. PICK b \in (IF pool = {} THEN {NewBuffer} ELSE pool) : pool' = pool \ {b} /\ buf' = [buf EXCEPT ![p] = b]
  BY DEF Exec, GetBuffer
<1>4. CASE pool = {}
  BY <1>1, <1>2, <1>3, <1>4, FreshBuffer
<1>5. CASE pool # {}
  <2>1. b \in Buffer /\ b \in pool
    BY <1>3, <1>5 DEF TypeOK
  <2>. QED BY <1>3, <2>1 DEF PoolInv
<1>. QED BY <1>4, <1>5

\* Steps that neither start nor clean up a subprocess leave the pool alone.
LEMMA SamePool ==
  ASSUME PoolInv, setup' = setup, UNCHANGED <<pool, panicked, buf, cleaned>>,
         \A p \in Proc : st'[p] = "none" <=> st[p] = "none"
  PROVE  PoolInv'
BY SameSetup DEF PoolInv, InUse

\* A cleanup returns the buffers of a subprocess that still has them.
LEMMA CleanedPool ==
  ASSUME TypeOK, PoolInv, NEW p \in Proc, InUse(p), Cleans(p), UNCHANGED <<setup, st, buf>>
  PROVE  PoolInv'
<1>1. /\ Proc' = Proc /\ st' = st /\ buf' = buf /\ pool' = pool \cup {buf[p]}
      /\ \A q \in Proc : cleaned'[q] <=> q = p \/ cleaned[q]
  BY SameSetup DEF Cleans, Cleanup, TypeOK
<1>2. ~panicked'
  BY DEF PoolInv, Cleans, Cleanup
<1>3. \A q \in Proc : InUse(q)' <=> InUse(q) /\ q # p
  BY <1>1 DEF InUse
<1>4. ASSUME NEW q \in Proc, InUse(q)' PROVE buf'[q] \notin pool'
  BY <1>1, <1>3, <1>4 DEF PoolInv
<1>5. ASSUME NEW q \in Proc, st'[q] # "none"
      PROVE  buf'[q] \in pool' \/ \E r \in Proc' : InUse(r)' /\ buf'[r] = buf'[q]
  BY <1>1, <1>3, <1>5 DEF PoolInv
<1>6. \A q, r \in Proc : InUse(q)' /\ InUse(r)' /\ q # r => buf'[q] # buf'[r]
  BY <1>1, <1>3 DEF PoolInv
<1>7. \A q \in Proc : st'[q] = "none" <=> buf'[q] = NoBuffer
  BY <1>1 DEF PoolInv
<1>. QED BY <1>1, <1>2, <1>4, <1>5, <1>6, <1>7 DEF PoolInv

LEMMA StartedPool ==
  ASSUME TypeOK, setup \in Setups, CallInv, PoolInv, NEW c \in Check, Exec(c) PROVE PoolInv'
<1>1. PICK p \in Proc : p = <<c, nprocs[c] + 1>>
  BY NextProc
<1>2. PICK b \in Buffer : /\ buf' = [buf EXCEPT ![p] = b] /\ pool' = pool \ {b}
                          /\ \A q \in Proc : InUse(q) => buf[q] # b
  BY <1>1, GotBuffer
<1>3. /\ Proc' = Proc /\ st[p] = "none" /\ st' = [st EXCEPT ![p] = "start"]
      /\ cleaned' = cleaned /\ ~cleaned[p] /\ panicked' = panicked /\ b # NoBuffer
  BY <1>1, NextProc, SameSetup, CheckRunAssumption DEF Exec, CallInv, ProcInv
<1>4. \A q \in Proc : /\ InUse(q)' <=> q = p \/ InUse(q)
                      /\ st'[q] = "none" <=> q # p /\ st[q] = "none"
                      /\ buf'[q] = IF q = p THEN b ELSE buf[q]
  BY <1>2, <1>3 DEF InUse, TypeOK
<1>5. ASSUME NEW q \in Proc, InUse(q)' PROVE buf'[q] \notin pool'
  BY <1>2, <1>4, <1>5 DEF PoolInv
<1>6. ASSUME NEW q \in Proc, st'[q] # "none"
      PROVE  buf'[q] \in pool' \/ \E r \in Proc' : InUse(r)' /\ buf'[r] = buf'[q]
  <2>1. CASE buf'[q] = b
    BY <1>3, <1>4, <2>1
  <2>2. CASE buf'[q] # b
    <3>1. q # p /\ st[q] # "none" /\ buf'[q] = buf[q]
      BY <1>4, <1>6, <2>2
    <3>2. CASE buf[q] \in pool
      BY <1>2, <2>2, <3>1, <3>2
    <3>3. CASE buf[q] \notin pool
      <4>1. PICK r \in Proc : InUse(r) /\ buf[r] = buf[q]
        BY <3>1, <3>3 DEF PoolInv
      <4>2. r # p
        BY <1>3, <4>1 DEF InUse
      <4>. QED BY <1>3, <1>4, <3>1, <4>1, <4>2
    <3>. QED BY <3>2, <3>3
  <2>. QED BY <2>1, <2>2
<1>7. \A q, r \in Proc : InUse(q)' /\ InUse(r)' /\ q # r => buf'[q] # buf'[r]
  BY <1>2, <1>4 DEF PoolInv
<1>8. \A q \in Proc : st'[q] = "none" <=> buf'[q] = NoBuffer
  BY <1>3, <1>4 DEF PoolInv
<1>. QED BY <1>3, <1>5, <1>6, <1>7, <1>8 DEF PoolInv

-----------------------------------------------------------------------------
(* What a step of a subprocess does to the others                          *)

Errs == {"none", "ok", "bad", "cancel"}

LEMMA HeadQueued ==
  ASSUME TypeOK, TokenInv, semWaiters # <<>>
  PROVE  Head(semWaiters) \in Proc /\ st[Head(semWaiters)] = "queued"
<1>1. semWaiters \in Seq(Proc) /\ Elements(semWaiters) = Waiters
  BY TokenFacts DEF SemTypes
<1>2. Head(semWaiters) \in Elements(semWaiters)
  BY <1>1, TailShortens DEF Elements
<1>. QED BY <1>1, <1>2 DEF Waiters

LEMMA ReadyMoves ==
  ASSUME TypeOK, TokenInv, NEW p \in Proc, st[p] \in {"ready", "acquired", "running"}, st' = Ready(p)
  PROVE  \A q \in Proc : /\ st'[q] = "none" <=> st[q] = "none"
                         /\ st[q] = "finished" => st'[q] = "finished"
<1>1. st \in [Proc -> ProcState]
  BY DEF TypeOK, ProcState
<1>2. CASE semWaiters = <<>>
  BY <1>1, <1>2 DEF Ready
<1>3. CASE semWaiters # <<>>
  <2>1. PICK h \in Proc : h = Head(semWaiters) /\ st[h] = "queued"
    BY <1>3, HeadQueued
  <2>2. st' = [st EXCEPT ![p] = "finished", ![h] = "ready"]
    BY <1>3, <2>1 DEF Ready
  <2>. QED BY <1>1, <2>1, <2>2
<1>. QED BY <1>2, <1>3

\* No subprocess is started or restarted, and "cancel" is only ever sent when
\* the context is done.
LEMMA ProcMoves ==
  ASSUME TypeOK, TokenInv, NEW p \in Proc, ProcStep(p) \/ EndsByItself(p)
  PROVE  /\ UNCHANGED procRest
         /\ \A q \in Proc : /\ st'[q] = "none" <=> st[q] = "none"
                            /\ st[q] = "finished" => st'[q] = "finished"
         /\ errs' \in [Proc -> Errs]
         /\ \A q \in Proc : errs'[q] = "cancel" => errs[q] = "cancel" \/ ctxDone
<1>1. UNCHANGED procRest
  BY DEF ProcStep, AcquireFails, AcquireNow, AcquireLater, AcquireCancelled, Wake, LaunchProc,
     LaunchFails, Killed, EndsByItself, Exits
<1>2. errs' = errs \/ \E e \in Errs : Sends(p, e) /\ (e = "cancel" => ctxDone)
  BY DEF ProcStep, AcquireFails, AcquireNow, AcquireLater, AcquireCancelled, Wake, LaunchProc,
     LaunchFails, Killed, EndsByItself, Exits, Errs
<1>3. errs \in [Proc -> Errs]
  BY DEF TypeOK, Errs
<1>4. errs' \in [Proc -> Errs] /\ \A q \in Proc : errs'[q] = "cancel" => errs[q] = "cancel" \/ ctxDone
  <2>1. CASE errs' = errs
    BY <1>3, <2>1
  <2>2. CASE errs' # errs
    <3>1. PICK e \in Errs : Sends(p, e) /\ (e = "cancel" => ctxDone)
      BY <1>2, <2>2
    <3>. QED BY <1>3, <3>1 DEF Sends
  <2>. QED BY <2>1, <2>2
<1>5. \/ st' = Ready(p) /\ st[p] \in {"ready", "acquired", "running"}
      \/ \E x \in ProcState \ {"none"} : st' = [st EXCEPT ![p] = x] /\ st[p] \notin {"none", "finished"}
  BY DEF ProcStep, AcquireFails, AcquireNow, AcquireLater, AcquireCancelled, Wake, LaunchProc,
     LaunchFails, Killed, EndsByItself, Exits, ProcState
<1>6. st \in [Proc -> ProcState]
  BY DEF TypeOK, ProcState
<1>. QED BY <1>1, <1>4, <1>5, <1>6, ReadyMoves

-----------------------------------------------------------------------------
(* What a step of a check does to the others                               *)

LEMMA OtherChecks ==
  ASSUME TypeOK, NEW c \in Check, CheckStep(c), NEW d \in Check, d # c
  PROVE  /\ pc'[d] = pc[d] /\ target'[d] = target[d] /\ nprocs'[d] = nprocs[d]
         /\ kind'[d] = kind[d] /\ ret'[d] = ret[d] /\ completed'[d] = completed[d]
         /\ level'[d] = level[d] /\ emitted'[d] = emitted[d]
<1>1. /\ DOMAIN pc = Check /\ DOMAIN target = Check /\ DOMAIN nprocs = Check
      /\ DOMAIN kind = Check /\ DOMAIN ret = Check /\ DOMAIN completed = Check
      /\ DOMAIN level = Check /\ DOMAIN emitted = Check
  BY DEF TypeOK
<1>. QED BY <1>1 DEF CheckStep, CallStep, StartCheck, Emit, EmitFails, EndsBadly, Raises, Exec, CallWait,
     WaitAgain, WaitReturns, ReturnNone, CleanupNext, CleanupDone, Report, Leave, checkVars, procVars

LEMMA OtherProcs ==
  ASSUME TypeOK, NEW c \in Check, CheckStep(c), NEW q \in Proc, q[1] # c
  PROVE  st'[q] = st[q] /\ waitCalled'[q] = waitCalled[q] /\ cleaned'[q] = cleaned[q]
<1>1. DOMAIN st = Proc /\ DOMAIN waitCalled = Proc /\ DOMAIN cleaned = Proc
  BY DEF TypeOK
<1>2. \A i : <<c, i>> # q
  BY ProcParts
<1>. QED BY <1>1, <1>2 DEF CheckStep, CallStep, StartCheck, Emit, EmitFails, EndsBadly, Raises, Exec,
     CallWait, WaitAgain, WaitReturns, ReturnNone, CleanupNext, CleanupDone, Cleanup, Report, Leave,
     checkVars, procVars

LEMMA OthersCall ==
  ASSUME TypeOK, CallInv, NEW c \in Check, CheckStep(c),
         CheckInv(c)', \A q \in Proc : q[1] = c => ProcInv(q)'
  PROVE  CallInv'
<1>1. setup' = setup
  BY DEF CheckStep, CallStep, StartCheck, Emit, EmitFails, EndsBadly, Exec, CallWait,
     WaitAgain, WaitReturns, ReturnNone, CleanupNext, CleanupDone, Report, Leave
<1>2. Check' = Check /\ Proc' = Proc
  BY <1>1, SameSetup
<1>3. ASSUME NEW d \in Check, d # c PROVE CheckInv(d)'
  <2>1. pc'[d] = pc[d] /\ target'[d] = target[d] /\ nprocs'[d] = nprocs[d] /\ CheckInv(d)
    BY <1>3, OtherChecks DEF CallInv
  <2>2. CASE pc[d] = "waiting"
    <3>1. target[d] \in 1..nprocs[d] /\ nprocs[d] \in Nat /\ nprocs[d] <= setup.maxProcs[d]
      BY <2>1, <2>2 DEF CheckInv, TypeOK
    <3>2. setup.maxProcs[d] \in Nat
      BY SetupTypes DEF TypeOK
    <3>3. target[d] \in 1..setup.maxProcs[d]
      BY <3>1, <3>2
    <3>4. PICK q \in Proc : q = <<d, target[d]>>
      BY <3>3, ProcPair
    <3>5. waitCalled'[q] = waitCalled[q] /\ cleaned'[q] = cleaned[q]
      BY <1>3, <3>4, OtherProcs
    <3>. QED BY <2>1, <2>2, <3>4, <3>5 DEF CheckInv
  <2>3. CASE pc[d] # "waiting"
    BY <2>1, <2>3 DEF CheckInv
  <2>. QED BY <2>2, <2>3
<1>4. ASSUME NEW q \in Proc, q[1] # c PROVE ProcInv(q)'
  <2>1. st'[q] = st[q] /\ waitCalled'[q] = waitCalled[q] /\ cleaned'[q] = cleaned[q]
    BY <1>4, OtherProcs
  <2>2. /\ pc'[q[1]] = pc[q[1]] /\ target'[q[1]] = target[q[1]] /\ nprocs'[q[1]] = nprocs[q[1]]
        /\ kind'[q[1]] = kind[q[1]]
    BY <1>4, ProcParts, OtherChecks
  <2>. QED BY <2>1, <2>2 DEF ProcInv, CallInv
<1>. QED BY <1>2, <1>3, <1>4 DEF CallInv

-----------------------------------------------------------------------------
(* How far a check is with its subprocesses                                *)

\* What the proofs below use of the types.
LEMMA CallTypes ==
  ASSUME TypeOK, NEW c \in Check
  PROVE  /\ nprocs[c] \in Nat /\ target[c] \in Nat /\ setup.maxProcs[c] \in Nat
         /\ nprocs[c] <= setup.maxProcs[c]
         /\ DOMAIN pc = Check /\ DOMAIN target = Check /\ DOMAIN nprocs = Check /\ DOMAIN kind = Check
         /\ DOMAIN st = Proc /\ DOMAIN waitCalled = Proc /\ DOMAIN cleaned = Proc
BY SetupTypes DEF TypeOK

\* Steps of a check that touch no subprocess.
LEMMA QuietCall ==
  ASSUME TypeOK, CallInv, NEW c \in Check, CheckStep(c), ~Exec(c),
         \A i : ~CallWait(c, i), ~Waits(c), ~CleansNext(c)
  PROVE  CallInv'
<1>1. CheckInv(c) /\ \A q \in Proc : ProcInv(q) /\ q = <<q[1], q[2]>> /\ q[2] \in Nat /\ q[2] >= 1
  BY ProcParts, SetupTypes DEF CallInv, TypeOK
<1>2. /\ nprocs[c] \in Nat /\ target[c] \in Nat
      /\ DOMAIN pc = Check /\ DOMAIN target = Check /\ DOMAIN kind = Check
  BY CallTypes
<1>. UNCHANGED <<nprocs, st, waitCalled, cleaned>>
  BY DEF CheckStep, CallStep, StartCheck, Emit, EmitFails, EndsBadly, WaitAgain, ReturnNone,
     CleanupDone, Report, Leave, Waits, CleansNext, procVars
<1>3. CASE StartCheck(c) \/ (\E l \in setup.levels : Emit(c, l) \/ EmitFails(c, l)) \/ Report(c) \/ Leave(c)
  <2>1. CheckInv(c)'
    BY <1>1, <1>2, <1>3 DEF CheckInv, StartCheck, Emit, EmitFails, Raises, Report, Leave, checkVars
  <2>2. ASSUME NEW q \in Proc, q[1] = c PROVE ProcInv(q)'
    BY <1>1, <1>2, <1>3, <2>2 DEF ProcInv, StartCheck, Emit, EmitFails, Raises, Report, Leave, checkVars
  <2>. QED BY <2>1, <2>2, OthersCall
<1>4. CASE (\E e \in {"fail", "eval", "notNone"} : EndsBadly(c, e))
             \/ \E i \in 1..setup.maxProcs[c] : WaitAgain(c, i)
  <2>1. CheckInv(c)'
    BY <1>1, <1>2, <1>4 DEF CheckInv, EndsBadly, Raises, WaitAgain
  <2>2. ASSUME NEW q \in Proc, q[1] = c PROVE ProcInv(q)'
    BY <1>1, <1>2, <1>4, <2>2 DEF ProcInv, EndsBadly, Raises, WaitAgain
  <2>. QED BY <2>1, <2>2, OthersCall
<1>5. CASE ReturnNone(c)
  <2>1. CheckInv(c)'
    BY <1>1, <1>2, <1>5 DEF CheckInv, ReturnNone
  <2>2. ASSUME NEW q \in Proc, q[1] = c PROVE ProcInv(q)'
    BY <1>1, <1>2, <1>5, <2>2 DEF ProcInv, ReturnNone
  <2>. QED BY <2>1, <2>2, OthersCall
<1>6. CASE CleanupDone(c)
  <2>1. CheckInv(c)'
    BY <1>1, <1>2, <1>6 DEF CheckInv, CleanupDone, checkVars
  <2>2. ASSUME NEW q \in Proc, q[1] = c PROVE ProcInv(q)'
    BY <1>1, <1>2, <1>6, <2>2 DEF ProcInv, CleanupDone, checkVars
  <2>. QED BY <2>1, <2>2, OthersCall
<1>. QED BY <1>3, <1>4, <1>5, <1>6 DEF CheckStep, CallStep, Waits, CleansNext

LEMMA ExecCall ==
  ASSUME TypeOK, CallInv, NEW c \in Check, Exec(c) PROVE CallInv'
<1>1. PICK p \in Proc : p = <<c, nprocs[c] + 1>> /\ st[p] = "none"
  BY NextProc
<1>2. /\ nprocs[c] \in Nat /\ DOMAIN nprocs = Check /\ DOMAIN st = Proc
      /\ nprocs' = [nprocs EXCEPT ![c] = @ + 1] /\ st' = [st EXCEPT ![p] = "start"]
      /\ UNCHANGED <<pc, target, kind, waitCalled, cleaned>> /\ pc[c] = "running"
  BY <1>1, CallTypes DEF Exec, checkVars
<1>3. CheckInv(c)'
  BY <1>2 DEF CheckInv
<1>4. ASSUME NEW q \in Proc, q[1] = c PROVE ProcInv(q)'
  <2>1. q = <<q[1], q[2]>> /\ q[2] \in Nat /\ ProcInv(q)
    BY ProcParts, SetupTypes DEF CallInv, TypeOK
  <2>2. CASE q = p
    BY <1>1, <1>2, <1>4, <2>1, <2>2 DEF ProcInv
  <2>3. CASE q # p
    BY <1>1, <1>2, <1>4, <2>1, <2>3 DEF ProcInv
  <2>. QED BY <2>2, <2>3
<1>. QED BY <1>3, <1>4, OthersCall DEF CheckStep, CallStep

\* The subprocess that a check waits for, or looks at after its callback.
LEMMA TargetProc ==
  ASSUME TypeOK, CallInv, NEW c \in Check, Waits(c) \/ CleansNext(c)
  PROVE  \E p \in Proc : /\ p = <<c, target[c]>> /\ st[p] # "none"
                         /\ waitCalled[p] <=> Waits(c) \/ cleaned[p]
                         /\ Waits(c) => ~cleaned[p]
<1>1. nprocs[c] \in Nat /\ target[c] \in Nat /\ setup.maxProcs[c] \in Nat /\ nprocs[c] <= setup.maxProcs[c]
  BY CallTypes
<1>2. target[c] >= 1 /\ target[c] <= nprocs[c]
  BY <1>1 DEF CallInv, CheckInv, Waits, WaitReturns, CleansNext, CleanupNext
<1>3. target[c] \in 1..setup.maxProcs[c]
  BY <1>1, <1>2
<1>4. PICK p \in Proc : p = <<c, target[c]>>
  BY <1>3, ProcPair
<1>5. ProcInv(p) /\ CheckInv(c) /\ p[1] = c /\ p[2] = target[c]
  BY <1>4 DEF CallInv
<1>6. st[p] # "none"
  BY <1>2, <1>5 DEF ProcInv
<1>7. CASE Waits(c)
  BY <1>4, <1>5, <1>6, <1>7 DEF CheckInv, Waits, WaitReturns
<1>8. CASE CleansNext(c)
  <2>1. pc[c] = "cleanup" /\ ~Waits(c)
    BY <1>8 DEF CleansNext, CleanupNext, Waits, WaitReturns
  <2>2. ~(target[c] < target[c])
    BY <1>1
  <2>3. waitCalled[p] <=> cleaned[p]
    BY <1>5, <2>1, <2>2 DEF ProcInv
  <2>. QED BY <1>4, <1>6, <2>1, <2>3
<1>. QED BY <1>7, <1>8

LEMMA WaitCall ==
  ASSUME TypeOK, CallInv, NEW c \in Check, NEW i \in 1..setup.maxProcs[c], CallWait(c, i) PROVE CallInv'
<1>1. PICK p \in Proc : p = <<c, i>>
  BY ProcPair
<1>2. /\ DOMAIN target = Check /\ DOMAIN waitCalled = Proc /\ DOMAIN pc = Check
      /\ nprocs[c] \in Nat /\ i \in 1..nprocs[c] /\ ~waitCalled[p] /\ pc[c] = "running"
      /\ waitCalled' = [waitCalled EXCEPT ![p] = TRUE] /\ target' = [target EXCEPT ![c] = i]
      /\ pc' = [pc EXCEPT ![c] = "waiting"] /\ UNCHANGED <<kind, nprocs, st, cleaned>>
  BY <1>1, CallTypes DEF CallWait
<1>3. ASSUME NEW q \in Proc, q[1] = c
      PROVE  ProcInv(q) /\ q = <<c, q[2]>> /\ (q[2] = i <=> q = p)
  BY <1>1, <1>3, ProcParts DEF CallInv
<1>4. p[1] = c /\ p[2] = i /\ st[p] # "none" /\ ~cleaned[p]
  BY <1>1, <1>2, <1>3 DEF ProcInv
<1>5. CheckInv(c)'
  BY <1>1, <1>2, <1>4 DEF CheckInv
<1>6. ASSUME NEW q \in Proc, q[1] = c PROVE ProcInv(q)'
  <2>1. ProcInv(q) /\ (q[2] = i <=> q = p)
    BY <1>3, <1>6
  <2>2. CASE q = p
    BY <1>2, <1>4, <2>1, <2>2 DEF ProcInv
  <2>3. CASE q # p
    BY <1>2, <1>6, <2>1, <2>3 DEF ProcInv
  <2>. QED BY <2>2, <2>3
<1>. QED BY <1>5, <1>6, OthersCall DEF CheckStep, CallStep

LEMMA WaitedCall ==
  ASSUME TypeOK, CallInv, NEW c \in Check, Waits(c) PROVE CallInv'
<1>1. PICK p \in Proc : p = <<c, target[c]>> /\ waitCalled[p] /\ ~cleaned[p]
  BY TargetProc
<1>2. /\ DOMAIN cleaned = Proc /\ DOMAIN pc = Check /\ DOMAIN kind = Check
      /\ pc[c] = "waiting" /\ st[p] = "finished" /\ cleaned' = [cleaned EXCEPT ![p] = TRUE]
      /\ UNCHANGED <<target, nprocs, st, waitCalled>>
  BY <1>1, CallTypes DEF Waits, WaitReturns, Cleanup
<1>3. \/ pc'[c] = "running" /\ kind' = kind
      \/ pc'[c] = "returned" /\ kind'[c] # "none"
  BY <1>2 DEF Waits, WaitReturns, Raises
<1>4. CheckInv(c)'
  BY <1>3 DEF CheckInv
<1>5. ASSUME NEW q \in Proc, q[1] = c PROVE ProcInv(q)'
  <2>1. ProcInv(q) /\ q = <<c, q[2]>>
    BY <1>5, ProcParts DEF CallInv
  <2>2. CASE q = p
    BY <1>1, <1>2, <1>3, <1>5, <2>1, <2>2 DEF ProcInv
  <2>3. CASE q # p
    BY <1>1, <1>2, <1>3, <1>5, <2>1, <2>3 DEF ProcInv
  <2>. QED BY <2>2, <2>3
<1>. QED BY <1>4, <1>5, OthersCall DEF CheckStep, CallStep, Waits

LEMMA CleanedCall ==
  ASSUME TypeOK, CallInv, NEW c \in Check, CleansNext(c) PROVE CallInv'
<1>1. PICK p \in Proc : p = <<c, target[c]>> /\ st[p] # "none" /\ (waitCalled[p] <=> cleaned[p])
  BY TargetProc DEF CleansNext, CleanupNext, Waits, WaitReturns
<1>2. /\ target[c] \in Nat /\ target'[c] = target[c] + 1 /\ pc' = pc /\ pc[c] = "cleanup"
      /\ UNCHANGED <<nprocs, st, waitCalled>> /\ CheckInv(c)
  BY CallTypes DEF CleansNext, CleanupNext, CallInv
<1>3. /\ cleaned' = IF waitCalled[p] THEN cleaned ELSE [cleaned EXCEPT ![p] = TRUE]
      /\ ~waitCalled[p] => st[p] = "finished"
      /\ DOMAIN cleaned = Proc
  BY <1>1, CallTypes DEF CleansNext, CleanupNext, Cleanup
<1>4. CheckInv(c)'
  BY <1>2 DEF CheckInv
<1>5. ASSUME NEW q \in Proc, q[1] = c PROVE ProcInv(q)'
  <2>1. ProcInv(q) /\ q = <<c, q[2]>> /\ q[2] \in Nat
    BY <1>5, ProcParts, SetupTypes DEF CallInv, TypeOK
  <2>2. CASE q = p
    <3>1. q[2] = target[c] /\ q[2] < target'[c] /\ cleaned'[q]
      BY <1>1, <1>2, <1>3, <2>2
    <3>2. st[q] = "finished"
      BY <1>1, <1>3, <2>1, <2>2 DEF ProcInv
    <3>3. waitCalled[q] => cleaned[q]
      BY <1>1, <2>2
    <3>. QED BY <1>2, <1>5, <2>1, <3>1, <3>2, <3>3 DEF ProcInv
  <2>3. CASE q # p
    <3>1. q[2] # target[c] /\ cleaned'[q] = cleaned[q]
      BY <1>1, <1>3, <2>1, <2>3
    <3>2. q[2] < target'[c] <=> q[2] < target[c]
      BY <1>2, <2>1, <3>1
    <3>. QED BY <1>2, <1>5, <2>1, <3>1, <3>2 DEF ProcInv
  <2>. QED BY <2>2, <2>3
<1>. QED BY <1>4, <1>5, OthersCall DEF CheckStep, CallStep, CleansNext

LEMMA NextCall ==
  ASSUME TypeOK, TokenInv, CallInv, [Next]_vars PROVE CallInv'
<1>1. ASSUME NEW p \in Proc, ProcStep(p) \/ EndsByItself(p) PROVE CallInv'
  <2>1. UNCHANGED procRest /\ Check' = Check /\ Proc' = Proc
    BY <1>1, ProcMoves, SameSetup DEF procRest
  <2>2. ASSUME NEW c \in Check PROVE CheckInv(c)'
    BY <2>1 DEF CallInv, CheckInv, procRest, checkVars
  <2>3. ASSUME NEW q \in Proc PROVE ProcInv(q)'
    <3>1. (st'[q] = "none" <=> st[q] = "none") /\ (st[q] = "finished" => st'[q] = "finished")
      BY <1>1, ProcMoves
    <3>. QED BY <2>1, <3>1 DEF CallInv, ProcInv, procRest, checkVars
  <2>. QED BY <2>1, <2>2, <2>3 DEF CallInv
<1>2. CASE Interrupt \/ Finish \/ UNCHANGED vars
  <2>1. UNCHANGED <<setup, pc, checkVars, nprocs, st, waitCalled, cleaned>>
    BY <1>2 DEF Interrupt, Finish, vars, procVars
  <2>. QED BY <2>1, SameSetup DEF CallInv, CheckInv, ProcInv, checkVars
<1>3. ASSUME NEW c \in Check, CheckStep(c) PROVE CallInv'
  <2>1. CASE Exec(c) \/ Waits(c) \/ CleansNext(c)
    BY <2>1, ExecCall, WaitedCall, CleanedCall
  <2>2. CASE \E i \in 1..setup.maxProcs[c] : CallWait(c, i)
    BY <2>2, WaitCall
  <2>3. ASSUME NEW i, CallWait(c, i) PROVE i \in 1..setup.maxProcs[c]
    BY <2>3, CallTypes DEF CallWait
  <2>. QED BY <1>3, <2>1, <2>2, <2>3, QuietCall
<1>. QED BY <1>1, <1>2, <1>3 DEF Next, Over

-----------------------------------------------------------------------------
(* Every step leaves the buffers in order                                  *)

LEMMA NextPool ==
  ASSUME TypeOK, setup \in Setups, TokenInv, CallInv, PoolInv, [Next]_vars PROVE PoolInv'
<1>1. ASSUME NEW c \in Check, Waits(c) \/ CleansNext(c) PROVE PoolInv'
  <2>1. PICK p \in Proc : /\ p = <<c, target[c]>> /\ st[p] # "none"
                          /\ waitCalled[p] <=> Waits(c) \/ cleaned[p]
                          /\ Waits(c) => ~cleaned[p]
    BY <1>1, TargetProc
  <2>2. CASE Waits(c) \/ ~waitCalled[p]
    <3>1. Cleans(p) /\ UNCHANGED <<setup, st, buf>>
      BY <1>1, <2>1, <2>2 DEF Waits, WaitReturns, CleansNext, CleanupNext, Cleans
    <3>. QED BY <2>1, <2>2, <3>1, CleanedPool DEF InUse
  <2>3. CASE ~Waits(c) /\ waitCalled[p]
    <3>1. UNCHANGED <<setup, pool, panicked, buf, cleaned, st>>
      BY <1>1, <2>1, <2>3 DEF CleansNext, CleanupNext, poolVars
    <3>. QED BY <3>1, SamePool
  <2>. QED BY <2>2, <2>3
<1>2. ASSUME NEW c \in Check, CheckStep(c), ~Exec(c), ~Waits(c), ~CleansNext(c) PROVE PoolInv'
  <2>1. UNCHANGED <<setup, pool, panicked, buf, cleaned, st>>
    BY <1>2 DEF CheckStep, CallStep, StartCheck, Emit, EmitFails, EndsBadly, Raises, CallWait, WaitAgain,
       ReturnNone, CleanupDone, Report, Leave, Waits, CleansNext, procVars, poolVars
  <2>. QED BY <2>1, SamePool
<1>3. ASSUME NEW p \in Proc, ProcStep(p) \/ EndsByItself(p) PROVE PoolInv'
  <2>1. UNCHANGED <<setup, pool, panicked, buf, cleaned>>
    BY <1>3, ProcMoves DEF procRest, poolVars
  <2>2. \A q \in Proc : st'[q] = "none" <=> st[q] = "none"
    BY <1>3, ProcMoves
  <2>. QED BY <2>1, <2>2, SamePool
<1>4. CASE Interrupt \/ Finish \/ UNCHANGED vars
  <2>1. UNCHANGED <<setup, pool, panicked, buf, cleaned, st>>
    BY <1>4 DEF Interrupt, Finish, vars, procVars, poolVars
  <2>. QED BY <2>1, SamePool
<1>. QED BY <1>1, <1>2, <1>3, <1>4, StartedPool DEF Next, CheckStep, CallStep, Over

-----------------------------------------------------------------------------
(* Every step leaves only directories that a failure accounts for          *)

LEMMA SameDirs ==
  ASSUME TypeOK, DirInv, UNCHANGED <<setup, kind, cleaned>>,
         \A p \in Proc : (tmp'[p] => tmp[p]) /\ (st'[p] = "none" => st[p] = "none")
  PROVE  DirInv'
BY SameSetup DEF DirInv

\* A check that failed stays so.
LEMMA KindStays ==
  ASSUME TypeOK, NEW c \in Check, CheckStep(c)
  PROVE  setup' = setup /\ \A d \in Check : kind[d] # "none" => kind'[d] # "none"
<1>1. setup' = setup /\ (kind' = kind \/ \E e \in ErrKind : kind' = [kind EXCEPT ![c] = e])
  BY DEF CheckStep, CallStep, StartCheck, Emit, EmitFails, EndsBadly, Raises, Exec, CallWait, WaitAgain,
     WaitReturns, ReturnNone, CleanupNext, CleanupDone, Report, Leave, ErrKind, checkVars
<1>. QED BY <1>1 DEF TypeOK, ErrKind

LEMMA CleanedDirs ==
  ASSUME TypeOK, CallInv, DirInv, NEW c \in Check, Waits(c) \/ CleansNext(c) PROVE DirInv'
<1>1. PICK p \in Proc : p = <<c, target[c]>> /\ st[p] # "none" /\ p[1] = c
  BY TargetProc
<1>2. /\ st' = st /\ Proc' = Proc /\ \A d \in Check : kind[d] # "none" => kind'[d] # "none"
  <2>1. CheckStep(c) /\ st' = st
    BY DEF CheckStep, CallStep, Waits, WaitReturns, CleansNext, CleanupNext
  <2>. QED BY <2>1, KindStays, SameSetup
<1>3. \/ UNCHANGED <<tmp, cleaned>>
      \/ \E removed \in BOOLEAN : Cleanup(p, removed) /\ (removed \/ kind'[c] # "none")
  BY <1>1 DEF Waits, WaitReturns, Raises, CleansNext, CleanupNext, TypeOK
<1>4. DOMAIN tmp = Proc /\ DOMAIN cleaned = Proc
  BY DEF TypeOK
<1>5. ASSUME NEW q \in Proc
      PROVE  (st'[q] = "none" => ~tmp'[q]) /\ (cleaned'[q] /\ tmp'[q] => kind'[q[1]] # "none")
  <2>1. q[1] \in Check
    BY ProcParts
  <2>2. CASE UNCHANGED <<tmp, cleaned>>
    BY <1>2, <2>1, <2>2 DEF DirInv
  <2>3. CASE \E removed \in BOOLEAN : Cleanup(p, removed) /\ (removed \/ kind'[c] # "none")
    BY <1>1, <1>2, <1>4, <2>1, <2>3 DEF DirInv, Cleanup
  <2>. QED BY <1>3, <2>2, <2>3
<1>. QED BY <1>2, <1>5 DEF DirInv

LEMMA StartedDirs ==
  ASSUME TypeOK, CallInv, DirInv, NEW c \in Check, Exec(c) PROVE DirInv'
<1>1. PICK p \in Proc : p = <<c, nprocs[c] + 1>> /\ st[p] = "none"
  BY NextProc
<1>2. /\ st' = [st EXCEPT ![p] = "start"] /\ tmp' = [tmp EXCEPT ![p] = TRUE]
      /\ UNCHANGED <<kind, cleaned>> /\ Proc' = Proc /\ ~cleaned[p]
  BY <1>1, SameSetup DEF Exec, checkVars, CallInv, ProcInv
<1>. QED BY <1>2 DEF DirInv, TypeOK

LEMMA NextDirs ==
  ASSUME TypeOK, TokenInv, CallInv, DirInv, [Next]_vars PROVE DirInv'
<1>1. ASSUME NEW c \in Check, CheckStep(c), ~Exec(c), ~Waits(c), ~CleansNext(c) PROVE DirInv'
  <2>1. UNCHANGED <<st, tmp, cleaned>>
    BY <1>1 DEF CheckStep, CallStep, StartCheck, Emit, EmitFails, EndsBadly, Raises, CallWait, WaitAgain,
       ReturnNone, CleanupDone, Report, Leave, Waits, CleansNext, procVars
  <2>2. Proc' = Proc /\ \A d \in Check : kind[d] # "none" => kind'[d] # "none"
    BY <1>1, KindStays, SameSetup
  <2>3. \A q \in Proc : q[1] \in Check
    BY ProcParts
  <2>. QED BY <2>1, <2>2, <2>3 DEF DirInv
<1>2. ASSUME NEW p \in Proc, ProcStep(p) \/ EndsByItself(p) PROVE DirInv'
  <2>1. UNCHANGED <<setup, kind, cleaned, tmp>>
    BY <1>2, ProcMoves DEF procRest, checkVars
  <2>2. \A q \in Proc : st'[q] = "none" <=> st[q] = "none"
    BY <1>2, ProcMoves
  <2>. QED BY <2>1, <2>2, SameDirs
<1>3. CASE Interrupt \/ UNCHANGED vars
  BY <1>3, SameDirs DEF Interrupt, vars, checkVars, procVars
<1>4. CASE Finish
  <2>1. UNCHANGED <<setup, kind, cleaned, st>> /\ \A p \in Proc : tmp'[p] => tmp[p]
    BY <1>4 DEF Finish, RemoveAll, checkVars
  <2>. QED BY <2>1, SameDirs
<1>5. ASSUME NEW c \in Check, CheckStep(c) PROVE DirInv'
  BY <1>1, <1>5, StartedDirs, CleanedDirs
<1>. QED BY <1>2, <1>3, <1>4, <1>5 DEF Next, Over

-----------------------------------------------------------------------------
(* What is told of the checks                                              *)

LEMMA RaiseIsMax ==
  ASSUME NEW old, NEW l \in {Notice, Warning, Error}, NEW E \in SUBSET {Notice, Warning, Error},
         old \in E \cup {Nothing}, \A m \in E : m <= old
  PROVE  Raise(old, l) \in E \cup {l} /\ \A m \in E \cup {l} : m <= Raise(old, l)
BY DEF Raise, Nothing, Notice, Warning, Error

\* A check that goes on has not left: the run is not over.
LEMMA CheckGoesOn ==
  ASSUME ErrorInv, NEW c \in Check, CheckStep(c) PROVE pc[c] # "done" /\ result = "running"
<1>1. pc[c] # "done"
  BY DEF CheckStep, CallStep, StartCheck, Emit, EmitFails, EndsBadly, Exec, CallWait, WaitAgain,
     WaitReturns, ReturnNone, CleanupNext, CleanupDone, Report, Leave
<1>. QED BY <1>1 DEF ErrorInv

LEMMA SameTold ==
  ASSUME NEW c \in Check, Told(c), setup' = setup, ctxDone => ctxDone', egErr' = "none" => egErr = "none",
         pc'[c] = pc[c], kind'[c] = kind[c], ret'[c] = ret[c], completed'[c] = completed[c],
         level'[c] = level[c], emitted'[c] = emitted[c]
  PROVE  Told(c)'
BY DEF Told, LevelIsMax

\* While a check runs its callback.
LEMMA CallTold ==
  ASSUME TypeOK, CallInv, ErrorInv, NEW c \in Check, CallStep(c) PROVE Told(c)' /\ UNCHANGED runVars
<1>1. Told(c) /\ \A p \in Proc : errs[p] = "cancel" => ctxDone
  BY DEF ErrorInv
<1>2. /\ DOMAIN pc = Check /\ DOMAIN kind = Check /\ DOMAIN level = Check /\ DOMAIN emitted = Check
      /\ emitted[c] \in SUBSET {Notice, Warning, Error} /\ setup.levels \subseteq {Notice, Warning, Error}
  BY SetupTypes DEF TypeOK
<1>3. CASE \E l \in setup.levels : Emit(c, l)
  <2>1. PICK l \in setup.levels : Emit(c, l)
    BY <1>3
  <2>2. /\ pc[c] = "running" /\ level'[c] = Raise(level[c], l) /\ emitted'[c] = emitted[c] \cup {l}
        /\ UNCHANGED <<pc, kind, ret, completed, runVars>>
    BY <1>2, <2>1 DEF Emit
  <2>3. LevelIsMax(c)
    BY <1>1, <2>2 DEF Told
  <2>4. LevelIsMax(c)'
    BY <1>2, <2>2, <2>3, RaiseIsMax DEF LevelIsMax
  <2>. QED BY <1>1, <2>2, <2>4 DEF Told, runVars
<1>4. CASE \E l \in setup.levels : EmitFails(c, l)
  BY <1>1, <1>2, <1>4 DEF Told, EmitFails, Raises, runVars
<1>5. CASE \E e \in {"fail", "eval", "notNone"} : EndsBadly(c, e)
  BY <1>1, <1>2, <1>5 DEF Told, EndsBadly, Raises, runVars
<1>6. CASE Exec(c) \/ ReturnNone(c) \/ CleanupDone(c) \/ \E i \in 1..setup.maxProcs[c] : CallWait(c, i)
  BY <1>1, <1>2, <1>6 DEF Told, LevelIsMax, Exec, ReturnNone, CleanupDone, CallWait, checkVars, runVars
<1>7. CASE \E i \in 1..setup.maxProcs[c] : WaitAgain(c, i)
  BY <1>1, <1>2, <1>7 DEF Told, WaitAgain, Raises, runVars
<1>8. CASE Waits(c)
  <2>1. PICK p \in Proc : p = <<c, target[c]>>
    BY <1>8, TargetProc
  <2>2. errs[p] = "cancel" => ctxDone
    BY <1>1
  <2>. QED BY <1>1, <1>2, <1>8, <2>1, <2>2 DEF Told, LevelIsMax, Waits, WaitReturns, Raises, runVars
<1>9. CASE CleansNext(c)
  BY <1>1, <1>2, <1>9 DEF Told, LevelIsMax, CleansNext, CleanupNext, runVars
<1>. QED BY <1>3, <1>4, <1>5, <1>6, <1>7, <1>8, <1>9 DEF CallStep, Waits, CleansNext

\* What a step of a check that changes neither errgroup nor context keeps.
LEMMA InsideError ==
  ASSUME TypeOK, ErrorInv, NEW c \in Check, CheckStep(c), Told(c)', UNCHANGED <<setup, errs, runVars>>
  PROVE  ErrorInv'
<1>1. Check' = Check /\ Proc' = Proc /\ pc[c] # "done" /\ result = "running"
  BY SameSetup, CheckGoesOn
<1>2. ASSUME NEW d \in Check, d # c
      PROVE  Told(d)' /\ pc'[d] = pc[d] /\ completed'[d] = completed[d]
  BY <1>2, OtherChecks, SameTold DEF ErrorInv, runVars
<1>3. egErr # "none" => interrupted \/ \E d \in Check : pc'[d] = "done" /\ completed'[d] = egErr
  <2>1. ASSUME NEW d \in Check, pc[d] = "done" PROVE pc'[d] = pc[d] /\ completed'[d] = completed[d]
    BY <1>1, <1>2, <2>1
  <2>. QED BY <2>1 DEF ErrorInv
<1>. QED BY <1>1, <1>2, <1>3 DEF ErrorInv, runVars

\* errgroup gets what the goroutine of a check returns.
LEMMA LeaveError ==
  ASSUME TypeOK, ErrorInv, NEW c \in Check, Leave(c) PROVE ErrorInv'
<1>1. CheckStep(c)
  BY DEF CheckStep
<1>2. /\ UNCHANGED <<setup, errs, kind, ret, completed, level, emitted, interrupted, result>>
      /\ pc[c] = "leaving" /\ pc'[c] = "done" /\ result = "running"
      /\ egErr' = (IF egErr = "none" THEN ret[c] ELSE egErr) /\ ctxDone' = (ctxDone \/ ret[c] # "none")
  BY <1>1, CheckGoesOn DEF Leave, checkVars, procVars, TypeOK
<1>3. Check' = Check /\ Proc' = Proc /\ Told(c)
  BY <1>2, SameSetup DEF ErrorInv
<1>4. Told(c)'
  BY <1>2, <1>3 DEF Told, LevelIsMax
<1>5. ASSUME NEW d \in Check, d # c PROVE Told(d)' /\ pc'[d] = pc[d]
  BY <1>1, <1>2, <1>5, OtherChecks, SameTold DEF ErrorInv
<1>6. ctxDone' => interrupted' \/ egErr' # "none" \/ result' # "running"
  BY <1>2 DEF ErrorInv
<1>7. egErr' # "none" => interrupted' \/ \E d \in Check : pc'[d] = "done" /\ completed'[d] = egErr'
  <2>1. CASE egErr # "none"
    <3>1. ASSUME NEW d \in Check, pc[d] = "done" PROVE pc'[d] = pc[d] /\ completed'[d] = completed[d]
      BY <1>2, <1>5, <3>1
    <3>. QED BY <1>2, <2>1, <3>1 DEF ErrorInv
  <2>2. CASE egErr = "none"
    BY <1>2, <1>3, <2>2 DEF Told, ErrorInv
  <2>. QED BY <2>1, <2>2
<1>. QED BY <1>2, <1>3, <1>4, <1>5, <1>6, <1>7 DEF ErrorInv

LEMMA NextError ==
  ASSUME TypeOK, TokenInv, CallInv, ErrorInv, [Next]_vars PROVE ErrorInv'
<1>1. ASSUME NEW c \in Check, StartCheck(c) PROVE ErrorInv'
  <2>1. CheckStep(c) /\ Told(c) /\ DOMAIN pc = Check
    BY <1>1 DEF CheckStep, ErrorInv, TypeOK
  <2>2. Told(c)' /\ UNCHANGED <<setup, errs, runVars>>
    BY <1>1, <2>1 DEF StartCheck, Told, LevelIsMax, checkVars, procVars, runVars
  <2>. QED BY <2>1, <2>2, InsideError
<1>2. ASSUME NEW c \in Check, CallStep(c) PROVE ErrorInv'
  <2>1. UNCHANGED <<setup, errs>>
    BY <1>2 DEF CallStep, Emit, EmitFails, EndsBadly, Exec, CallWait, WaitAgain, WaitReturns,
       ReturnNone, CleanupNext, CleanupDone, procVars
  <2>. QED BY <1>2, <2>1, CallTold, InsideError DEF CheckStep
<1>3. ASSUME NEW c \in Check, Report(c) PROVE ErrorInv'
  <2>1. CheckStep(c) /\ Told(c) /\ DOMAIN pc = Check /\ DOMAIN ret = Check /\ DOMAIN completed = Check
    BY <1>3 DEF CheckStep, ErrorInv, TypeOK
  <2>2. Told(c)' /\ UNCHANGED <<setup, errs, runVars>>
    BY <1>3, <2>1 DEF Report, Suppressed, Told, LevelIsMax, procVars, runVars
  <2>. QED BY <2>1, <2>2, InsideError
<1>4. ASSUME NEW p \in Proc, ProcStep(p) \/ EndsByItself(p) PROVE ErrorInv'
  <2>1. UNCHANGED procRest /\ Check' = Check /\ Proc' = Proc
    BY <1>4, ProcMoves, SameSetup DEF procRest
  <2>2. \A q \in Proc : errs'[q] = "cancel" => ctxDone'
    BY <1>4, <2>1, ProcMoves DEF ErrorInv, procRest, runVars
  <2>. QED BY <2>1, <2>2 DEF ErrorInv, Told, LevelIsMax, Verdict, procRest, checkVars, runVars
<1>5. CASE Interrupt
  <2>1. /\ UNCHANGED <<setup, pc, checkVars, errs, egErr, result>> /\ ctxDone' /\ interrupted'
        /\ Check' = Check /\ Proc' = Proc
    BY <1>5, SameSetup DEF Interrupt, procVars
  <2>. QED BY <1>5, <2>1 DEF Interrupt, ErrorInv, Told, LevelIsMax, checkVars
<1>6. CASE Finish
  <2>1. /\ UNCHANGED <<setup, pc, checkVars, errs, egErr, interrupted>> /\ ctxDone' /\ Check' = Check
        /\ Proc' = Proc /\ (\A c \in Check : pc[c] = "done")
        /\ result' = Verdict \/ (Verdict = "ok" /\ result' = "notRemoved")
    BY <1>6, SameSetup DEF Finish, RemoveAll
  <2>2. Verdict' = Verdict /\ Verdict # "running"
    BY <2>1 DEF Verdict, checkVars, TypeOK, ErrKind
  <2>3. \A c \in Check : Told(c)'
    BY <2>1 DEF ErrorInv, Told, LevelIsMax, checkVars
  <2>. QED BY <2>1, <2>2, <2>3 DEF ErrorInv, checkVars
<1>7. CASE UNCHANGED vars
  BY <1>7, SameSetup DEF vars, checkVars, procVars, runVars, ErrorInv, Told, LevelIsMax, Verdict
<1>. QED BY <1>1, <1>2, <1>3, <1>4, <1>5, <1>6, <1>7, LeaveError DEF Next, CheckStep, Over

-----------------------------------------------------------------------------
(* Types                                                                   *)

CheckPcs == {"queued", "running", "waiting", "cleanup", "returned", "leaving", "done"}

CheckTypes ==
  /\ pc \in [Check -> CheckPcs]
  /\ target \in [Check -> Nat] /\ \A c \in Check : target[c] <= setup.maxProcs[c] + 1
  /\ kind \in [Check -> {"none"} \cup ErrKind]
  /\ ret \in [Check -> {"none", "ctx"} \cup ErrKind]
  /\ level \in [Check -> {Nothing} \cup setup.levels]
  /\ emitted \in [Check -> SUBSET setup.levels]
  /\ completed \in [Check -> {"no", "none"} \cup ErrKind]
  /\ nprocs \in [Check -> Nat] /\ \A c \in Check : nprocs[c] <= setup.maxProcs[c]

ProcTypes ==
  /\ waitCalled \in [Proc -> BOOLEAN]
  /\ cleaned \in [Proc -> BOOLEAN]
  /\ tmp \in [Proc -> BOOLEAN]

PoolTypes ==
  /\ buf \in [Proc -> Buffer \cup {NoBuffer}]
  /\ pool \subseteq Buffer
  /\ panicked \in BOOLEAN

RunTypes ==
  /\ egErr \in {"none", "ctx"} \cup ErrKind
  /\ ctxDone \in BOOLEAN
  /\ interrupted \in BOOLEAN
  /\ result \in {"running", "ctx"} \cup CleanResult \cup ErrKind

LEMMA TypeParts ==
  TypeOK <=> /\ setup \in Setup /\ CheckTypes /\ ProcTypes /\ PoolTypes /\ RunTypes /\ SemTypes
             /\ errs \in [Proc -> Errs]
BY DEF TypeOK, CheckTypes, CheckPcs, ProcTypes, PoolTypes, RunTypes, SemTypes, ProcState, Errs

LEMMA TypeGoal ==
  ASSUME TypeOK, setup' = setup, CheckTypes', ProcTypes', PoolTypes', RunTypes', SemTypes',
         errs' \in [Proc -> Errs]
  PROVE  TypeOK'
BY SameSetup DEF TypeOK, CheckTypes, CheckPcs, ProcTypes, PoolTypes, RunTypes, SemTypes, ProcState, Errs

LEMMA RaiseIsEither == ASSUME NEW old, NEW l PROVE Raise(old, l) \in {old, l}
BY DEF Raise

LEMMA CheckTypesKept ==
  ASSUME TypeOK, NEW c \in Check, CheckStep(c) PROVE CheckTypes'
<1>1. CheckTypes /\ setup' = setup
  BY TypeParts DEF CheckStep, CallStep, StartCheck, Emit, EmitFails, EndsBadly, Exec, CallWait, WaitAgain,
     WaitReturns, ReturnNone, CleanupNext, CleanupDone, Report, Leave
<1>2. Check' = Check
  BY <1>1, SameSetup
<1>3. pc' \in [Check -> CheckPcs]
  <2>1. pc' = pc \/ \E x \in CheckPcs : pc' = [pc EXCEPT ![c] = x]
    BY DEF CheckStep, CallStep, StartCheck, Emit, EmitFails, EndsBadly, Raises, Exec, CallWait, WaitAgain,
       WaitReturns, ReturnNone, CleanupNext, CleanupDone, Report, Leave, CheckPcs
  <2>. QED BY <1>1, <2>1 DEF CheckTypes
<1>4. kind' \in [Check -> {"none"} \cup ErrKind]
  <2>1. kind' = kind \/ \E e \in ErrKind : kind' = [kind EXCEPT ![c] = e]
    BY DEF CheckStep, CallStep, StartCheck, Emit, EmitFails, EndsBadly, Raises, Exec, CallWait, WaitAgain,
       WaitReturns, ReturnNone, CleanupNext, CleanupDone, Report, Leave, ErrKind, checkVars
  <2>. QED BY <1>1, <2>1 DEF CheckTypes
<1>5. ret' \in [Check -> {"none", "ctx"} \cup ErrKind]
  <2>1. ret' = ret \/ ret' = [ret EXCEPT ![c] = "ctx"] \/ ret' = [ret EXCEPT ![c] = kind[c]]
    BY DEF CheckStep, CallStep, StartCheck, Emit, EmitFails, EndsBadly, Raises, Exec, CallWait, WaitAgain,
       WaitReturns, ReturnNone, CleanupNext, CleanupDone, Report, Leave, checkVars
  <2>. QED BY <1>1, <2>1 DEF CheckTypes
<1>6. completed' \in [Check -> {"no", "none"} \cup ErrKind]
  <2>1. completed' = completed \/ completed' = [completed EXCEPT ![c] = kind[c]]
    BY DEF CheckStep, CallStep, StartCheck, Emit, EmitFails, EndsBadly, Raises, Exec, CallWait, WaitAgain,
       WaitReturns, ReturnNone, CleanupNext, CleanupDone, Report, Leave, checkVars
  <2>. QED BY <1>1, <2>1 DEF CheckTypes
<1>7. level' \in [Check -> {Nothing} \cup setup.levels] /\ emitted' \in [Check -> SUBSET setup.levels]
  <2>1. \/ level' = level /\ emitted' = emitted
        \/ \E l \in setup.levels : /\ level' = [level EXCEPT ![c] = Raise(@, l)]
                                   /\ emitted' = emitted \/ emitted' = [emitted EXCEPT ![c] = @ \cup {l}]
    BY DEF CheckStep, CallStep, StartCheck, Emit, EmitFails, EndsBadly, Exec, CallWait, WaitAgain,
       WaitReturns, ReturnNone, CleanupNext, CleanupDone, Report, Leave, checkVars
  <2>. QED BY <1>1, <2>1, RaiseIsEither DEF CheckTypes
<1>8. nprocs' \in [Check -> Nat] /\ \A d \in Check : nprocs'[d] <= setup.maxProcs[d]
  <2>1. nprocs' = nprocs \/ (nprocs' = [nprocs EXCEPT ![c] = @ + 1] /\ nprocs[c] < setup.maxProcs[c])
    BY DEF CheckStep, CallStep, StartCheck, Emit, EmitFails, EndsBadly, Exec, CallWait, WaitAgain,
       WaitReturns, ReturnNone, CleanupNext, CleanupDone, Report, Leave, procVars
  <2>2. \A d \in Check : setup.maxProcs[d] \in Nat
    BY SetupTypes DEF TypeOK
  <2>. QED BY <1>1, <2>1, <2>2 DEF CheckTypes
<1>9. target' \in [Check -> Nat] /\ \A d \in Check : target'[d] <= setup.maxProcs[d] + 1
  <2>1. \A d \in Check : setup.maxProcs[d] \in Nat
    BY SetupTypes DEF TypeOK
  <2>2. target' = target \/ \E x \in Nat : x <= setup.maxProcs[c] + 1 /\ target' = [target EXCEPT ![c] = x]
    <3>1. CASE \E i \in 1..setup.maxProcs[c] : CallWait(c, i)
      <4>1. nprocs[c] \in Nat /\ setup.maxProcs[c] \in Nat /\ nprocs[c] <= setup.maxProcs[c]
        BY CallTypes
      <4>2. PICK i \in 1..nprocs[c] : target' = [target EXCEPT ![c] = i]
        BY <3>1 DEF CallWait
      <4>3. i \in Nat /\ i <= setup.maxProcs[c] + 1
        BY <4>1, <4>2
      <4>. QED BY <4>2, <4>3
    <3>2. CASE ReturnNone(c)
      <4>1. target' = [target EXCEPT ![c] = 1] /\ setup.maxProcs[c] \in Nat
        BY <2>1, <3>2 DEF ReturnNone
      <4>2. 1 \in Nat /\ 1 <= setup.maxProcs[c] + 1
        BY <4>1
      <4>. QED BY <4>1, <4>2
    <3>3. CASE CleansNext(c)
      <4>1. nprocs[c] \in Nat /\ target[c] \in Nat /\ setup.maxProcs[c] \in Nat
            /\ nprocs[c] <= setup.maxProcs[c]
        BY CallTypes
      <4>2. target[c] <= nprocs[c] /\ target' = [target EXCEPT ![c] = target[c] + 1]
        BY <3>3 DEF CleansNext, CleanupNext
      <4>3. target[c] + 1 \in Nat /\ target[c] + 1 <= setup.maxProcs[c] + 1
        BY <4>1, <4>2
      <4>. QED BY <4>2, <4>3
    <3>4. CASE ~(\E i \in 1..setup.maxProcs[c] : CallWait(c, i)) /\ ~ReturnNone(c) /\ ~CleansNext(c)
      BY <3>4 DEF CheckStep, CallStep, StartCheck, Emit, EmitFails, EndsBadly, Exec, WaitAgain,
         WaitReturns, CleansNext, CleanupDone, Report, Leave, checkVars
    <3>. QED BY <3>1, <3>2, <3>3, <3>4
  <2>. QED BY <1>1, <2>1, <2>2 DEF CheckTypes
<1>. QED BY <1>1, <1>2, <1>3, <1>4, <1>5, <1>6, <1>7, <1>8, <1>9 DEF CheckTypes

LEMMA ProcTypesKept ==
  ASSUME TypeOK, NEW c \in Check, CheckStep(c) PROVE ProcTypes'
<1>1. ProcTypes /\ setup' = setup
  BY TypeParts DEF CheckStep, CallStep, StartCheck, Emit, EmitFails, EndsBadly, Exec, CallWait, WaitAgain,
     WaitReturns, ReturnNone, CleanupNext, CleanupDone, Report, Leave
<1>2. Proc' = Proc
  BY <1>1, SameSetup
<1>3. waitCalled' = waitCalled \/ \E p : waitCalled' = [waitCalled EXCEPT ![p] = TRUE]
  BY DEF CheckStep, CallStep, StartCheck, Emit, EmitFails, EndsBadly, Exec, CallWait, WaitAgain,
     WaitReturns, ReturnNone, CleanupNext, CleanupDone, Report, Leave, procVars
<1>4. cleaned' = cleaned \/ \E p : cleaned' = [cleaned EXCEPT ![p] = TRUE]
  BY DEF CheckStep, CallStep, StartCheck, Emit, EmitFails, EndsBadly, Exec, CallWait, WaitAgain,
     WaitReturns, ReturnNone, CleanupNext, CleanupDone, Cleanup, Report, Leave, procVars
<1>5. tmp' = tmp \/ \E p : \E x \in BOOLEAN : tmp' = [tmp EXCEPT ![p] = x]
  BY DEF CheckStep, CallStep, StartCheck, Emit, EmitFails, EndsBadly, Exec, CallWait, WaitAgain,
     WaitReturns, ReturnNone, CleanupNext, CleanupDone, Cleanup, Report, Leave, procVars
<1>. QED BY <1>1, <1>2, <1>3, <1>4, <1>5 DEF ProcTypes

LEMMA PoolTypesKept ==
  ASSUME TypeOK, setup \in Setups, CallInv, PoolInv, NEW c \in Check, CheckStep(c) PROVE PoolTypes'
<1>1. PoolTypes /\ setup' = setup
  BY TypeParts DEF CheckStep, CallStep, StartCheck, Emit, EmitFails, EndsBadly, Exec, CallWait, WaitAgain,
     WaitReturns, ReturnNone, CleanupNext, CleanupDone, Report, Leave
<1>2. Proc' = Proc
  BY <1>1, SameSetup
<1>3. CASE Exec(c)
  <2>1. PICK b \in Buffer : buf' = [buf EXCEPT ![<<c, nprocs[c] + 1>>] = b] /\ pool' = pool \ {b}
    BY <1>3, GotBuffer
  <2>. QED BY <1>1, <1>2, <1>3, <2>1 DEF PoolTypes, Exec
<1>4. CASE Waits(c) \/ CleansNext(c)
  <2>1. PICK p \in Proc : p = <<c, target[c]>> /\ st[p] # "none"
    BY <1>4, TargetProc
  <2>2. buf[p] \in Buffer
    BY <1>1, <2>1 DEF PoolInv, PoolTypes
  <2>3. buf' = buf /\ (UNCHANGED poolVars \/ Cleans(p))
    BY <1>4, <2>1 DEF Waits, WaitReturns, CleansNext, CleanupNext, Cleans
  <2>. QED BY <1>1, <1>2, <2>2, <2>3 DEF PoolTypes, poolVars, Cleans, Cleanup
<1>5. CASE ~Exec(c) /\ ~Waits(c) /\ ~CleansNext(c)
  <2>1. UNCHANGED <<pool, panicked, buf>>
    BY <1>5 DEF CheckStep, CallStep, StartCheck, Emit, EmitFails, EndsBadly, CallWait, WaitAgain,
       ReturnNone, CleanupDone, Report, Leave, Waits, CleansNext, procVars, poolVars
  <2>. QED BY <1>1, <1>2, <2>1 DEF PoolTypes
<1>. QED BY <1>3, <1>4, <1>5

LEMMA RunTypesKept ==
  ASSUME TypeOK, NEW c \in Check, CheckStep(c)
  PROVE  RunTypes' /\ errs' \in [Proc -> Errs] /\ setup' = setup
<1>1. RunTypes /\ ret \in [Check -> {"none", "ctx"} \cup ErrKind] /\ errs \in [Proc -> Errs]
  BY TypeParts DEF CheckTypes
<1>2. setup' = setup /\ errs' = errs
  BY DEF CheckStep, CallStep, StartCheck, Emit, EmitFails, EndsBadly, Exec, CallWait, WaitAgain,
     WaitReturns, ReturnNone, CleanupNext, CleanupDone, Report, Leave, procVars
<1>3. UNCHANGED runVars \/ Leave(c)
  BY DEF CheckStep, CallStep, StartCheck, Emit, EmitFails, EndsBadly, Exec, CallWait, WaitAgain,
     WaitReturns, ReturnNone, CleanupNext, CleanupDone, Report
<1>. QED BY <1>1, <1>2, <1>3 DEF RunTypes, runVars, Leave

LEMMA NextType ==
  ASSUME TypeOK, setup \in Setups, TokenInv, CallInv, PoolInv, [Next]_vars
  PROVE  TypeOK' /\ setup' \in Setups
<1>1. SemTypes'
  BY NextTokens
<1>2. /\ setup \in Setup /\ CheckTypes /\ ProcTypes /\ PoolTypes /\ RunTypes /\ errs \in [Proc -> Errs]
  BY TypeParts
<1>3. setup' = setup => Check' = Check /\ Proc' = Proc
  BY SameSetup
<1>4. ASSUME NEW c \in Check, CheckStep(c) PROVE TypeOK' /\ setup' \in Setups
  BY <1>1, <1>4, TypeGoal, CheckTypesKept, ProcTypesKept, PoolTypesKept, RunTypesKept
<1>5. ASSUME NEW p \in Proc, ProcStep(p) \/ EndsByItself(p) PROVE TypeOK' /\ setup' \in Setups
  <2>1. UNCHANGED procRest /\ errs' \in [Proc -> Errs]
    BY <1>5, ProcMoves
  <2>2. CheckTypes' /\ ProcTypes' /\ PoolTypes' /\ RunTypes' /\ setup' = setup
    BY <1>2, <1>3, <2>1 DEF CheckTypes, ProcTypes, PoolTypes, RunTypes, procRest, checkVars, poolVars, runVars
  <2>. QED BY <1>1, <1>2, <2>1, <2>2, TypeGoal
<1>6. CASE Interrupt \/ UNCHANGED vars
  <2>1. CheckTypes' /\ ProcTypes' /\ PoolTypes' /\ RunTypes' /\ setup' = setup /\ errs' = errs
    BY <1>2, <1>3, <1>6 DEF CheckTypes, ProcTypes, PoolTypes, RunTypes, Interrupt, vars, checkVars, procVars,
       poolVars, runVars
  <2>. QED BY <1>1, <1>2, <2>1, TypeGoal
<1>7. CASE Finish
  <2>1. result' \in {"ctx"} \cup CleanResult \cup ErrKind
    BY <1>2, <1>7 DEF Finish, RemoveAll, Verdict, RunTypes, CleanResult
  <2>2. CheckTypes' /\ ProcTypes' /\ PoolTypes' /\ RunTypes' /\ setup' = setup /\ errs' = errs
    BY <1>2, <1>3, <1>7, <2>1 DEF CheckTypes, ProcTypes, PoolTypes, RunTypes, Finish, RemoveAll, checkVars, poolVars
  <2>. QED BY <1>1, <1>2, <2>2, TypeGoal
<1>. QED BY <1>4, <1>5, <1>6, <1>7 DEF Next, Over

-----------------------------------------------------------------------------
(* The invariant                                                           *)

LEMMA InitInv == ASSUME Init PROVE IInv
<1>1. setup \in Setups /\ setup \in Setup
  BY CheckRunAssumption DEF Init
<1>2. /\ setup.maxConcurrency \in Nat \ {0}
      /\ \A c \in Check : c \in Nat /\ setup.maxProcs[c] \in Nat
  BY <1>1, SetupTypes
<1>3. TypeOK
  <2>1. CheckTypes
    BY <1>2 DEF Init, CheckTypes, CheckPcs
  <2>2. ProcTypes /\ PoolTypes /\ RunTypes /\ errs \in [Proc -> Errs]
    BY CheckRunAssumption DEF Init, ProcTypes, PoolTypes, RunTypes, Errs
  <2>3. SemTypes
    BY <1>2 DEF Init, SemTypes, ProcState
  <2>. QED BY <1>1, <2>1, <2>2, <2>3, TypeParts
<1>4. TokenInv
  <2>1. {p \in Proc : st[p] \in {"ready", "acquired", "running"}} = {}
    BY DEF Init
  <2>2. Cardinality({}) = 0
    BY FS_EmptySet
  <2>3. {semWaiters[i] : i \in DOMAIN semWaiters} = {} /\ {p \in Proc : st[p] = "queued"} = {}
    BY DEF Init
  <2>4. Distinct(semWaiters)
    BY DEF Init, Distinct
  <2>. QED BY <2>1, <2>2, <2>3, <2>4 DEF Init, TokenInv, TokensAccounted
<1>5. CallInv
  <2>1. \A c \in Check : CheckInv(c)
    BY DEF Init, CheckInv
  <2>2. ASSUME NEW p \in Proc PROVE ProcInv(p)
    <3>1. p[1] \in Check /\ p[2] \in Nat /\ p[2] >= 1
      BY <1>2, ProcParts
    <3>. QED BY <3>1 DEF Init, ProcInv
  <2>. QED BY <2>1, <2>2 DEF CallInv
<1>6. PoolInv
  BY CheckRunAssumption DEF Init, PoolInv, InUse
<1>7. DirInv
  BY DEF Init, DirInv
<1>8. ErrorInv
  BY DEF Init, ErrorInv, Told, LevelIsMax
<1>. QED BY <1>1, <1>3, <1>4, <1>5, <1>6, <1>7, <1>8 DEF IInv

LEMMA NextInv == ASSUME IInv, [Next]_vars PROVE IInv'
BY NextType, NextTokens, NextCall, NextPool, NextDirs, NextError DEF IInv

\* In every reachable state of every run, the types are right, the tokens of
\* subprocessSem are accounted for, each check is where its subprocesses say
\* it is, the buffers are in order, and the Report, the errgroup and the
\* caller agree on what failed (run.go, runtime_ctx_os.go).
THEOREM IInvariance == Spec => []IInv
BY InitInv, NextInv, PTL DEF Spec

\* Every variable has its type: the size of subprocessSem is never exceeded,
\* nor do the goroutines of a check leave the subprocesses it has.
THEOREM TypeCorrect == Spec => []TypeOK
<1>1. IInv => TypeOK
  BY DEF IInv
<1>. QED BY <1>1, IInvariance, PTL

\* No wake-up of the semaphore is lost: while a goroutine queues for a token
\* (runtime_ctx_os.go, subprocessSem.Acquire), every token is with one that
\* gives it back, and the queue is made of exactly those that wait.
THEOREM NoLostToken == Spec => []TokensAccounted
<1>1. IInv => TokensAccounted
  BY DEF IInv, TokenInv
<1>. QED BY <1>1, IInvariance, PTL

\* buffers.get() and push() never give the same buffer to two subprocesses
\* whose output may still be written or read, and push() never panics.
THEOREM NoSharedBuffer == Spec => []BuffersExclusive
<1>1. IInv => BuffersExclusive
  <2>. SUFFICES ASSUME IInv PROVE BuffersExclusive
    OBVIOUS
  <2>1. ASSUME NEW p \in Proc, st[p] # "none", st[p] = "finished" => ~cleaned[p] PROVE InUse(p)
    BY <2>1 DEF IInv, CallInv, ProcInv, InUse
  <2>. QED BY <2>1 DEF IInv, PoolInv, BuffersExclusive
<1>. QED BY <1>1, IInvariance, PTL

\* What is known once runInner returned without an error but ErrCheckFailed.
LEMMA CleanVerdict ==
  ASSUME IInv, result \in CleanResult
  PROVE  /\ result = "checkFailed" <=> \E c \in Check : level[c] = Error
         /\ \A c \in Check : pc[c] = "done" /\ completed[c] = "none" /\ kind[c] = "none" /\ LevelIsMax(c)
<1>1. /\ result = Verdict \/ (Verdict = "ok" /\ result = "notRemoved")
      /\ \A c \in Check : pc[c] = "done" /\ Told(c)
  BY DEF IInv, ErrorInv, CleanResult
<1>2. egErr \in {"none", "ctx"} \cup ErrKind
  BY DEF IInv, TypeOK
<1>3. egErr = "none"
  BY <1>1, <1>2 DEF Verdict, ErrKind, CleanResult
<1>4. ASSUME NEW c \in Check PROVE completed[c] = "none" /\ kind[c] = "none" /\ LevelIsMax(c)
  BY <1>1, <1>3 DEF Told
<1>5. result = "checkFailed" <=> \E c \in Check : level[c] = Error
  BY <1>1, <1>3 DEF Verdict, CleanResult
<1>. QED BY <1>1, <1>4, <1>5

\* highestLevel says whether an error was emitted.
LEMMA ErrorShows ==
  ASSUME TypeOK, NEW c \in Check, LevelIsMax(c) PROVE level[c] = Error <=> Error \in emitted[c]
<1>1. setup.levels \subseteq {Notice, Warning, Error} /\ level[c] \in {Nothing} \cup setup.levels
  BY SetupTypes DEF TypeOK
<1>. QED BY <1>1 DEF LevelIsMax, Nothing, Notice, Warning, Error

\* registeredCheck.call drops an error only when the context is cancelled, and
\* errgroup keeps the first: the Report never blames a check for the failure
\* of another, and knows of the one that Run returns.  The error that Run has of
\* its own, that of removing its directory (run.go:315), hides none of a check.
THEOREM NoFalseBlame == Spec => []GenuineFailuresOnly
<1>1. IInv => GenuineFailuresOnly
  <2>. SUFFICES ASSUME IInv PROVE GenuineFailuresOnly
    OBVIOUS
  <2>1. \A c \in Check : completed[c] # "cancel"
    BY DEF IInv, ErrorInv, Told
  <2>2. ASSUME result \notin {"running"} \cup CleanResult, ~interrupted
        PROVE  \E c \in Check : completed[c] = result
    <3>1. result = Verdict
      BY <2>2 DEF IInv, ErrorInv, CleanResult
    <3>2. result = egErr /\ egErr # "none"
      BY <2>2, <3>1 DEF Verdict, CleanResult
    <3>. QED BY <2>2, <3>2 DEF IInv, ErrorInv
  <2>3. ASSUME result = "notRemoved", NEW c \in Check
        PROVE  completed[c] = "none" /\ Error \notin emitted[c]
    <3>1. result \in CleanResult /\ result # "checkFailed"
      BY <2>3 DEF CleanResult
    <3>2. completed[c] = "none" /\ LevelIsMax(c) /\ level[c] # Error
      BY <3>1, CleanVerdict
    <3>. QED BY <3>2, ErrorShows DEF IInv
  <2>. QED BY <2>1, <2>2, <2>3 DEF GenuineFailuresOnly
<1>. QED BY <1>1, IInvariance, PTL

\* Run returns nil, or the error of removing its directory, when no check emitted
\* an error, and ErrCheckFailed when some check did, and then every check
\* completed; highestLevel is what its name says (run.go, runInner and
\* registeredCheck).
THEOREM SoundVerdict == Spec => []VerdictSound
<1>1. IInv => VerdictSound
  <2>. SUFFICES ASSUME IInv PROVE VerdictSound
    OBVIOUS
  <2>1. ASSUME NEW c \in Check, completed[c] = "none" PROVE LevelIsMax(c)
    BY <2>1 DEF IInv, ErrorInv, Told
  <2>2. ASSUME NEW c \in Check, LevelIsMax(c) PROVE level[c] = Error <=> Error \in emitted[c]
    BY <2>2, ErrorShows DEF IInv
  <2>3. ASSUME result \in CleanResult
        PROVE  /\ (result = "checkFailed") <=> (\E c \in Check : Error \in emitted[c])
               /\ \A c \in Check : completed[c] = "none"
    BY <2>2, <2>3, CleanVerdict
  <2>. QED BY <2>1, <2>3 DEF VerdictSound, LevelIsMax
<1>. QED BY <1>1, IInvariance, PTL

\* When every check completed, every subprocess that was started has ended,
\* wait() or cleanup() was through with it, its buffers are back, and its
\* directory is gone.
THEOREM NothingLeftBehind == Spec => []NormalRunLeavesNothing
<1>1. IInv => NormalRunLeavesNothing
  <2>. SUFFICES ASSUME IInv, result \in CleanResult, NEW p \in Proc
                PROVE  (st[p] # "none" => st[p] = "finished" /\ cleaned[p] /\ buf[p] \in pool) /\ ~tmp[p]
    BY DEF NormalRunLeavesNothing
  <2>1. ASSUME NEW q \in Proc PROVE pc[q[1]] = "done" /\ kind[q[1]] = "none"
    BY ProcParts, CleanVerdict
  <2>2. ASSUME NEW q \in Proc, st[q] # "none" PROVE st[q] = "finished" /\ cleaned[q]
    BY <2>1, <2>2 DEF IInv, CallInv, ProcInv
  <2>3. st[p] # "none" => buf[p] \in pool
    BY <2>2 DEF IInv, PoolInv, InUse
  <2>4. ~tmp[p]
    BY <2>1, <2>2 DEF IInv, DirInv
  <2>. QED BY <2>2, <2>3, <2>4
<1>. QED BY <1>1, IInvariance, PTL
=============================================================================

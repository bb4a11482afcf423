--------------------------- MODULE StartupProofs ---------------------------
(***************************************************************************)
(* What Startup guarantees of packages, of errors, and of the files and    *)
(* the checks selected, for any documents, stores, trees and options.      *)
(***************************************************************************)
EXTENDS Startup, FiniteSetTheorems, SequenceTheorems, WellFoundedInduction, TLAPS

-----------------------------------------------------------------------------
(* The invariant                                                           *)

Loading   == {"discover", "parse", "filter", "run"}
PkgStep   == {"fetch", "escape", "clone", "checkout", "verify", "done", "failed"}
PkgErrors == {"git", "version", "digest", "not vendored"}
Failures  == {"", "path"} \cup PkgErrors

StartTypes ==
  /\ setup \in Setup
  /\ doc = setup.doc /\ stores = setup.stores
  /\ stage \in {"root", "config", "scm", "packages", "over"} \cup Loading
  /\ next \in Nat \ {0}
  /\ pc \in Seq(PkgStep)
  /\ failure \in Failures

\* The goroutines are those of the dependencies before the next one.
GroupInv ==
  /\ IF doc.vendored THEN pc = <<>> /\ next <= Len(deps) + 1
     ELSE next = Len(pc) + 1 /\ Len(pc) <= Len(deps)
  /\ Cardinality(Busy) <= PkgConcurrency
  /\ stage # "packages" => Busy = {}
  /\ \A i \in DOMAIN pc : /\ pc[i] = "fetch"  => deps[i].version \in Pending
                          /\ pc[i] = "escape" => deps[i].version \in Unescapable

\* Every name stands for a dependency that was verified, and every dependency
\* that is through has its url.
NamesInv ==
  /\ \A n \in DOMAIN names :
       \/ names[n] = 0 /\ n = <<"__main__">>
       \/ /\ names[n] \in DOMAIN deps
          /\ n \in {deps[names[n]].url, deps[names[n]].alias}
          /\ Verified(names[n])
  /\ \A i \in DOMAIN deps :
       (IF doc.vendored THEN i < next ELSE i \in DOMAIN pc /\ pc[i] = "done") => deps[i].url \in DOMAIN names

\* A failure has a cause.
FailureInv ==
  /\ \A i \in DOMAIN pc : pc[i] = "failed" => failure # ""
  /\ failure # "" => IF failure = "path" THEN ~stores.absolute ELSE \E i \in DOMAIN deps : Troubled(i)

\* What each stage has left behind.
StagesInv ==
  /\ stage \in {"scm", "packages"} \cup Loading => ConfigError = ""
  /\ stage \in {"root", "config", "scm"} \cup Loading => failure = ""
  /\ PastPackages => ConfigError = "" /\ \A i \in DOMAIN deps : deps[i].url \in DOMAIN names
  /\ stage # "over" => err = ""

\* The errors of runInner.
ErrorInv ==
  stage = "over" =>
    /\ setup.config = "document" /\ CheckVersion(doc) = "unsupported version"
         => err \in {"unsupported version", "no directory", "git", "absolute entry point"}
    /\ err = "undeclared variable" => roots # <<>>
    /\ failure # "" => err = failure

StartInv == StartTypes /\ GroupInv /\ NamesInv /\ FailureInv /\ StagesInv /\ ErrorInv

-----------------------------------------------------------------------------
(* Lemmas                                                                  *)

\* The dependencies of a document.
LEMMA DependencyTypes ==
  ASSUME StartTypes
  PROVE  /\ deps \in Seq(Dependency) /\ Len(deps) \in Nat /\ DOMAIN deps = 1..Len(deps)
         /\ \A i \in DOMAIN deps : deps[i].url \in Url /\ deps[i].version \in Version
         /\ doc.vendored \in BOOLEAN /\ doc.newFields \in BOOLEAN /\ setup.absoluteEntry \in BOOLEAN
<1>1. doc \in Document /\ setup.absoluteEntry \in BOOLEAN
  BY DEF StartTypes, Setup
<1>2. /\ doc.direct \in Seq(Dependency) /\ doc.indirect \in Seq(Dependency)
      /\ doc.vendored \in BOOLEAN /\ doc.newFields \in BOOLEAN
  BY <1>1 DEF Document, DocumentOver
<1>3. deps \in Seq(Dependency)
  BY <1>2 DEF deps, Dependencies
<1>4. Len(deps) \in Nat /\ DOMAIN deps = 1..Len(deps)
  BY <1>3
<1>5. ASSUME NEW i \in DOMAIN deps PROVE deps[i].url \in Url /\ deps[i].version \in Version
  <2>1. deps[i] \in Dependency
    BY <1>3, <1>5
  <2>. QED BY <2>1 DEF Dependency
<1>. QED BY <1>1, <1>2, <1>3, <1>4, <1>5

\* The document of a run does not change, nor where its packages come from.
LEMMA DocumentKept ==
  ASSUME UNCHANGED <<setup, doc, stores>>
  PROVE  /\ deps' = deps /\ ConfigError' = ConfigError
         /\ \A i : (Verified(i)' <=> Verified(i)) /\ (Troubled(i)' <=> Troubled(i))
<1>1. deps' = deps
  BY DEF deps, Dependencies
<1>2. ASSUME NEW i PROVE Verified(i)' <=> Verified(i)
  BY <1>1 DEF Verified, TreeOf
<1>3. ASSUME NEW i PROVE Troubled(i)' <=> Troubled(i)
  BY <1>1, <1>2 DEF Troubled
<1>4. ConfigError' = ConfigError
  BY DEF ConfigError
<1>. QED BY <1>1, <1>2, <1>3, <1>4

\* What ConfigError may be, and what it excludes.
LEMMA ConfigErrors ==
  ASSUME StartTypes
  PROVE  /\ ConfigError # "undeclared variable"
         /\ ConfigError = "" => AllKnown(doc) /\ CheckVersion(doc) = ""
         /\ setup.config = "document" /\ CheckVersion(doc) = "unsupported version"
              => ConfigError \in {"unsupported version", "absolute entry point"}
<1>1. CheckVersion(doc) \in {"", "invalid version", "unsupported version"}
  BY DEF CheckVersion
<1>2. /\ Validate(doc) \in {"", "invalid version", "unsupported version", "invalid document"}
      /\ Validate(doc) = "" => AllKnown(doc)
  BY <1>1 DEF Validate
<1>. QED BY <1>1, <1>2 DEF ConfigError

-----------------------------------------------------------------------------
(* The initial states                                                      *)

LEMMA StartupStarts == Init => StartInv
<1>. SUFFICES ASSUME Init PROVE StartInv
  OBVIOUS
<1>1. setup \in Setup /\ doc = setup.doc /\ stores = setup.stores /\ stage = "root"
      /\ next = 1 /\ pc = <<>> /\ failure = "" /\ err = ""
  BY StartupAssumption DEF Init, PkgInit
<1>2. StartTypes
  <2>1. <<>> \in Seq(PkgStep) /\ 1 \in Nat \ {0}
    OBVIOUS
  <2>. QED BY <1>1, <2>1 DEF StartTypes, Failures
<1>3. Len(deps) \in Nat /\ doc.vendored \in BOOLEAN /\ DOMAIN deps = 1..Len(deps)
  BY <1>2, DependencyTypes
<1>4. Busy = {} /\ DOMAIN pc = {} /\ Len(pc) = 0
  <2>1. pc = <<>>
    BY DEF Init, PkgInit
  <2>2. DOMAIN pc = {} /\ Len(pc) = 0
    BY <2>1
  <2>. QED BY <2>2 DEF Busy
<1>5. Cardinality(Busy) = 0
  BY <1>4, FS_EmptySet
<1>6. GroupInv
  <2>1. pc = <<>> /\ next = 1
    BY <1>1
  <2>2. 0 <= PkgConcurrency /\ next <= Len(deps) + 1 /\ next = Len(pc) + 1 /\ Len(pc) <= Len(deps)
    BY <1>3, <1>4, <2>1, PackagesAssumption
  <2>. QED BY <1>4, <1>5, <2>1, <2>2 DEF GroupInv
<1>7. NamesInv
  <2>1. names = [n \in {<<"__main__">>} |-> 0]
    BY DEF Init, PkgInit
  <2>2. \A i \in DOMAIN deps : ~(i < next)
    <3>1. next = 1 /\ Len(deps) \in Nat /\ DOMAIN deps = 1..Len(deps)
      BY <1>1, <1>3
    <3>. QED BY <3>1
  <2>3. \A n \in DOMAIN names : names[n] = 0 /\ n = <<"__main__">>
    BY <2>1
  <2>. QED BY <1>4, <2>2, <2>3 DEF NamesInv
<1>8. FailureInv
  BY <1>1, <1>4 DEF FailureInv
<1>9. StagesInv /\ ErrorInv
  BY <1>1 DEF StagesInv, ErrorInv, PastPackages, Loading
<1>. QED BY <1>2, <1>6, <1>7, <1>8, <1>9 DEF StartInv

-----------------------------------------------------------------------------
(* The stages that leave packages alone                                    *)

Leaves == UNCHANGED <<setup, doc, stores, next, pc, names, failure>>
Stages == {"root", "config", "scm", "packages", "over"} \cup Loading

\* A stage that is over leaves the goroutines and the names as they are.
LEMMA PackagesLeftAlone ==
  ASSUME StartInv, Leaves, stage' \in Stages, stage = "packages" => Busy = {}
  PROVE  StartTypes' /\ GroupInv' /\ NamesInv' /\ FailureInv'
<1>1. /\ deps' = deps /\ UNCHANGED <<setup, doc, stores, next, pc, names, failure>>
      /\ \A i : (Verified(i)' <=> Verified(i)) /\ (Troubled(i)' <=> Troubled(i))
  BY DocumentKept DEF Leaves
<1>2. Busy' = Busy /\ Busy = {}
  BY <1>1 DEF Busy, StartInv, GroupInv
<1>3. StartTypes'
  BY <1>1 DEF StartInv, StartTypes, Stages
<1>4. GroupInv'
  BY <1>1, <1>2 DEF StartInv, GroupInv
<1>5. NamesInv'
  BY <1>1 DEF StartInv, NamesInv
<1>6. FailureInv'
  BY <1>1 DEF StartInv, FailureInv
<1>. QED BY <1>3, <1>4, <1>5, <1>6

\* Proceed, from a stage before the packages are retrieved.
LEMMA EarlyStage ==
  ASSUME StartInv, Leaves, NEW e, NEW to \in {"config", "scm", "packages"}, Proceed(e, to),
         stage \in {"root", "config", "scm"}, e # "undeclared variable",
         setup.config = "document" /\ CheckVersion(doc) = "unsupported version" /\ e # ""
           => e \in {"unsupported version", "no directory", "git", "absolute entry point"},
         to # "config" /\ e = "" => ConfigError = ""
  PROVE  StartInv'
<1>1. /\ stage' = (IF e = "" THEN to ELSE "over") /\ err' = e
      /\ UNCHANGED <<setup, doc, stores, next, pc, names, failure>>
  BY DEF Proceed, Leaves
<1>2. StartTypes' /\ GroupInv' /\ NamesInv' /\ FailureInv'
  BY <1>1, PackagesLeftAlone DEF Stages
<1>3. ConfigError' = ConfigError /\ deps' = deps
  BY <1>1, DocumentKept
<1>4. failure = ""
  BY DEF StartInv, StagesInv
<1>5. StagesInv'
  BY <1>1, <1>3, <1>4 DEF StagesInv, PastPackages, Loading
<1>6. CheckVersion(doc)' = CheckVersion(doc)
  BY <1>1
<1>7. ErrorInv'
  BY <1>1, <1>4, <1>6 DEF ErrorInv
<1>. QED BY <1>2, <1>5, <1>7 DEF StartInv

\* Proceed, once every package is there.
LEMMA LateStage ==
  ASSUME StartInv, Leaves, NEW e, NEW to \in Loading \cup {"over"}, Proceed(e, to),
         PastPackages, stage # "over",
         e = "undeclared variable" => roots' # <<>>
  PROVE  StartInv'
<1>1. /\ stage' = (IF e = "" THEN to ELSE "over") /\ err' = e
      /\ UNCHANGED <<setup, doc, stores, next, pc, names, failure>>
  BY DEF Proceed, Leaves
<1>2. stage \in Loading
  BY DEF PastPackages, Loading
<1>3. StartTypes' /\ GroupInv' /\ NamesInv' /\ FailureInv'
  BY <1>1, <1>2, PackagesLeftAlone DEF Stages, Loading
<1>4. ConfigError' = ConfigError /\ deps' = deps
  BY <1>1, DocumentKept
<1>5. failure = "" /\ ConfigError = "" /\ \A i \in DOMAIN deps : deps[i].url \in DOMAIN names
  BY <1>2 DEF StartInv, StagesInv
<1>6. StagesInv'
  BY <1>1, <1>4, <1>5 DEF StagesInv, PastPackages, Loading
<1>7. CheckVersion(doc)' = CheckVersion(doc) /\ CheckVersion(doc) = ""
  BY <1>1, <1>5, ConfigErrors DEF StartInv
<1>8. ErrorInv'
  BY <1>1, <1>5, <1>7 DEF ErrorInv
<1>. QED BY <1>3, <1>6, <1>8 DEF StartInv

LEMMA RootKeeps == StartInv /\ ResolveRoot => StartInv'
<1>. SUFFICES ASSUME StartInv, ResolveRoot PROVE StartInv'
  OBVIOUS
<1>. DEFINE e == IF setup.dir # "directory" THEN "no directory"
                 ELSE IF setup.git.found = "error" THEN "git" ELSE ""
<1>1. Leaves /\ Proceed(e, "config") /\ stage = "root"
  BY DEF ResolveRoot, Leaves, pkgVars
<1>2. e \in {"", "no directory", "git"}
  OBVIOUS
<1>. HIDE DEF e
<1>. QED BY <1>1, <1>2, EarlyStage

LEMMA ConfigKeeps == StartInv /\ ReadConfig => StartInv'
<1>. SUFFICES ASSUME StartInv, ReadConfig PROVE StartInv'
  OBVIOUS
<1>1. Leaves /\ Proceed(ConfigError, "scm") /\ stage = "config"
  BY DEF ReadConfig, Leaves, pkgVars
<1>2. /\ ConfigError # "undeclared variable"
      /\ setup.config = "document" /\ CheckVersion(doc) = "unsupported version"
           => ConfigError \in {"unsupported version", "absolute entry point"}
  BY ConfigErrors DEF StartInv
<1>. QED BY <1>1, <1>2, EarlyStage

LEMMA ScmKeeps == StartInv /\ ChooseScm => StartInv'
<1>. SUFFICES ASSUME StartInv, ChooseScm PROVE StartInv'
  OBVIOUS
<1>1. Leaves /\ Proceed(ScmError, "packages") /\ stage = "scm"
  BY DEF ChooseScm, Leaves, pkgVars
<1>2. ScmError # "undeclared variable"
  BY DEF ScmError
<1>3. ConfigError = "" /\ CheckVersion(doc) = ""
  BY <1>1, ConfigErrors DEF StartInv, StagesInv
<1>. QED BY <1>1, <1>2, <1>3, EarlyStage

LEMMA RetrievedKeeps == StartInv /\ RetrieveReturns => StartInv'
<1>. SUFFICES ASSUME StartInv, RetrieveReturns PROVE StartInv'
  OBVIOUS
<1>1. Leaves /\ stage = "packages" /\ Busy = {} /\ (next \notin DOMAIN deps \/ failure # "")
  BY DEF RetrieveReturns, Retrieved, Cancelled, Leaves, pkgVars
<1>2. PICK e : /\ Proceed(e, "discover")
               /\ failure # "" => e = failure
               /\ e = "" => failure = ""
               /\ e # "undeclared variable"
  <2>1. failure # "undeclared variable"
    BY DEF StartInv, StartTypes, Failures, PkgErrors
  <2>. QED BY <2>1 DEF RetrieveReturns
<1>3. /\ stage' = (IF e = "" THEN "discover" ELSE "over") /\ err' = e
      /\ UNCHANGED <<setup, doc, stores, next, pc, names, failure>>
  BY <1>1, <1>2 DEF Proceed, Leaves
<1>4. StartTypes' /\ GroupInv' /\ NamesInv' /\ FailureInv'
  BY <1>1, <1>3, PackagesLeftAlone DEF Stages, Loading
<1>5. ConfigError' = ConfigError /\ deps' = deps
  BY <1>3, DocumentKept
<1>6. ConfigError = ""
  BY <1>1 DEF StartInv, StagesInv
<1>7. ASSUME failure = "", NEW i \in DOMAIN deps PROVE deps[i].url \in DOMAIN names
  <2>1. Len(deps) \in Nat /\ DOMAIN deps = 1..Len(deps) /\ next \in Nat \ {0}
    BY DependencyTypes DEF StartInv, StartTypes
  <2>2. next \notin DOMAIN deps
    BY <1>1, <1>7
  <2>3. CASE doc.vendored
    <3>1. next <= Len(deps) + 1
      BY <2>3 DEF StartInv, GroupInv
    <3>2. i < next
      BY <2>1, <2>2, <3>1
    <3>. QED BY <2>3, <3>2 DEF StartInv, NamesInv
  <2>4. CASE ~doc.vendored
    <3>1. pc \in Seq(PkgStep) /\ next = Len(pc) + 1
      BY <2>4 DEF StartInv, StartTypes, GroupInv
    <3>2. Len(pc) \in Nat /\ DOMAIN pc = 1..Len(pc)
      BY <3>1
    <3>3. i \in DOMAIN pc
      BY <2>1, <2>2, <3>1, <3>2
    <3>4. pc[i] = "done"
      BY <1>1, <1>7, <3>3 DEF Busy, StartInv, FailureInv
    <3>. QED BY <2>4, <3>3, <3>4 DEF StartInv, NamesInv
  <2>. QED BY <2>3, <2>4
<1>8. StagesInv'
  <2>1. CASE e = ""
    <3>1. stage' = "discover" /\ err' = "" /\ failure = "" /\ UNCHANGED <<names, failure>>
      BY <1>3, <1>2, <2>1
    <3>2. \A i \in DOMAIN deps : deps[i].url \in DOMAIN names
      BY <1>7, <3>1
    <3>. QED BY <1>5, <1>6, <3>1, <3>2 DEF StagesInv, PastPackages, Loading
  <2>2. CASE e # ""
    <3>1. stage' = "over" /\ err' # ""
      BY <1>3, <2>2
    <3>. QED BY <3>1 DEF StagesInv, PastPackages, Loading
  <2>. QED BY <2>1, <2>2
<1>9. CheckVersion(doc)' = CheckVersion(doc) /\ CheckVersion(doc) = ""
  BY <1>3, <1>6, ConfigErrors DEF StartInv
<1>10. ErrorInv'
  <2>1. err' # "undeclared variable" /\ (failure' # "" => err' = failure')
    BY <1>3, <1>2
  <2>. QED BY <1>9, <2>1 DEF ErrorInv
<1>. QED BY <1>4, <1>8, <1>10 DEF StartInv

LEMMA DiscoverKeeps == StartInv /\ Discover => StartInv'
<1>. SUFFICES ASSUME StartInv, Discover PROVE StartInv'
  OBVIOUS
<1>1. Leaves /\ stage = "discover"
  BY DEF Discover, Leaves, pkgVars
<1>2. PICK found : Enter(found)
  BY DEF Discover
<1>3. Proceed(StateError(found), "parse") /\ roots' = found
  BY <1>2 DEF Enter
<1>4. StateError(found) = "undeclared variable" => found # <<>>
  BY DEF StateError
<1>. QED BY <1>1, <1>3, <1>4, LateStage DEF Loading, PastPackages

LEMMA ParseKeeps == StartInv /\ Parse => StartInv'
<1>. SUFFICES ASSUME StartInv, Parse PROVE StartInv'
  OBVIOUS
<1>1. PICK e \in IF ParseErrors = {} THEN {""} ELSE ParseErrors : Proceed(e, "filter")
  BY DEF Parse
<1>2. Leaves /\ stage = "parse"
  BY DEF Parse, Leaves, pkgVars
<1>3. e # "undeclared variable"
  BY <1>1 DEF ParseErrors
<1>. QED BY <1>1, <1>2, <1>3, LateStage DEF Loading, PastPackages

LEMMA FilterKeeps == StartInv /\ FilterChecks => StartInv'
<1>. SUFFICES ASSUME StartInv, FilterChecks PROVE StartInv'
  OBVIOUS
<1>1. Leaves /\ Proceed(SelectError, "run") /\ stage = "filter"
  BY DEF FilterChecks, Leaves, pkgVars
<1>2. SelectError # "undeclared variable"
  BY DEF SelectError, FilterError
<1>. QED BY <1>1, <1>2, LateStage DEF Loading, PastPackages

LEMMA FinishKeeps == StartInv /\ Finish => StartInv'
<1>. SUFFICES ASSUME StartInv, Finish PROVE StartInv'
  OBVIOUS
<1>1. Leaves /\ Proceed("", "over") /\ stage = "run"
  BY DEF Finish, Leaves, pkgVars
<1>. QED BY <1>1, LateStage DEF Loading, PastPackages

\* Nothing of the invariant changes.
LEMMA StartStutters ==
  ASSUME StartInv, UNCHANGED <<setup, doc, stores, stage, next, pc, names, failure, err, roots>>
  PROVE  StartInv'
<1>1. /\ deps' = deps /\ ConfigError' = ConfigError /\ Busy' = Busy
      /\ \A i : (Verified(i)' <=> Verified(i)) /\ (Troubled(i)' <=> Troubled(i))
  BY DocumentKept DEF Busy
<1>2. StartTypes' /\ GroupInv'
  BY <1>1 DEF StartInv, StartTypes, GroupInv
<1>3. NamesInv'
  BY <1>1 DEF StartInv, NamesInv
<1>4. FailureInv' /\ StagesInv'
  BY <1>1 DEF StartInv, FailureInv, StagesInv, PastPackages
<1>5. CheckVersion(doc)' = CheckVersion(doc)
  OBVIOUS
<1>6. ErrorInv'
  BY <1>5 DEF StartInv, ErrorInv
<1>. QED BY <1>2, <1>3, <1>4, <1>6 DEF StartInv

-----------------------------------------------------------------------------
(* The retrieval of packages                                               *)

\* A step of the retrieval leaves the rest of runInner alone.
Retrieving == UNCHANGED <<setup, doc, stores, stage, err>>

\* Then what the other stages have left behind stays.
LEMMA RestLeftAlone ==
  ASSUME StartInv, Retrieving, stage = "packages"
  PROVE  /\ deps' = deps
         /\ \A i : (Verified(i)' <=> Verified(i)) /\ (Troubled(i)' <=> Troubled(i))
         /\ StagesInv' /\ ErrorInv'
<1>1. UNCHANGED <<setup, doc, stores, stage, err>>
  BY DEF Retrieving
<1>2. /\ deps' = deps /\ ConfigError' = ConfigError
      /\ \A i : (Verified(i)' <=> Verified(i)) /\ (Troubled(i)' <=> Troubled(i))
  BY <1>1, DocumentKept
<1>3. StagesInv'
  BY <1>1, <1>2 DEF StartInv, StagesInv, PastPackages, Loading
<1>4. ErrorInv'
  BY <1>1 DEF ErrorInv
<1>. QED BY <1>2, <1>3, <1>4

\* The goroutines at work are finitely many.
LEMMA BusyFinite ==
  ASSUME StartInv
  PROVE  /\ IsFiniteSet(Busy) /\ Cardinality(Busy) \in Nat
         /\ DOMAIN pc = 1..Len(pc) /\ Len(pc) \in Nat
<1>1. pc \in Seq(PkgStep)
  BY DEF StartInv, StartTypes
<1>2. DOMAIN pc = 1..Len(pc) /\ Len(pc) \in Nat
  BY <1>1
<1>3. IsFiniteSet(1..Len(pc))
  BY <1>2, FS_Interval
<1>4. Busy \subseteq 1..Len(pc)
  BY <1>2 DEF Busy
<1>5. IsFiniteSet(Busy)
  BY <1>3, <1>4, FS_Subset
<1>. QED BY <1>2, <1>5, FS_CardinalityType

\* A goroutine at work is one of a document whose packages are not vendored.
LEMMA BusyGoroutine ==
  ASSUME StartInv, NEW i \in Busy
  PROVE  /\ stage = "packages" /\ ~doc.vendored /\ i \in DOMAIN pc /\ i \in DOMAIN deps
         /\ pc[i] \in PkgStep \ {"done", "failed"}
<1>1. stage = "packages" /\ i \in DOMAIN pc
  BY DEF StartInv, GroupInv, Busy
<1>2. pc \in Seq(PkgStep) /\ DOMAIN pc = 1..Len(pc) /\ Len(pc) \in Nat
  BY BusyFinite DEF StartInv, StartTypes
<1>3. pc[i] \in PkgStep \ {"done", "failed"}
  BY <1>1, <1>2 DEF Busy
<1>4. Len(pc) # 0
  BY <1>1, <1>2
<1>5. ~doc.vendored
  <2>1. Len(<<>>) = 0
    OBVIOUS
  <2>. QED BY <1>4, <2>1 DEF StartInv, GroupInv
<1>6. Len(pc) <= Len(deps)
  BY <1>5 DEF StartInv, GroupInv
<1>7. i \in DOMAIN deps
  <2>1. DOMAIN deps = 1..Len(deps) /\ Len(deps) \in Nat
    BY DependencyTypes DEF StartInv
  <2>. QED BY <1>1, <1>2, <1>6, <2>1
<1>. QED BY <1>1, <1>3, <1>5, <1>7

\* A goroutine that goes on stays one of the group, or leaves it.
LEMMA GoroutineSteps ==
  ASSUME StartInv, Retrieving, UNCHANGED next, NEW i \in Busy, NEW step \in PkgStep,
         step \notin {"fetch", "escape"}, pc' = [pc EXCEPT ![i] = step]
  PROVE  /\ pc' \in Seq(PkgStep) /\ DOMAIN pc' = DOMAIN pc
         /\ pc'[i] = step /\ \A j \in DOMAIN pc : j # i => pc'[j] = pc[j]
         /\ GroupInv'
<1>1. /\ stage = "packages" /\ ~doc.vendored /\ i \in DOMAIN pc /\ pc \in Seq(PkgStep)
      /\ UNCHANGED <<setup, doc, stores, stage, next>>
  BY BusyGoroutine DEF StartInv, StartTypes, Retrieving
<1>2. pc' \in Seq(PkgStep) /\ DOMAIN pc' = DOMAIN pc /\ Len(pc') = Len(pc)
  BY <1>1
<1>3. pc'[i] = step /\ \A j \in DOMAIN pc : j # i => pc'[j] = pc[j]
  BY <1>1
<1>4. Busy' \subseteq Busy
  BY <1>2, <1>3 DEF Busy
<1>5. Cardinality(Busy') <= PkgConcurrency
  <2>1. IsFiniteSet(Busy) /\ Cardinality(Busy) \in Nat
    BY BusyFinite
  <2>2. Cardinality(Busy') <= Cardinality(Busy) /\ Cardinality(Busy') \in Nat
    BY <1>4, <2>1, FS_Subset, FS_CardinalityType
  <2>3. Cardinality(Busy) <= PkgConcurrency
    BY DEF StartInv, GroupInv
  <2>. QED BY <2>1, <2>2, <2>3, PackagesAssumption
<1>6. deps' = deps
  BY <1>1, DocumentKept
<1>7. GroupInv'
  <2>1. next' = Len(pc') + 1 /\ Len(pc') <= Len(deps')
    BY <1>1, <1>2, <1>6 DEF StartInv, GroupInv
  <2>2. \A j \in DOMAIN pc' : /\ pc'[j] = "fetch"  => deps'[j].version \in Pending
                              /\ pc'[j] = "escape" => deps'[j].version \in Unescapable
    BY <1>2, <1>3, <1>6 DEF StartInv, GroupInv
  <2>. QED BY <1>1, <1>5, <2>1, <2>2 DEF GroupInv
<1>. QED BY <1>2, <1>3, <1>7

\* A package that was verified gets its two names.
LEMMA NamesAdded ==
  ASSUME StartInv, NEW i \in DOMAIN deps, Verified(i), names' = WithNames(i)
  PROVE  /\ \A n \in DOMAIN names' :
              \/ names'[n] = 0 /\ n = <<"__main__">>
              \/ /\ names'[n] \in DOMAIN deps
                 /\ n \in {deps[names'[n]].url, deps[names'[n]].alias}
                 /\ Verified(names'[n])
         /\ deps[i].url \in DOMAIN names'
         /\ \A n \in DOMAIN names : n \in DOMAIN names'
<1>1. /\ \A n \in DOMAIN names' : \/ names'[n] = i /\ n \in {deps[i].url, deps[i].alias}
                                  \/ n \in DOMAIN names /\ names'[n] = names[n]
      /\ deps[i].url \in DOMAIN names'
      /\ \A n \in DOMAIN names : n \in DOMAIN names'
  BY DEF WithNames
<1>2. \A n \in DOMAIN names : \/ names[n] = 0 /\ n = <<"__main__">>
                              \/ /\ names[n] \in DOMAIN deps
                                 /\ n \in {deps[names[n]].url, deps[names[n]].alias}
                                 /\ Verified(names[n])
  BY DEF StartInv, NamesInv
<1>3. ASSUME NEW n \in DOMAIN names'
      PROVE  \/ names'[n] = 0 /\ n = <<"__main__">>
             \/ /\ names'[n] \in DOMAIN deps
                /\ n \in {deps[names'[n]].url, deps[names'[n]].alias}
                /\ Verified(names'[n])
  <2>1. CASE names'[n] = i /\ n \in {deps[i].url, deps[i].alias}
    BY <2>1
  <2>2. CASE n \in DOMAIN names /\ names'[n] = names[n]
    BY <1>2, <2>2
  <2>. QED BY <1>1, <2>1, <2>2
<1>. QED BY <1>1, <1>3

\* The first failure explains the others.
LEMMA FailsKeeps ==
  ASSUME StartInv, Retrieving, NEW i \in Busy, NEW error \in PkgErrors, Fails(i, error),
         Troubled(i) \/ failure # ""
  PROVE  StartInv'
<1>1. /\ stage = "packages" /\ ~doc.vendored /\ i \in DOMAIN pc /\ i \in DOMAIN deps
  BY BusyGoroutine
<1>2. /\ pc' = [pc EXCEPT ![i] = "failed"] /\ UNCHANGED <<setup, doc, stores, stage, next, names>>
      /\ failure' = IF failure = "" THEN error ELSE failure
  BY DEF Fails, Retrieving
<1>3. /\ pc' \in Seq(PkgStep) /\ DOMAIN pc' = DOMAIN pc /\ pc'[i] = "failed"
      /\ \A j \in DOMAIN pc : j # i => pc'[j] = pc[j]
  BY <1>2, GoroutineSteps DEF PkgStep
<1>4. GroupInv'
  BY <1>2, GoroutineSteps DEF PkgStep
<1>5. /\ deps' = deps /\ \A j : (Verified(j)' <=> Verified(j)) /\ (Troubled(j)' <=> Troubled(j))
      /\ StagesInv' /\ ErrorInv'
  BY <1>1, RestLeftAlone
<1>6. error \notin {"", "path"} /\ failure' \in Failures /\ failure' # ""
  BY <1>2 DEF PkgErrors, Failures, StartInv, StartTypes
<1>7. StartTypes'
  BY <1>2, <1>3, <1>6 DEF StartInv, StartTypes
<1>8. NamesInv'
  <2>1. \A j \in DOMAIN pc' : pc'[j] = "done" => pc[j] = "done"
    BY <1>3
  <2>. QED BY <1>1, <1>2, <1>3, <1>5, <2>1 DEF StartInv, NamesInv
<1>9. FailureInv'
  <2>1. CASE failure = ""
    BY <1>1, <1>2, <1>5, <1>6, <2>1 DEF FailureInv
  <2>2. CASE failure # ""
    BY <1>2, <1>5, <2>2 DEF StartInv, FailureInv
  <2>. QED BY <2>1, <2>2
<1>. QED BY <1>4, <1>5, <1>7, <1>8, <1>9 DEF StartInv

LEMMA GoesKeeps ==
  ASSUME StartInv, Retrieving, NEW i \in Busy, NEW step \in {"checkout", "verify"}, Goes(i, step)
  PROVE  StartInv'
<1>1. /\ stage = "packages" /\ ~doc.vendored /\ i \in DOMAIN pc
  BY BusyGoroutine
<1>2. /\ pc' = [pc EXCEPT ![i] = step] /\ UNCHANGED <<setup, doc, stores, stage, next, names, failure>>
  BY DEF Goes, Retrieving
<1>3. step \in PkgStep /\ step \notin {"fetch", "escape", "done", "failed"}
  BY DEF PkgStep
<1>4. /\ pc' \in Seq(PkgStep) /\ DOMAIN pc' = DOMAIN pc /\ pc'[i] = step
      /\ \A j \in DOMAIN pc : j # i => pc'[j] = pc[j]
  BY <1>2, <1>3, GoroutineSteps
<1>5. GroupInv'
  BY <1>2, <1>3, GoroutineSteps
<1>6. /\ deps' = deps /\ \A j : (Verified(j)' <=> Verified(j)) /\ (Troubled(j)' <=> Troubled(j))
      /\ StagesInv' /\ ErrorInv'
  BY <1>1, RestLeftAlone
<1>7. StartTypes'
  BY <1>2, <1>4 DEF StartInv, StartTypes
<1>8. \A j \in DOMAIN pc' : pc'[j] \in {"done", "failed"} => pc'[j] = pc[j]
  BY <1>3, <1>4
<1>9. NamesInv'
  BY <1>1, <1>2, <1>4, <1>6, <1>8 DEF StartInv, NamesInv
<1>10. FailureInv'
  BY <1>2, <1>4, <1>6, <1>8 DEF StartInv, FailureInv
<1>. QED BY <1>5, <1>6, <1>7, <1>9, <1>10 DEF StartInv

\* A goroutine is over with a package that was verified.
LEMMA DoneKeeps ==
  ASSUME StartInv, Retrieving, NEW i \in Busy, Verified(i), pc' = [pc EXCEPT ![i] = "done"],
         names' = WithNames(i), UNCHANGED <<next, failure>>
  PROVE  StartInv'
<1>1. /\ stage = "packages" /\ ~doc.vendored /\ i \in DOMAIN pc /\ i \in DOMAIN deps
      /\ UNCHANGED <<setup, doc, stores, stage>>
  BY BusyGoroutine DEF Retrieving
<1>2. /\ pc' \in Seq(PkgStep) /\ DOMAIN pc' = DOMAIN pc /\ pc'[i] = "done"
      /\ \A j \in DOMAIN pc : j # i => pc'[j] = pc[j]
  BY GoroutineSteps DEF PkgStep
<1>3. GroupInv'
  BY GoroutineSteps DEF PkgStep
<1>4. /\ deps' = deps /\ \A j : (Verified(j)' <=> Verified(j)) /\ (Troubled(j)' <=> Troubled(j))
      /\ StagesInv' /\ ErrorInv'
  BY <1>1, RestLeftAlone
<1>5. StartTypes'
  BY <1>1, <1>2 DEF StartInv, StartTypes
<1>6. NamesInv'
  <2>1. /\ \A n \in DOMAIN names' :
             \/ names'[n] = 0 /\ n = <<"__main__">>
             \/ /\ names'[n] \in DOMAIN deps
                /\ n \in {deps[names'[n]].url, deps[names'[n]].alias}
                /\ Verified(names'[n])
        /\ deps[i].url \in DOMAIN names'
        /\ \A n \in DOMAIN names : n \in DOMAIN names'
    BY <1>1, NamesAdded
  <2>2. ASSUME NEW j \in DOMAIN deps, j \in DOMAIN pc', pc'[j] = "done" PROVE deps[j].url \in DOMAIN names'
    BY <1>1, <1>2, <2>1, <2>2 DEF StartInv, NamesInv
  <2>. QED BY <1>1, <1>4, <2>1, <2>2 DEF NamesInv
<1>7. FailureInv'
  BY <1>1, <1>2, <1>4 DEF StartInv, FailureInv
<1>. QED BY <1>3, <1>4, <1>5, <1>6, <1>7 DEF StartInv

LEMMA RetrieveKeeps ==
  ASSUME StartInv, NEW i \in DOMAIN pc, Retrieve(i), UNCHANGED <<setup, err>>
  PROVE  StartInv'
<1>1. i \in Busy
  BY DEF Retrieve, Fetch, Escape, Clone, GitCheckout, Verify, Busy
<1>2. /\ stage = "packages" /\ ~doc.vendored /\ i \in DOMAIN deps
      /\ deps[i].version \in Version
  BY <1>1, BusyGoroutine, DependencyTypes DEF StartInv
<1>3. Retrieving
  BY DEF Retrieve, Fetch, Escape, Clone, GitCheckout, Verify, CommandFails, Fails, Goes, Retrieving
<1>4. CASE Fetch(i)
  <2>1. deps[i].version \in Pending
    BY <1>4 DEF Fetch, StartInv, GroupInv
  <2>2. Troubled(i)
    BY <1>2, <2>1 DEF Troubled
  <2>. QED BY <1>1, <1>3, <1>4, <2>2, FailsKeeps DEF Fetch, PkgErrors
<1>5. CASE Escape(i)
  <2>1. deps[i].version \in Unescapable
    BY <1>5 DEF Escape, StartInv, GroupInv
  <2>2. Troubled(i)
    BY <1>2, <2>1 DEF Troubled
  <2>. QED BY <1>1, <1>3, <1>5, <2>2, FailsKeeps DEF Escape, PkgErrors
<1>6. ASSUME CommandFails(i) PROVE StartInv'
  <2>1. Troubled(i) \/ failure # ""
    BY <1>2, <1>6 DEF CommandFails, Cancelled, Troubled
  <2>. QED BY <1>1, <1>3, <1>6, <2>1, FailsKeeps DEF CommandFails, PkgErrors
<1>7. CASE Clone(i)
  <2>1. CASE Fails(i, "git") /\ ~(\E v \in Version : stores.remote[<<deps[i].url, v>>] # Absent)
    <3>1. Troubled(i)
      BY <1>2, <2>1 DEF Troubled
    <3>. QED BY <1>1, <1>3, <2>1, <3>1, FailsKeeps DEF PkgErrors
  <2>2. CASE Goes(i, "checkout")
    BY <1>1, <1>3, <2>2, GoesKeeps
  <2>. QED BY <1>6, <1>7, <2>1, <2>2 DEF Clone
<1>8. CASE GitCheckout(i)
  <2>1. CASE Fails(i, "git") /\ stores.remote[<<deps[i].url, deps[i].version>>] = Absent
    <3>1. Troubled(i)
      BY <1>2, <2>1 DEF Troubled
    <3>. QED BY <1>1, <1>3, <2>1, <3>1, FailsKeeps DEF PkgErrors
  <2>2. CASE Goes(i, "verify")
    BY <1>1, <1>3, <2>2, GoesKeeps
  <2>. QED BY <1>6, <1>8, <2>1, <2>2 DEF GitCheckout
<1>9. CASE Verify(i)
  <2>1. CASE Verified(i)
    <3>1. pc' = [pc EXCEPT ![i] = "done"] /\ names' = WithNames(i) /\ UNCHANGED <<next, failure>>
      BY <1>9, <2>1 DEF Verify
    <3>. QED BY <1>1, <1>3, <2>1, <3>1, DoneKeeps
  <2>2. CASE ~Verified(i)
    <3>1. Fails(i, "digest") /\ Troubled(i)
      BY <1>9, <2>2 DEF Verify, Troubled
    <3>. QED BY <1>1, <1>3, <3>1, FailsKeeps DEF PkgErrors
  <2>. QED BY <2>1, <2>2
<1>. QED BY <1>4, <1>5, <1>7, <1>8, <1>9 DEF Retrieve

LEMMA LaunchKeeps ==
  ASSUME StartInv, Launch, UNCHANGED <<setup, err>>
  PROVE  StartInv'
<1>. DEFINE first == CASE deps[next].version \in Pending     -> "fetch"
                       [] deps[next].version \in Unescapable -> "escape"
                       [] OTHER                              -> "clone"
            k == Len(pc) + 1
<1>1. /\ stage = "packages" /\ ~doc.vendored /\ next \in DOMAIN deps /\ Retrieving
      /\ Cardinality(Busy) < PkgConcurrency
      /\ pc' = Append(pc, first) /\ next' = next + 1
      /\ UNCHANGED <<setup, doc, stores, stage, names, failure>>
  BY DEF Launch, Retrieving
<1>2. /\ first \in {"fetch", "escape", "clone"} /\ first \in PkgStep
      /\ first = "fetch" => deps[next].version \in Pending
      /\ first = "escape" => deps[next].version \in Unescapable
  BY DEF PkgStep
<1>. HIDE DEF first
<1>3. pc \in Seq(PkgStep) /\ next = k /\ Len(pc) \in Nat /\ DOMAIN pc = 1..Len(pc)
  BY <1>1, BusyFinite DEF StartInv, StartTypes, GroupInv
<1>4. pc' \in Seq(PkgStep) /\ Len(pc') = k /\ DOMAIN pc' = 1..k
  BY <1>1, <1>2, <1>3
<1>5. pc'[k] = first /\ \A j \in DOMAIN pc : pc'[j] = pc[j]
  BY <1>1, <1>2, <1>3
<1>6. \A j \in DOMAIN pc' : j = k \/ j \in DOMAIN pc
  BY <1>3, <1>4
<1>7. k \in DOMAIN deps /\ k \in DOMAIN pc'
  BY <1>1, <1>3, <1>4
<1>8. /\ deps' = deps /\ \A j : (Verified(j)' <=> Verified(j)) /\ (Troubled(j)' <=> Troubled(j))
      /\ StagesInv' /\ ErrorInv'
  BY <1>1, RestLeftAlone
<1>9. next' \in Nat \ {0} /\ next' = Len(pc') + 1
  BY <1>1, <1>3, <1>4
<1>10. StartTypes'
  BY <1>1, <1>4, <1>9 DEF StartInv, StartTypes
<1>11. Cardinality(Busy') <= PkgConcurrency
  <2>1. IsFiniteSet(Busy) /\ Cardinality(Busy) \in Nat
    BY BusyFinite
  <2>2. Busy' \subseteq Busy \cup {k}
    BY <1>5, <1>6 DEF Busy
  <2>3. IsFiniteSet(Busy \cup {k}) /\ Cardinality(Busy \cup {k}) <= Cardinality(Busy) + 1
    <3>. HIDE DEF k
    <3>1. /\ IsFiniteSet(Busy \cup {k})
          /\ Cardinality(Busy \cup {k}) = IF k \in Busy THEN Cardinality(Busy) ELSE Cardinality(Busy) + 1
      BY <2>1, FS_AddElement
    <3>. QED BY <2>1, <3>1
  <2>4. Cardinality(Busy') <= Cardinality(Busy \cup {k}) /\ Cardinality(Busy') \in Nat
        /\ Cardinality(Busy \cup {k}) \in Nat
    BY <2>2, <2>3, FS_Subset, FS_CardinalityType
  <2>. QED BY <1>1, <2>1, <2>3, <2>4, PackagesAssumption
<1>12. GroupInv'
  <2>1. Len(pc') <= Len(deps')
    <3>1. DOMAIN deps = 1..Len(deps) /\ Len(deps) \in Nat
      BY DependencyTypes DEF StartInv
    <3>. QED BY <1>4, <1>7, <1>8, <3>1
  <2>2. ASSUME NEW j \in DOMAIN pc'
        PROVE  /\ pc'[j] = "fetch"  => deps[j].version \in Pending
               /\ pc'[j] = "escape" => deps[j].version \in Unescapable
    <3>1. CASE j = k
      BY <1>2, <1>3, <1>5, <3>1
    <3>2. CASE j \in DOMAIN pc
      BY <1>5, <3>2 DEF StartInv, GroupInv
    <3>. QED BY <1>6, <2>2, <3>1, <3>2
  <2>. QED BY <1>1, <1>8, <1>9, <1>11, <2>1, <2>2 DEF GroupInv
<1>13. \A j \in DOMAIN pc' : pc'[j] \in {"done", "failed"} => j \in DOMAIN pc /\ pc'[j] = pc[j]
  BY <1>2, <1>5, <1>6
<1>14. NamesInv'
  BY <1>1, <1>8, <1>13 DEF StartInv, NamesInv
<1>15. FailureInv'
  BY <1>1, <1>8, <1>13 DEF StartInv, FailureInv
<1>. QED BY <1>8, <1>10, <1>12, <1>14, <1>15 DEF StartInv

LEMMA VendorKeeps ==
  ASSUME StartInv, Vendor, UNCHANGED <<setup, err>>
  PROVE  StartInv'
<1>1. /\ stage = "packages" /\ doc.vendored /\ next \in DOMAIN deps /\ Retrieving
      /\ UNCHANGED <<setup, doc, stores, stage, pc>>
  BY DEF Vendor, Retrieving
<1>2. /\ DOMAIN deps = 1..Len(deps) /\ Len(deps) \in Nat /\ next \in Nat \ {0}
  BY DependencyTypes DEF StartInv, StartTypes
<1>3. /\ deps' = deps /\ \A j : (Verified(j)' <=> Verified(j)) /\ (Troubled(j)' <=> Troubled(j))
      /\ StagesInv' /\ ErrorInv'
  BY <1>1, RestLeftAlone
<1>4. Busy' = Busy
  BY <1>1 DEF Busy
<1>5. CASE stores.vendor[deps[next].url] # Absent /\ Verified(next)
  <2>1. names' = WithNames(next) /\ next' = next + 1 /\ UNCHANGED failure
    BY <1>5 DEF Vendor
  <2>2. next' \in Nat \ {0} /\ next' <= Len(deps) + 1
    BY <1>1, <1>2, <2>1
  <2>3. StartTypes'
    BY <1>1, <2>1, <2>2 DEF StartInv, StartTypes
  <2>4. GroupInv'
    BY <1>1, <1>3, <1>4, <2>2 DEF StartInv, GroupInv
  <2>5. NamesInv'
    <3>1. /\ \A n \in DOMAIN names' :
               \/ names'[n] = 0 /\ n = <<"__main__">>
               \/ /\ names'[n] \in DOMAIN deps
                  /\ n \in {deps[names'[n]].url, deps[names'[n]].alias}
                  /\ Verified(names'[n])
          /\ deps[next].url \in DOMAIN names'
          /\ \A n \in DOMAIN names : n \in DOMAIN names'
      BY <1>1, <1>5, <2>1, NamesAdded
    <3>2. ASSUME NEW j \in DOMAIN deps, j < next' PROVE deps[j].url \in DOMAIN names'
      <4>1. j = next \/ j < next
        BY <1>2, <2>1, <3>2
      <4>. QED BY <1>1, <3>1, <3>2, <4>1 DEF StartInv, NamesInv
    <3>. QED BY <1>1, <1>3, <3>1, <3>2 DEF NamesInv
  <2>6. FailureInv'
    BY <1>1, <1>3, <2>1 DEF StartInv, FailureInv
  <2>. QED BY <1>3, <2>3, <2>4, <2>5, <2>6 DEF StartInv
<1>6. CASE ~(stores.vendor[deps[next].url] # Absent /\ Verified(next))
  <2>1. UNCHANGED <<names, next>> /\ failure' \in Failures /\ failure' \notin {"", "path"}
    BY <1>6 DEF Vendor, PkgErrors, Failures
  <2>2. Troubled(next)
    BY <1>1, <1>6 DEF Troubled
  <2>3. StartTypes'
    BY <1>1, <2>1 DEF StartInv, StartTypes
  <2>4. GroupInv'
    BY <1>1, <1>3, <1>4, <2>1 DEF StartInv, GroupInv
  <2>5. NamesInv'
    BY <1>1, <1>3, <2>1 DEF StartInv, NamesInv
  <2>6. FailureInv'
    BY <1>1, <1>3, <2>1, <2>2 DEF StartInv, FailureInv
  <2>. QED BY <1>3, <2>3, <2>4, <2>5, <2>6 DEF StartInv
<1>. QED BY <1>5, <1>6

\* Directories are refused before anything is retrieved.
LEMMA CheckPathsKeeps ==
  ASSUME StartInv, CheckPaths, UNCHANGED <<setup, err>>
  PROVE  StartInv'
<1>1. /\ stage = "packages" /\ ~stores.absolute /\ failure' = "path" /\ Retrieving
      /\ UNCHANGED <<setup, doc, stores, stage, next, pc, names>>
  BY DEF CheckPaths, Retrieving
<1>2. /\ deps' = deps /\ \A j : (Verified(j)' <=> Verified(j)) /\ (Troubled(j)' <=> Troubled(j))
      /\ StagesInv' /\ ErrorInv'
  BY <1>1, RestLeftAlone
<1>3. Busy' = Busy
  BY <1>1 DEF Busy
<1>4. StartTypes'
  BY <1>1 DEF StartInv, StartTypes, Failures
<1>5. GroupInv'
  BY <1>1, <1>2, <1>3 DEF StartInv, GroupInv
<1>6. NamesInv'
  BY <1>1, <1>2 DEF StartInv, NamesInv
<1>7. FailureInv'
  BY <1>1 DEF FailureInv
<1>. QED BY <1>2, <1>4, <1>5, <1>6, <1>7 DEF StartInv

-----------------------------------------------------------------------------
(* The theorems                                                            *)

\* StartInv is an inductive invariant of runInner.
THEOREM StartupInvariance == Spec => []StartInv
<1>1. Init => StartInv
  BY StartupStarts
<1>2. StartInv /\ [Next]_vars => StartInv'
  <2>. SUFFICES ASSUME StartInv, [Next]_vars PROVE StartInv'
    OBVIOUS
  <2>1. ASSUME PackageStep PROVE StartInv'
    <3>1. UNCHANGED <<setup, err>>
      BY <2>1 DEF PackageStep
    <3>2. CASE Launch
      BY <3>1, <3>2, LaunchKeeps
    <3>3. CASE Vendor
      BY <3>1, <3>3, VendorKeeps
    <3>4. ASSUME NEW i \in DOMAIN pc, Retrieve(i) PROVE StartInv'
      BY <3>1, <3>4, RetrieveKeeps
    <3>5. CASE CheckPaths
      BY <3>1, <3>5, CheckPathsKeeps
    <3>. QED BY <2>1, <3>2, <3>3, <3>4, <3>5 DEF PackageStep
  <2>2. ASSUME NEW i \in DOMAIN roots, NEW q \in setup.queries, List(i, q) PROVE StartInv'
    <3>1. UNCHANGED <<setup, doc, stores, stage, next, pc, names, failure, err, roots>>
      BY <2>2 DEF List, pkgVars
    <3>. QED BY <3>1, StartStutters
  <2>3. CASE UNCHANGED vars
    <3>1. UNCHANGED <<setup, doc, stores, stage, next, pc, names, failure, err, roots>>
      BY <2>3 DEF vars, pkgVars
    <3>. QED BY <3>1, StartStutters
  <2>4. CASE Stage
    BY <2>1, <2>4, RootKeeps, ConfigKeeps, ScmKeeps, RetrievedKeeps, DiscoverKeeps, ParseKeeps,
       FilterKeeps DEF Stage
  <2>5. CASE Run
    BY <2>2, <2>5, FinishKeeps DEF Run
  <2>. QED BY <2>3, <2>4, <2>5 DEF Next, Over
<1>. QED BY <1>1, <1>2, PTL DEF Spec

\* A digest that is known is one of those that the document gives.
LEMMA KnownIsGiven ==
  ASSUME NEW d, NEW url, NEW version, KnownDigest(d, url, version) # NoDigest
  PROVE  KnownDigest(d, url, version) \in UNION {{s.digest : s \in ToSet(k.seen)} : k \in ToSet(d.known)}
<1>. DEFINE found == {s \in UNION {ToSet(k.seen) : k \in {k \in ToSet(d.known) : k.url = url}} :
                        s.version = version}
<1>1. found # {} /\ KnownDigest(d, url, version) = (CHOOSE s \in found : TRUE).digest
  BY DEF KnownDigest
<1>2. PICK s \in found : KnownDigest(d, url, version) = s.digest
  BY <1>1
<1>3. PICK k \in ToSet(d.known) : s \in ToSet(k.seen)
  OBVIOUS
<1>. QED BY <1>2, <1>3

\* Once RetrievePackages has returned without an error (pkg.go:146), every
\* dependency of the document is there under its url, and whatever stands under
\* a name was hashed and has a digest that the document gives (verifyDir,
\* config.go): for any documents, stores, limit of goroutines and failures.
\* And outside RetrievePackages no goroutine is at work on a package.
THEOREM PackagesAreVerified == Spec => []PackagesVerified
<1>1. StartInv => PackagesVerified
  <2>. SUFFICES ASSUME StartInv PROVE PackagesVerified
    OBVIOUS
  <2>1. stage # "packages" => Busy = {}
    BY DEF StartInv, GroupInv
  <2>2. ASSUME PastPackages
        PROVE  /\ \A i \in DOMAIN deps : deps[i].url \in DOMAIN names
               /\ AllKnown(doc)
    BY <2>2, ConfigErrors DEF StartInv, StagesInv
  <2>3. DOMAIN deps = 1..Len(deps) /\ Len(deps) \in Nat /\ deps \in Seq(Dependency)
    BY DependencyTypes DEF StartInv
  <2>4. \A i \in DOMAIN deps : deps[i] \in ToSet(deps) /\ i # 0
    BY <2>3 DEF ToSet
  <2>5. ASSUME PastPackages, NEW i \in DOMAIN deps, Verified(i) PROVE IsGenuine(i)
    <3>1. KnownDigest(doc, deps[i].url, deps[i].version) # NoDigest
      BY <2>2, <2>4, <2>5 DEF AllKnown, deps
    <3>2. Hash(deps[i].url, deps[i].version, TreeOf(i)) = KnownDigest(doc, deps[i].url, deps[i].version)
      BY <2>5, <3>1 DEF Verified
    <3>. QED BY <3>1, <3>2, KnownIsGiven DEF IsGenuine
  <2>6. ASSUME PastPackages, NEW n \in DOMAIN names
        PROVE  \/ names[n] = 0 /\ n = <<"__main__">>
               \/ names[n] # 0 /\ n \in {deps[names[n]].url, deps[names[n]].alias} /\ IsGenuine(names[n])
    BY <2>4, <2>5, <2>6 DEF StartInv, NamesInv
  <2>7. ASSUME NEW n \in DOMAIN names, \A d \in ToSet(deps) : d.alias # n
        PROVE  names[n] = 0 \/ deps[names[n]].url = n
    BY <2>4, <2>7 DEF StartInv, NamesInv
  <2>. QED BY <2>1, <2>2, <2>6, <2>7 DEF PackagesVerified
<1>. QED BY <1>1, StartupInvariance, PTL

\* The error that runInner returns helps: a document that needs a newer shac
\* says so although this shac does not know its fields (run.go:348), a missing
\* shac.star comes before undeclared variables (run.go:438), and the error of
\* RetrievePackages is that of a directory that it refused (pkg.go:96), or of a
\* dependency that cannot be retrieved or verified, not that of a goroutine that
\* was cancelled (pkg.go:146).
THEOREM ErrorsAreExplained == Spec => []ErrorsExplained
<1>1. StartInv => ErrorsExplained
  BY DEF StartInv, ErrorInv, FailureInv, ErrorsExplained
<1>. QED BY <1>1, StartupInvariance, PTL

\* No more goroutines than pkgConcurrency are at work on packages at a time
\* (errgroup's SetLimit, pkg.go).
THEOREM RetrievalIsLimited == Spec => [](Cardinality(Busy) <= PkgConcurrency)
<1>1. StartInv => Cardinality(Busy) <= PkgConcurrency
  BY DEF StartInv, GroupInv
<1>. QED BY <1>1, StartupInvariance, PTL

-----------------------------------------------------------------------------
(* Induction, stated with sets instead of predicates                       *)

\* A set of numbers that has 0 and with n also n + 1 has all of them.
LEMMA NumberInduction ==
  ASSUME NEW S, 0 \in S, \A n \in Nat : n \in S => n + 1 \in S
  PROVE  Nat \subseteq S
<1>. DEFINE T == Nat \ S
            R == OpToRel(<, Nat)
<1>. SUFFICES ASSUME T # {} PROVE FALSE
  OBVIOUS
<1>1. IsWellFoundedOn(R, Nat) /\ T \subseteq Nat
  BY NatLessThanWellFounded
<1>. HIDE DEF R
<1>2. PICK n \in T : \A m \in T : ~(<<m, n>> \in R)
  <2>. HIDE DEF T
  <2>. QED BY <1>1, WFMin
<1>3. n - 1 \in T
  <2>1. n \in Nat /\ n \notin S /\ n # 0
    OBVIOUS
  <2>2. n - 1 \in Nat /\ (n - 1) + 1 = n
    BY <2>1
  <2>. QED BY <2>1, <2>2
<1>4. <<n - 1, n>> \in R
  BY <1>3 DEF R, OpToRel
<1>. QED BY <1>2, <1>3, <1>4

\* What a sequence is without its last element.
LEMMA FrontAndLast ==
  ASSUME NEW T, NEW s \in Seq(T), s # <<>>
  PROVE  \E t \in Seq(T), x \in T : s = Append(t, x) /\ Len(t) = Len(s) - 1
<1>. DEFINE n == Len(s)
            t == SubSeq(s, 1, n - 1)
<1>1. n \in Nat \ {0} /\ \A i \in 1..n : s[i] \in T
  BY EmptySeq, ElementOfSeq
<1>2. t \in Seq(T) /\ Len(t) = n - 1 /\ \A i \in 1..(n - 1) : t[i] = s[i]
  <2>. HIDE DEF n
  <2>1. n - 1 \in Int /\ 1 \in Int /\ \A i \in 1..(n - 1) : s[i] \in T
    BY <1>1
  <2>2. /\ t \in Seq(T) /\ Len(t) = IF 1 <= n - 1 THEN (n - 1) - 1 + 1 ELSE 0
        /\ \A i \in 1..((n - 1) - 1 + 1) : t[i] = s[1 + i - 1]
    BY <2>1, SubSeqProperties
  <2>. QED BY <1>1, <2>2
<1>. HIDE DEF t
<1>3. s[n] \in T
  BY <1>1
<1>4. /\ Append(t, s[n]) \in Seq(T) /\ Len(Append(t, s[n])) = n
      /\ \A i \in 1..n : Append(t, s[n])[i] = s[i]
  <2>1. /\ Append(t, s[n]) \in Seq(T) /\ Len(Append(t, s[n])) = Len(t) + 1
        /\ \A i \in 1..Len(t) : Append(t, s[n])[i] = t[i]
        /\ Append(t, s[n])[Len(t) + 1] = s[n]
    BY <1>2, <1>3, AppendProperties
  <2>. HIDE DEF n
  <2>. QED BY <1>1, <1>2, <2>1
<1>5. s = Append(t, s[n])
  BY <1>4, SeqEqual
<1>. QED BY <1>2, <1>3, <1>5

\* A set that has the empty sequence and, with s, s and one more has all.
LEMMA SequenceInduction ==
  ASSUME NEW T, NEW P, <<>> \in P, \A s \in Seq(T), x \in T : s \in P => Append(s, x) \in P
  PROVE  Seq(T) \subseteq P
<1>. DEFINE S == {n \in Nat : \A s \in Seq(T) : Len(s) = n => s \in P}
<1>1. 0 \in S
  BY EmptySeq
<1>2. ASSUME NEW n \in Nat, n \in S PROVE n + 1 \in S
  <2>. SUFFICES ASSUME NEW s \in Seq(T), Len(s) = n + 1 PROVE s \in P
    OBVIOUS
  <2>1. s # <<>>
    BY <1>2, EmptySeq
  <2>2. PICK t \in Seq(T), x \in T : s = Append(t, x) /\ Len(t) = Len(s) - 1
    BY <2>1, FrontAndLast
  <2>. QED BY <1>2, <2>2
<1>. HIDE DEF S
<1>3. Nat \subseteq S
  BY <1>1, <1>2, NumberInduction
<1>. QED BY <1>3, LenProperties DEF S

-----------------------------------------------------------------------------
(* Repeating elements                                                      *)

\* t and then n times x.
Adds(t, x, n) == t \o [k \in 1..n |-> x]

IsAdds(a, t, x, n, T) ==
  /\ a \in Seq(T)
  /\ Len(a) = Len(t) + n
  /\ \A i \in 1..Len(t) + n : a[i] = IF i <= Len(t) THEN t[i] ELSE x

LEMMA AddsIs ==
  ASSUME NEW T, NEW t \in Seq(T), NEW x \in T, NEW n \in Nat
  PROVE  IsAdds(Adds(t, x, n), t, x, n, T)
<1>. DEFINE u == [k \in 1..n |-> x]
<1>1. u \in Seq(T) /\ Len(u) = n /\ \A i \in 1..n : u[i] = x
  OBVIOUS
<1>2. Len(t) \in Nat
  BY LenProperties
<1>. HIDE DEF u
<1>3. /\ t \o u \in Seq(T) /\ Len(t \o u) = Len(t) + Len(u)
      /\ \A i \in 1..Len(t) + Len(u) : (t \o u)[i] = IF i <= Len(t) THEN t[i] ELSE u[i - Len(t)]
  BY <1>1, ConcatProperties
<1>4. \A i \in 1..Len(t) + n : i <= Len(t) \/ i - Len(t) \in 1..n
  BY <1>2
<1>5. Adds(t, x, n) = t \o u
  BY DEF Adds, u
<1>. QED BY <1>1, <1>3, <1>4, <1>5 DEF IsAdds

\* Adding an element not at all, once more, and once.
LEMMA AddsNone ==
  ASSUME NEW T, NEW t \in Seq(T), NEW x \in T
  PROVE  Adds(t, x, 0) = t
<1>. DEFINE a == Adds(t, x, 0)
<1>1. Len(t) \in Nat
  BY LenProperties
<1>2. /\ a \in Seq(T) /\ Len(a) = Len(t) + 0
      /\ \A i \in 1..Len(t) + 0 : a[i] = IF i <= Len(t) THEN t[i] ELSE x
  <2>1. 0 \in Nat
    OBVIOUS
  <2>2. IsAdds(a, t, x, 0, T)
    BY <2>1, AddsIs
  <2>. HIDE DEF a
  <2>. QED BY <2>2 DEF IsAdds
<1>. HIDE DEF a
<1>3. a \in Seq(T) /\ Len(a) = Len(t) /\ \A i \in 1..Len(a) : a[i] = t[i]
  BY <1>1, <1>2
<1>4. a = t
  BY <1>3, SeqEqual
<1>. QED BY <1>4 DEF a

LEMMA AddsNext ==
  ASSUME NEW T, NEW t \in Seq(T), NEW x \in T, NEW n \in Nat
  PROVE  Adds(t, x, n + 1) = Append(Adds(t, x, n), x)
<1>. DEFINE a == Adds(t, x, n)
            b == Adds(t, x, n + 1)
<1>1. Len(t) \in Nat /\ n + 1 \in Nat
  BY LenProperties
<1>2. a \in Seq(T) /\ Len(a) = Len(t) + n /\ \A i \in 1..Len(t) + n : a[i] = IF i <= Len(t) THEN t[i] ELSE x
  <2>1. IsAdds(a, t, x, n, T)
    BY AddsIs
  <2>. HIDE DEF a
  <2>. QED BY <2>1 DEF IsAdds
<1>3. /\ b \in Seq(T) /\ Len(b) = Len(t) + (n + 1)
      /\ \A i \in 1..Len(t) + (n + 1) : b[i] = IF i <= Len(t) THEN t[i] ELSE x
  <2>1. IsAdds(b, t, x, n + 1, T)
    BY <1>1, AddsIs
  <2>. HIDE DEF b
  <2>. QED BY <2>1 DEF IsAdds
<1>. HIDE DEF a, b
<1>4. /\ Append(a, x) \in Seq(T) /\ Len(Append(a, x)) = Len(a) + 1
      /\ \A i \in 1..Len(a) : Append(a, x)[i] = a[i]
      /\ Append(a, x)[Len(a) + 1] = x
  BY <1>2, AppendProperties
<1>5. Len(b) = Len(Append(a, x)) /\ \A i \in 1..Len(b) : b[i] = Append(a, x)[i]
  BY <1>1, <1>2, <1>3, <1>4
<1>6. b = Append(a, x)
  BY <1>3, <1>4, <1>5, SeqEqual
<1>. QED BY <1>6 DEF a, b

LEMMA AddsOne ==
  ASSUME NEW T, NEW t \in Seq(T), NEW x \in T
  PROVE  Adds(t, x, 1) = Append(t, x)
<1>1. 0 \in Nat /\ 0 + 1 = 1
  OBVIOUS
<1>2. Adds(t, x, 0 + 1) = Append(Adds(t, x, 0), x)
  BY <1>1, AddsNext
<1>. QED BY <1>1, <1>2, AddsNone

\* g holds what the first elements are repeated to.
Steps(g, s, times, T) ==
  /\ g \in [0..Len(s) -> Seq(T)]
  /\ g[0] = <<>>
  /\ \A i \in 1..Len(s) : g[i] = Adds(g[i - 1], s[i], times[i])

StepTo(f, s, times, i) == IF i = 0 THEN <<>> ELSE Adds(f[i - 1], s[i], times[i])

Solves(f, s, times, n) == f = [i \in 0..n |-> StepTo(f, s, times, i)]

\* The recursion of Repeated has a solution.
LEMMA RepeatedExists ==
  ASSUME NEW s, NEW times, NEW n \in Nat
  PROVE  \E f : Solves(f, s, times, n)
<1>. DEFINE S == {m \in Nat : \E f : Solves(f, s, times, m)}
<1>1. 0 \in S
  <2>. DEFINE f == [i \in 0..0 |-> <<>>]
  <2>1. f = [i \in 0..0 |-> StepTo(f, s, times, i)]
    BY DEF StepTo
  <2>. QED BY <2>1 DEF Solves
<1>2. ASSUME NEW m \in Nat, m \in S PROVE m + 1 \in S
  <2>1. PICK f : Solves(f, s, times, m)
    BY <1>2
  <2>. DEFINE g == [i \in 0..m + 1 |-> IF i = m + 1 THEN StepTo(f, s, times, i) ELSE f[i]]
  <2>2. ASSUME NEW i \in 0..m + 1 PROVE g[i] = StepTo(f, s, times, i)
    <3>1. CASE i = m + 1
      BY <3>1
    <3>2. CASE i # m + 1
      <4>1. i \in 0..m
        BY <3>2
      <4>2. f[i] = StepTo(f, s, times, i)
        BY <2>1, <4>1 DEF Solves
      <4>. QED BY <3>2, <4>2
    <3>. QED BY <3>1, <3>2
  <2>3. ASSUME NEW i \in 0..m + 1 PROVE StepTo(f, s, times, i) = StepTo(g, s, times, i)
    <3>1. CASE i = 0
      BY <3>1 DEF StepTo
    <3>2. CASE i # 0
      <4>1. i - 1 \in 0..m /\ g[i - 1] = f[i - 1]
        BY <3>2
      <4>. QED BY <3>2, <4>1 DEF StepTo
    <3>. QED BY <3>1, <3>2
  <2>4. g = [i \in 0..m + 1 |-> g[i]]
    OBVIOUS
  <2>. HIDE DEF g
  <2>5. \A i \in 0..m + 1 : g[i] = StepTo(g, s, times, i)
    BY <2>2, <2>3
  <2>6. g = [i \in 0..m + 1 |-> StepTo(g, s, times, i)]
    BY <2>4, <2>5
  <2>. QED BY <2>6 DEF Solves
<1>. HIDE DEF S
<1>3. Nat \subseteq S
  BY <1>1, <1>2, NumberInduction
<1>. QED BY <1>3 DEF S

\* There are such steps, and they end with what Repeated gives.
LEMMA RepeatedSteps ==
  ASSUME NEW T, NEW s \in Seq(T), NEW times \in [1..Len(s) -> Nat]
  PROVE  \E g : Steps(g, s, times, T) /\ Repeated(s, times) = g[Len(s)]
<1>. DEFINE n == Len(s)
            f == CHOOSE h : Solves(h, s, times, n)
<1>1. n \in Nat /\ \A i \in 1..n : s[i] \in T
  BY LenProperties, ElementOfSeq
<1>2. f = [i \in 0..n |-> StepTo(f, s, times, i)]
  <2>1. Solves(f, s, times, n)
    <3>. HIDE DEF n
    <3>. QED BY <1>1, RepeatedExists
  <2>. QED BY <2>1 DEF Solves
<1>3. Repeated(s, times) = f[n]
  BY DEF Repeated, Solves, StepTo, Adds
<1>. HIDE DEF f, n
<1>4. f[0] = <<>> /\ \A i \in 1..n : f[i] = Adds(f[i - 1], s[i], times[i])
  BY <1>1, <1>2 DEF StepTo
<1>. DEFINE S == {m \in Nat : m <= n => f[m] \in Seq(T)}
<1>5. 0 \in S
  BY <1>4, EmptySeq
<1>6. ASSUME NEW m \in Nat, m \in S PROVE m + 1 \in S
  <2>. SUFFICES ASSUME m + 1 <= n PROVE f[m + 1] \in Seq(T)
    OBVIOUS
  <2>1. m + 1 \in 1..n /\ (m + 1) - 1 = m /\ f[m] \in Seq(T)
    BY <1>1, <1>6
  <2>2. f[m + 1] = Adds(f[m], s[m + 1], times[m + 1])
    BY <1>4, <2>1
  <2>3. s[m + 1] \in T /\ times[m + 1] \in Nat
    BY <1>1, <2>1 DEF n
  <2>4. Adds(f[m], s[m + 1], times[m + 1]) \in Seq(T)
    BY <2>1, <2>3, AddsIs DEF IsAdds
  <2>. QED BY <2>2, <2>4
<1>7. ASSUME NEW i \in 0..n PROVE f[i] \in Seq(T)
  <2>. HIDE DEF S
  <2>1. Nat \subseteq S
    BY <1>5, <1>6, NumberInduction
  <2>. QED BY <1>1, <2>1 DEF S
<1>8. f = [i \in 0..n |-> f[i]]
  BY <1>2
<1>9. f \in [0..n -> Seq(T)]
  BY <1>7, <1>8
<1>. QED BY <1>3, <1>4, <1>9 DEF Steps, n

\* Whatever such steps end with is what Repeated gives.
LEMMA RepeatedIs ==
  ASSUME NEW T, NEW s \in Seq(T), NEW times \in [1..Len(s) -> Nat], NEW g, Steps(g, s, times, T)
  PROVE  Repeated(s, times) = g[Len(s)]
<1>1. PICK h : Steps(h, s, times, T) /\ Repeated(s, times) = h[Len(s)]
  BY RepeatedSteps
<1>2. Len(s) \in Nat
  BY LenProperties
<1>. DEFINE S == {m \in Nat : m <= Len(s) => g[m] = h[m]}
<1>3. 0 \in S
  BY <1>1 DEF Steps
<1>4. ASSUME NEW m \in Nat, m \in S PROVE m + 1 \in S
  <2>. SUFFICES ASSUME m + 1 <= Len(s) PROVE g[m + 1] = h[m + 1]
    OBVIOUS
  <2>1. m + 1 \in 1..Len(s) /\ (m + 1) - 1 = m /\ g[m] = h[m]
    BY <1>2, <1>4
  <2>2. /\ g[m + 1] = Adds(g[m], s[m + 1], times[m + 1])
        /\ h[m + 1] = Adds(h[m], s[m + 1], times[m + 1])
    BY <1>1, <2>1 DEF Steps
  <2>. QED BY <2>1, <2>2
<1>. HIDE DEF S
<1>5. Nat \subseteq S
  BY <1>3, <1>4, NumberInduction
<1>. QED BY <1>1, <1>2, <1>5 DEF S

\* One more element.
LEMMA RepeatedAppend ==
  ASSUME NEW T, NEW s \in Seq(T), NEW x \in T, NEW c \in [1..Len(s) -> Nat], NEW d \in [1..Len(s) + 1 -> Nat],
         \A i \in 1..Len(s) : d[i] = c[i]
  PROVE  Repeated(Append(s, x), d) = Adds(Repeated(s, c), x, d[Len(s) + 1])
<1>. DEFINE n == Len(s)
            e == Append(s, x)
<1>1. n \in Nat
  BY LenProperties
<1>2. e \in Seq(T) /\ Len(e) = n + 1 /\ e[n + 1] = x /\ \A i \in 1..n : e[i] = s[i]
  BY AppendProperties
<1>3. PICK g : Steps(g, s, c, T) /\ Repeated(s, c) = g[n]
  BY RepeatedSteps
<1>. DEFINE last == Adds(g[n], x, d[n + 1])
            h == [i \in 0..n + 1 |-> IF i = n + 1 THEN last ELSE g[i]]
<1>4. g \in [0..n -> Seq(T)] /\ g[0] = <<>> /\ \A i \in 1..n : g[i] = Adds(g[i - 1], s[i], c[i])
  BY <1>3 DEF Steps
<1>5. d \in [1..n + 1 -> Nat] /\ \A i \in 1..n : d[i] = c[i]
  OBVIOUS
<1>. HIDE DEF n, e
<1>6. last \in Seq(T)
  <2>1. g[n] \in Seq(T) /\ d[n + 1] \in Nat
    BY <1>1, <1>4, <1>5
  <2>. QED BY <2>1, AddsIs DEF last, IsAdds
<1>. HIDE DEF last
<1>7. h \in [0..n + 1 -> Seq(T)] /\ h[0] = <<>> /\ h[n + 1] = last
  BY <1>1, <1>4, <1>6
<1>8. ASSUME NEW i \in 1..n + 1 PROVE h[i] = Adds(h[i - 1], e[i], d[i])
  <2>1. i - 1 \in 0..n /\ h[i - 1] = g[i - 1]
    BY <1>1
  <2>2. CASE i = n + 1
    <3>1. i - 1 = n /\ e[i] = x /\ h[i] = last
      BY <2>2, <1>1, <1>2
    <3>. QED BY <2>1, <2>2, <3>1 DEF last
  <2>3. CASE i # n + 1
    <3>1. i \in 1..n
      BY <2>3, <1>1
    <3>2. h[i] = g[i] /\ e[i] = s[i] /\ d[i] = c[i]
      BY <2>3, <3>1, <1>2, <1>5
    <3>. QED BY <2>1, <3>1, <3>2, <1>4
  <2>. QED BY <2>2, <2>3
<1>. HIDE DEF h
<1>9. Steps(h, e, d, T)
  BY <1>2, <1>7, <1>8 DEF Steps
<1>10. Repeated(e, d) = h[n + 1]
  BY <1>2, <1>5, <1>9, RepeatedIs
<1>. QED BY <1>3, <1>7, <1>10 DEF last, e, n

LEMMA RepeatedEmpty ==
  ASSUME NEW T, NEW c \in [1..0 -> Nat]
  PROVE  Repeated(<<>>, c) = <<>>
<1>. DEFINE g == [i \in 0..0 |-> <<>>]
            e == <<>>
<1>1. e \in Seq(T) /\ Len(e) = 0
  BY EmptySeq
<1>2. g \in [0..0 -> Seq(T)] /\ g[0] = e
  BY <1>1
<1>. HIDE DEF g
<1>3. Steps(g, e, c, T)
  BY <1>1, <1>2 DEF Steps
<1>. HIDE DEF e
<1>4. Repeated(e, c) = g[0]
  BY <1>1, <1>3, RepeatedIs
<1>. QED BY <1>2, <1>4 DEF e

LEMMA RepeatedType ==
  ASSUME NEW T, NEW s \in Seq(T), NEW times \in [1..Len(s) -> Nat]
  PROVE  Repeated(s, times) \in Seq(T)
<1>1. PICK g : Steps(g, s, times, T) /\ Repeated(s, times) = g[Len(s)]
  BY RepeatedSteps
<1>2. Len(s) \in 0..Len(s)
  BY LenProperties
<1>. QED BY <1>1, <1>2 DEF Steps

-----------------------------------------------------------------------------
(* Selecting elements                                                      *)

Picks(s, S) == [i \in DOMAIN s |-> IF s[i] \in S THEN 1 ELSE 0]

LEMMA PicksType ==
  ASSUME NEW T, NEW s \in Seq(T), NEW S
  PROVE  Picks(s, S) \in [1..Len(s) -> Nat]
BY LenProperties DEF Picks

LEMMA SelectType ==
  ASSUME NEW T, NEW s \in Seq(T), NEW S
  PROVE  Select(s, S) \in Seq(T)
BY PicksType, RepeatedType DEF Select, Picks

LEMMA SelectEmpty ==
  ASSUME NEW S
  PROVE  Select(<<>>, S) = <<>>
<1>. DEFINE e == <<>>
<1>1. e \in Seq({}) /\ Len(e) = 0
  BY EmptySeq
<1>2. Picks(e, S) \in [1..0 -> Nat]
  BY <1>1, PicksType
<1>3. Repeated(e, Picks(e, S)) = e
  BY <1>2, RepeatedEmpty
<1>. QED BY <1>3 DEF Select, Picks

LEMMA SelectAppend ==
  ASSUME NEW T, NEW s \in Seq(T), NEW x \in T, NEW S
  PROVE  Select(Append(s, x), S) = IF x \in S THEN Append(Select(s, S), x) ELSE Select(s, S)
<1>. DEFINE e == Append(s, x)
            n == Len(s)
            c == Picks(s, S)
            d == Picks(e, S)
<1>1. /\ e \in Seq(T) /\ Len(e) = n + 1 /\ e[n + 1] = x /\ \A i \in 1..n : e[i] = s[i]
      /\ n \in Nat /\ DOMAIN s = 1..n
  BY AppendProperties, LenProperties
<1>2. DOMAIN e = 1..n + 1
  <2>. HIDE DEF e, n
  <2>. QED BY <1>1, LenProperties
<1>3. c \in [1..n -> Nat] /\ \A i \in 1..n : c[i] = IF s[i] \in S THEN 1 ELSE 0
  <2>1. c \in [1..n -> Nat]
    BY PicksType
  <2>. QED BY <1>1, <2>1 DEF Picks
<1>4. d \in [1..n + 1 -> Nat] /\ \A i \in 1..n + 1 : d[i] = IF e[i] \in S THEN 1 ELSE 0
  <2>. HIDE DEF e, n
  <2>1. d \in [1..n + 1 -> Nat]
    BY <1>1, PicksType
  <2>. QED BY <1>2, <2>1 DEF Picks
<1>5. Select(s, S) = Repeated(s, c) /\ Select(e, S) = Repeated(e, d)
  BY DEF Select, Picks
<1>6. Select(s, S) \in Seq(T)
  BY SelectType
<1>. HIDE DEF c, d
<1>7. \A i \in 1..n : d[i] = c[i]
  <2>. HIDE DEF e, n
  <2>. QED BY <1>1, <1>3, <1>4
<1>8. Repeated(e, d) = Adds(Repeated(s, c), x, d[n + 1])
  BY <1>3, <1>4, <1>7, RepeatedAppend
<1>9. n + 1 \in 1..n + 1
  BY <1>1
<1>10. d[n + 1] = IF x \in S THEN 1 ELSE 0
  <2>. HIDE DEF e, n
  <2>. QED BY <1>1, <1>4, <1>9
<1>. HIDE DEF e, n
<1>11. Select(e, S) = Adds(Select(s, S), x, IF x \in S THEN 1 ELSE 0)
  BY <1>5, <1>8, <1>10
<1>12. Adds(Select(s, S), x, 0) = Select(s, S) /\ Adds(Select(s, S), x, 1) = Append(Select(s, S), x)
  BY <1>6, AddsNone, AddsOne
<1>13. CASE x \in S
  BY <1>11, <1>12, <1>13 DEF e
<1>14. CASE x \notin S
  BY <1>11, <1>12, <1>14 DEF e
<1>. QED BY <1>13, <1>14

\* The elements of a sequence with one more.
LEMMA ToSetAppend ==
  ASSUME NEW T, NEW s \in Seq(T), NEW x \in T
  PROVE  ToSet(<<>>) = {} /\ ToSet(Append(s, x)) = ToSet(s) \cup {x}
<1>. DEFINE e == Append(s, x)
            n == Len(s)
<1>1. /\ e \in Seq(T) /\ Len(e) = n + 1 /\ e[n + 1] = x /\ \A i \in 1..n : e[i] = s[i]
      /\ n \in Nat /\ DOMAIN s = 1..n
  BY AppendProperties, LenProperties
<1>2. DOMAIN e = 1..n + 1
  <2>. HIDE DEF e, n
  <2>. QED BY <1>1, LenProperties
<1>3. ToSet(<<>>) = {}
  BY DEF ToSet
<1>. HIDE DEF e, n
<1>4. ToSet(e) = ToSet(s) \cup {x}
  BY <1>1, <1>2 DEF ToSet
<1>. QED BY <1>3, <1>4 DEF e

LEMMA SelectRange ==
  ASSUME NEW T, NEW s \in Seq(T), NEW S
  PROVE  ToSet(Select(s, S)) = ToSet(s) \cap S
<1>. DEFINE P == {t \in Seq(T) : ToSet(Select(t, S)) = ToSet(t) \cap S}
<1>1. <<>> \in P
  BY EmptySeq, SelectEmpty DEF ToSet
<1>2. ASSUME NEW t \in Seq(T), NEW x \in T, t \in P PROVE Append(t, x) \in P
  <2>1. Append(t, x) \in Seq(T) /\ Select(t, S) \in Seq(T)
    BY AppendProperties, SelectType
  <2>2. ToSet(Append(t, x)) = ToSet(t) \cup {x} /\ ToSet(Append(Select(t, S), x)) = ToSet(Select(t, S)) \cup {x}
    BY <2>1, ToSetAppend
  <2>3. ToSet(Select(t, S)) = ToSet(t) \cap S
    BY <1>2
  <2>4. CASE x \in S
    <3>1. Select(Append(t, x), S) = Append(Select(t, S), x)
      BY <2>4, SelectAppend
    <3>. QED BY <2>1, <2>2, <2>3, <2>4, <3>1
  <2>5. CASE x \notin S
    <3>1. Select(Append(t, x), S) = Select(t, S)
      BY <2>5, SelectAppend
    <3>. QED BY <2>1, <2>2, <2>3, <2>5, <3>1
  <2>. QED BY <2>4, <2>5
<1>. HIDE DEF P
<1>3. Seq(T) \subseteq P
  BY <1>1, <1>2, SequenceInduction
<1>. QED BY <1>3 DEF P

\* Selecting twice is selecting from what is in both.
LEMMA SelectTwice ==
  ASSUME NEW T, NEW s \in Seq(T), NEW A, NEW B
  PROVE  Select(Select(s, A), B) = Select(s, A \cap B)
<1>. DEFINE P == {t \in Seq(T) : Select(Select(t, A), B) = Select(t, A \cap B)}
<1>1. <<>> \in P
  BY EmptySeq, SelectEmpty
<1>2. ASSUME NEW t \in Seq(T), NEW x \in T, t \in P PROVE Append(t, x) \in P
  <2>. DEFINE a == Select(t, A)
  <2>1. Append(t, x) \in Seq(T) /\ a \in Seq(T) /\ Select(a, B) = Select(t, A \cap B)
    BY <1>2, AppendProperties, SelectType
  <2>2. /\ Select(Append(t, x), A) = IF x \in A THEN Append(a, x) ELSE a
        /\ Select(Append(t, x), A \cap B) = IF x \in A \cap B THEN Append(Select(t, A \cap B), x) ELSE Select(t, A \cap B)
    BY SelectAppend
  <2>. HIDE DEF a
  <2>3. Select(Append(a, x), B) = IF x \in B THEN Append(Select(a, B), x) ELSE Select(a, B)
    BY <2>1, SelectAppend
  <2>4. Select(Select(Append(t, x), A), B) = Select(Append(t, x), A \cap B)
    <3>1. CASE x \notin A
      BY <2>1, <2>2, <3>1
    <3>2. CASE x \in A
      <4>1. Select(Append(t, x), A) = Append(a, x)
        BY <2>2, <3>2
      <4>2. x \in A \cap B <=> x \in B
        BY <3>2
      <4>. QED BY <2>1, <2>2, <2>3, <4>1, <4>2
    <3>. QED BY <3>1, <3>2
  <2>. QED BY <2>1, <2>4
<1>. HIDE DEF P
<1>3. Seq(T) \subseteq P
  BY <1>1, <1>2, SequenceInduction
<1>. QED BY <1>3 DEF P

\* Only the elements of the sequence matter.
LEMMA SelectSame ==
  ASSUME NEW T, NEW s \in Seq(T), NEW A, NEW B, \A x \in ToSet(s) : x \in A <=> x \in B
  PROVE  Select(s, A) = Select(s, B)
<1>. DEFINE P == {t \in Seq(T) : (\A x \in ToSet(t) : x \in A <=> x \in B) => Select(t, A) = Select(t, B)}
<1>1. <<>> \in P
  BY EmptySeq, SelectEmpty
<1>2. ASSUME NEW t \in Seq(T), NEW x \in T, t \in P PROVE Append(t, x) \in P
  <2>. SUFFICES ASSUME \A y \in ToSet(Append(t, x)) : y \in A <=> y \in B
                PROVE  Select(Append(t, x), A) = Select(Append(t, x), B)
    BY AppendProperties
  <2>1. ToSet(Append(t, x)) = ToSet(t) \cup {x}
    BY ToSetAppend
  <2>2. Select(t, A) = Select(t, B) /\ (x \in A <=> x \in B)
    BY <1>2, <2>1
  <2>3. /\ Select(Append(t, x), A) = IF x \in A THEN Append(Select(t, A), x) ELSE Select(t, A)
        /\ Select(Append(t, x), B) = IF x \in B THEN Append(Select(t, B), x) ELSE Select(t, B)
    BY SelectAppend
  <2>. QED BY <2>2, <2>3
<1>. HIDE DEF P
<1>3. Seq(T) \subseteq P
  BY <1>1, <1>2, SequenceInduction
<1>. QED BY <1>3 DEF P

\* Each of its elements once.
Unique(s) == \A i, j \in DOMAIN s : s[i] = s[j] => i = j

LEMMA UniqueAppend ==
  ASSUME NEW T, NEW s \in Seq(T), NEW x \in T
  PROVE  Unique(Append(s, x)) <=> Unique(s) /\ x \notin ToSet(s)
<1>. DEFINE e == Append(s, x)
            n == Len(s)
<1>1. /\ e \in Seq(T) /\ Len(e) = n + 1 /\ e[n + 1] = x /\ \A i \in 1..n : e[i] = s[i]
      /\ n \in Nat /\ DOMAIN s = 1..n
  BY AppendProperties, LenProperties
<1>2. DOMAIN e = 1..n + 1
  <2>. HIDE DEF e, n
  <2>. QED BY <1>1, LenProperties
<1>. HIDE DEF e, n
<1>3. ASSUME Unique(e) PROVE Unique(s) /\ x \notin ToSet(s)
  BY <1>1, <1>2, <1>3 DEF Unique, ToSet
<1>4. ASSUME Unique(s), x \notin ToSet(s) PROVE Unique(e)
  BY <1>1, <1>2, <1>4 DEF Unique, ToSet
<1>. QED BY <1>3, <1>4 DEF e

LEMMA SelectUnique ==
  ASSUME NEW T, NEW s \in Seq(T), NEW S, Unique(s)
  PROVE  Unique(Select(s, S))
<1>. DEFINE P == {t \in Seq(T) : Unique(t) => Unique(Select(t, S))}
<1>1. <<>> \in P
  BY EmptySeq, SelectEmpty
<1>2. ASSUME NEW t \in Seq(T), NEW x \in T, t \in P PROVE Append(t, x) \in P
  <2>. SUFFICES ASSUME Unique(Append(t, x)) PROVE Unique(Select(Append(t, x), S))
    BY AppendProperties
  <2>1. Unique(t) /\ x \notin ToSet(t)
    BY UniqueAppend
  <2>2. Unique(Select(t, S)) /\ Select(t, S) \in Seq(T) /\ x \notin ToSet(Select(t, S))
    BY <1>2, <2>1, SelectType, SelectRange
  <2>3. Unique(Append(Select(t, S), x))
    BY <2>2, UniqueAppend
  <2>4. Select(Append(t, x), S) = IF x \in S THEN Append(Select(t, S), x) ELSE Select(t, S)
    BY SelectAppend
  <2>. QED BY <2>2, <2>3, <2>4
<1>. HIDE DEF P
<1>3. Seq(T) \subseteq P
  BY <1>1, <1>2, SequenceInduction
<1>. QED BY <1>3 DEF P

-----------------------------------------------------------------------------
(* Filtering in place                                                      *)

\* How many of the first k are in D, and where the k-th is moved.
Gone(s, D, k)  == Cardinality({j \in 1..k : s[j] \in D})
Place(s, D, k) == k - Gone(s, D, k)

LEMMA GoneIs ==
  ASSUME NEW s, NEW D, NEW k \in Nat
  PROVE  /\ Gone(s, D, k) \in 0..k
         /\ Gone(s, D, 0) = 0
         /\ Gone(s, D, k + 1) = Gone(s, D, k) + IF s[k + 1] \in D THEN 1 ELSE 0
<1>. DEFINE G(n) == {j \in 1..n : s[j] \in D}
<1>1. \A n \in Nat : IsFiniteSet(1..n) /\ Cardinality(1..n) = n
  <2>. TAKE n \in Nat
  <2>1. IsFiniteSet(1..n) /\ Cardinality(1..n) = IF 1 > n THEN 0 ELSE n - 1 + 1
    BY FS_Interval
  <2>. QED BY <2>1
<1>2. G(k) \subseteq 1..k
  OBVIOUS
<1>3. IsFiniteSet(G(k)) /\ Cardinality(G(k)) <= k /\ Cardinality(G(k)) \in Nat
  BY <1>1, <1>2, FS_Subset, FS_CardinalityType
<1>4. Gone(s, D, 0) = 0
  <2>1. G(0) = {}
    OBVIOUS
  <2>. QED BY <2>1, FS_EmptySet DEF Gone
<1>5. CASE s[k + 1] \in D
  <2>1. G(k + 1) = G(k) \cup {k + 1} /\ k + 1 \notin G(k)
    BY <1>5
  <2>. HIDE DEF G
  <2>2. Cardinality(G(k) \cup {k + 1}) = Cardinality(G(k)) + 1
    BY <1>3, <2>1, FS_AddElement
  <2>. QED BY <1>3, <1>4, <1>5, <2>1, <2>2 DEF Gone, G
<1>6. CASE s[k + 1] \notin D
  <2>1. G(k + 1) = G(k)
    BY <1>6
  <2>. HIDE DEF G
  <2>2. Gone(s, D, k + 1) = Cardinality(G(k + 1)) /\ Gone(s, D, k) = Cardinality(G(k))
    BY DEF Gone, G
  <2>. QED BY <1>3, <1>4, <1>6, <2>1, <2>2
<1>. QED BY <1>5, <1>6

LEMMA GoneNext ==
  ASSUME NEW s, NEW D, NEW k \in Nat, NEW j, j = k + 1
  PROVE  Gone(s, D, k) \in 0..k /\ Gone(s, D, j) = Gone(s, D, k) + IF s[j] \in D THEN 1 ELSE 0
<1>1. /\ Gone(s, D, k) \in 0..k
      /\ Gone(s, D, k + 1) = Gone(s, D, k) + IF s[k + 1] \in D THEN 1 ELSE 0
  BY GoneIs
<1>. QED BY <1>1

\* Places do not decrease.
LEMMA PlacesGrow ==
  ASSUME NEW s, NEW D, NEW i \in Nat, NEW k \in Nat, i <= k
  PROVE  Place(s, D, i) <= Place(s, D, k)
<1>. DEFINE S == {n \in Nat : Place(s, D, i) <= Place(s, D, i + n)}
<1>1. 0 \in S
  <2>1. i + 0 = i /\ Gone(s, D, i) \in 0..i
    BY GoneIs
  <2>. QED BY <2>1 DEF Place
<1>2. ASSUME NEW n \in Nat, n \in S PROVE n + 1 \in S
  <2>1. i + n \in Nat /\ i + (n + 1) = (i + n) + 1
    OBVIOUS
  <2>2. /\ Gone(s, D, i + n) \in 0..(i + n) /\ Gone(s, D, i) \in 0..i
        /\ Gone(s, D, (i + n) + 1) \in {Gone(s, D, i + n), Gone(s, D, i + n) + 1}
    BY <2>1, GoneIs
  <2>3. Place(s, D, i) <= Place(s, D, i + n)
    BY <1>2
  <2>4. Place(s, D, i) <= Place(s, D, i + (n + 1))
    BY <2>1, <2>2, <2>3 DEF Place
  <2>. QED BY <2>4
<1>. HIDE DEF S
<1>3. Nat \subseteq S
  BY <1>1, <1>2, NumberInduction
<1>4. k - i \in S /\ i + (k - i) = k
  BY <1>3
<1>. QED BY <1>4 DEF S

\* r has what of s is not in D, each where it is moved.
Moved(s, D, r) ==
  /\ Len(r) = Place(s, D, Len(s))
  /\ \A i \in 1..Len(s) : s[i] \notin D => Place(s, D, i) \in 1..Len(r) /\ r[Place(s, D, i)] = s[i]
  /\ \A m \in 1..Len(r) : \E i \in 1..Len(s) : s[i] \notin D /\ Place(s, D, i) = m

LEMMA MovedIs ==
  ASSUME NEW s, NEW D, NEW r, NEW n, Len(s) = n,
         Len(r) = Place(s, D, n),
         \A i \in 1..n : s[i] \notin D => Place(s, D, i) \in 1..Len(r) /\ r[Place(s, D, i)] = s[i],
         \A m \in 1..Len(r) : \E i \in 1..n : s[i] \notin D /\ Place(s, D, i) = m
  PROVE  Moved(s, D, r)
BY DEF Moved

LEMMA SelectMoves ==
  ASSUME NEW T, NEW s \in Seq(T), NEW D
  PROVE  Moved(s, D, Select(s, T \ D))
<1>. DEFINE P == {t \in Seq(T) : Moved(t, D, Select(t, T \ D))}
<1>1. <<>> \in P
  <2>. DEFINE e == <<>>
  <2>1. Select(e, T \ D) = e /\ Len(e) = 0 /\ e \in Seq(T)
    BY SelectEmpty, EmptySeq
  <2>. HIDE DEF e
  <2>2. Place(e, D, 0) = 0
    BY GoneIs DEF Place
  <2>3. Moved(e, D, e)
    BY <2>1, <2>2 DEF Moved
  <2>4. e \in P
    BY <2>1, <2>3
  <2>. QED BY <2>4 DEF e
<1>2. ASSUME NEW t \in Seq(T), NEW x \in T, t \in P PROVE Append(t, x) \in P
  <2>. DEFINE e == Append(t, x)
              n == Len(t)
              r == Select(t, T \ D)
              q == Select(e, T \ D)
  <2>1. /\ e \in Seq(T) /\ Len(e) = n + 1 /\ e[n + 1] = x /\ \A i \in 1..n : e[i] = t[i]
        /\ n \in Nat
    BY AppendProperties, LenProperties
  <2>2. r \in Seq(T) /\ Len(r) \in Nat
    BY SelectType, LenProperties
  <2>3. q = IF x \in D THEN r ELSE Append(r, x)
    BY SelectAppend
  <2>4. Moved(t, D, r)
    BY <1>2
  <2>. HIDE DEF e, n, r, q
  <2>5. ASSUME NEW i \in 0..n PROVE Place(e, D, i) = Place(t, D, i)
    <3>1. {j \in 1..i : e[j] \in D} = {j \in 1..i : t[j] \in D}
      BY <2>1
    <3>. QED BY <3>1 DEF Place, Gone
  <2>6. Gone(e, D, n) \in 0..n /\ Gone(e, D, n + 1) = Gone(e, D, n) + IF x \in D THEN 1 ELSE 0
    <3>. DEFINE j == n + 1
    <3>1. j = n + 1 /\ e[j] = x /\ n \in Nat
      BY <2>1
    <3>. HIDE DEF j
    <3>2. Gone(e, D, n) \in 0..n /\ Gone(e, D, j) = Gone(e, D, n) + IF e[j] \in D THEN 1 ELSE 0
      BY <3>1, GoneNext
    <3>. QED BY <3>1, <3>2
  <2>7. Place(e, D, n + 1) = Place(t, D, n) + IF x \in D THEN 0 ELSE 1
    <3>1. Place(e, D, n) = Place(t, D, n)
      BY <2>1, <2>5
    <3>. QED BY <2>1, <2>6, <3>1 DEF Place
  <2>8. /\ Len(r) = Place(t, D, n)
        /\ \A i \in 1..n : t[i] \notin D => Place(t, D, i) \in 1..Len(r) /\ r[Place(t, D, i)] = t[i]
        /\ \A m \in 1..Len(r) : \E i \in 1..n : t[i] \notin D /\ Place(t, D, i) = m
    BY <2>4 DEF Moved, n
  <2>9. ASSUME x \in D PROVE Moved(e, D, q)
    <3>1. q = r /\ Len(q) = Place(e, D, n + 1)
      BY <2>2, <2>3, <2>7, <2>8, <2>9
    <3>2. ASSUME NEW i \in 1..n + 1, e[i] \notin D PROVE Place(e, D, i) \in 1..Len(q) /\ q[Place(e, D, i)] = e[i]
      <4>1. i \in 1..n
        BY <2>1, <2>9, <3>2
      <4>. QED BY <2>1, <2>5, <2>8, <3>1, <3>2, <4>1
    <3>3. ASSUME NEW m \in 1..Len(q) PROVE \E i \in 1..n + 1 : e[i] \notin D /\ Place(e, D, i) = m
      <4>1. PICK i \in 1..n : t[i] \notin D /\ Place(t, D, i) = m
        BY <2>8, <3>1
      <4>2. i \in 0..n /\ i \in 1..n + 1
        BY <2>1
      <4>. QED BY <2>1, <2>5, <4>1, <4>2
    <3>. QED BY <2>1, <3>1, <3>2, <3>3, MovedIs
  <2>10. ASSUME x \notin D PROVE Moved(e, D, q)
    <3>1. /\ q \in Seq(T) /\ Len(q) = Len(r) + 1 /\ q[Len(r) + 1] = x
          /\ \A m \in 1..Len(r) : q[m] = r[m]
      BY <2>2, <2>3, <2>10, AppendProperties
    <3>2. Len(q) = Place(e, D, n + 1)
      BY <2>2, <2>7, <2>8, <2>10, <3>1
    <3>3. ASSUME NEW i \in 1..n + 1, e[i] \notin D PROVE Place(e, D, i) \in 1..Len(q) /\ q[Place(e, D, i)] = e[i]
      <4>1. CASE i = n + 1
        BY <2>1, <2>2, <3>1, <3>2, <4>1
      <4>2. CASE i # n + 1
        <5>1. i \in 1..n /\ i \in 0..n
          BY <2>1, <4>2
        <5>2. Place(t, D, i) \in 1..Len(r) /\ r[Place(t, D, i)] = t[i] /\ e[i] = t[i] /\ Place(e, D, i) = Place(t, D, i)
          BY <2>1, <2>5, <2>8, <3>3, <5>1
        <5>. QED BY <2>2, <3>1, <5>2
      <4>. QED BY <4>1, <4>2
    <3>4. ASSUME NEW m \in 1..Len(q) PROVE \E i \in 1..n + 1 : e[i] \notin D /\ Place(e, D, i) = m
      <4>1. CASE m = Len(q)
        <5>1. n + 1 \in 1..n + 1 /\ e[n + 1] \notin D /\ Place(e, D, n + 1) = m
          BY <2>1, <2>10, <3>2, <4>1
        <5>. QED BY <5>1
      <4>2. CASE m # Len(q)
        <5>1. m \in 1..Len(r)
          BY <2>2, <3>1, <4>2
        <5>2. PICK i \in 1..n : t[i] \notin D /\ Place(t, D, i) = m
          BY <2>8, <5>1
        <5>3. i \in 0..n /\ i \in 1..n + 1
          BY <2>1
        <5>. QED BY <2>1, <2>5, <5>2, <5>3
      <4>. QED BY <4>1, <4>2
    <3>. QED BY <2>1, <3>2, <3>3, <3>4, MovedIs
  <2>11. Moved(e, D, q)
    BY <2>9, <2>10
  <2>. QED BY <2>1, <2>11 DEF e, q
<1>. HIDE DEF P
<1>3. Seq(T) \subseteq P
  BY <1>1, <1>2, SequenceInduction
<1>. QED BY <1>3 DEF P

\* The largest of a set of numbers.
LEMMA MaxIs ==
  ASSUME NEW S, S \subseteq Nat, NEW n \in S, \A k \in S : k <= n
  PROVE  Max(S) = n
<1>1. \A x \in S : (\A y \in S : x >= y) => x = n
  OBVIOUS
<1>2. \A y \in S : n >= y
  OBVIOUS
<1>. QED BY <1>1, <1>2 DEF Max

\* FilterInPlace keeps what no pattern matches, in order.
LEMMA FilterIs ==
  ASSUME NEW T, NEW s \in Seq(T), NEW patterns
  PROVE  FilterInPlace(patterns, s) = Select(s, {x \in T : ~Matches(patterns, x)})
<1>. DEFINE D == {x \in T : Matches(patterns, x)}
            n == Len(s)
            r == Select(s, T \ D)
            moves(m) == {k \in 1..(n - 1) : MovedTo(patterns, s, k) = m}
<1>1. n \in Nat /\ \A i \in 1..n : s[i] \in T
  BY LenProperties, ElementOfSeq
<1>2. r \in Seq(T) /\ Len(r) \in Nat /\ Moved(s, D, r)
  BY SelectType, LenProperties, SelectMoves
<1>. HIDE DEF n
<1>3. ASSUME NEW k \in 0..n PROVE Removed(patterns, s, k) = Gone(s, D, k)
  <2>1. {j \in 1..k : Matches(patterns, s[j])} = {j \in 1..k : s[j] \in D}
    BY <1>1
  <2>. HIDE DEF D
  <2>. QED BY <2>1 DEF Removed, Gone
<1>. HIDE DEF D, r
<1>4. ASSUME NEW k \in 0..n PROVE MovedTo(patterns, s, k) = Place(s, D, k) + 1
  <2>1. Gone(s, D, k) \in 0..k /\ k \in Nat
    BY <1>1, GoneIs
  <2>. QED BY <1>3, <2>1 DEF MovedTo, Place
<1>5. /\ Len(r) = Place(s, D, n)
      /\ \A i \in 1..n : s[i] \notin D => Place(s, D, i) \in 1..Len(r) /\ r[Place(s, D, i)] = s[i]
      /\ \A m \in 1..Len(r) : \E i \in 1..n : s[i] \notin D /\ Place(s, D, i) = m
  BY <1>2 DEF Moved, n
<1>6. ASSUME NEW m \in 1..Len(r) PROVE s[IF moves(m) = {} THEN m ELSE Max(moves(m)) + 1] = r[m]
  <2>1. PICK i \in 1..n : s[i] \notin D /\ Place(s, D, i) = m
    BY <1>5
  <2>2. r[m] = s[i]
    BY <1>5, <2>1
  <2>3. ASSUME NEW k \in moves(m) PROVE k \in 1..(n - 1) /\ k < i
    <3>1. k \in 1..(n - 1) /\ Place(s, D, k) + 1 = m
      BY <1>1, <1>4, <2>3
    <3>2. i <= k => Place(s, D, i) <= Place(s, D, k)
      BY <1>1, <3>1, PlacesGrow
    <3>3. Place(s, D, k) \in Int
      <4>1. Gone(s, D, k) \in 0..k
        BY <1>1, <3>1, GoneIs
      <4>. QED BY <3>1, <4>1 DEF Place
    <3>. QED BY <1>1, <2>1, <3>1, <3>2, <3>3
  <2>4. CASE i = 1
    <3>1. moves(m) = {}
      BY <2>3, <2>4
    <3>2. m = 1
      <4>1. Gone(s, D, 0) = 0 /\ Gone(s, D, 0 + 1) = Gone(s, D, 0) + IF s[0 + 1] \in D THEN 1 ELSE 0
        BY GoneIs
      <4>. QED BY <2>1, <2>4, <4>1 DEF Place
    <3>. QED BY <2>2, <2>4, <3>1, <3>2
  <2>5. CASE i # 1
    <3>1. i - 1 \in 1..(n - 1) /\ i - 1 \in 0..n /\ (i - 1) + 1 = i
      BY <1>1, <2>5
    <3>2. Gone(s, D, i - 1) \in 0..(i - 1) /\ Gone(s, D, i) = Gone(s, D, i - 1) + IF s[i] \in D THEN 1 ELSE 0
      <4>1. i - 1 \in Nat
        BY <3>1
      <4>. DEFINE k == i - 1
      <4>2. k \in Nat /\ i = k + 1
        BY <3>1, <4>1
      <4>. HIDE DEF k
      <4>3. Gone(s, D, k) \in 0..k /\ Gone(s, D, i) = Gone(s, D, k) + IF s[i] \in D THEN 1 ELSE 0
        BY <4>2, GoneNext
      <4>. QED BY <4>3 DEF k
    <3>3. MovedTo(patterns, s, i - 1) = m
      BY <1>4, <2>1, <3>1, <3>2 DEF Place
    <3>4. i - 1 \in moves(m)
      BY <3>1, <3>3
    <3>5. moves(m) \subseteq Nat /\ \A k \in moves(m) : k <= i - 1
      BY <1>1, <2>3, <3>1
    <3>6. Max(moves(m)) = i - 1
      <4>. HIDE DEF moves
      <4>. QED BY <3>4, <3>5, MaxIs
    <3>. QED BY <2>2, <3>1, <3>4, <3>6
  <2>. QED BY <2>4, <2>5
<1>7. n - Removed(patterns, s, n) = Len(r)
  BY <1>1, <1>3, <1>5 DEF Place
<1>8. FilterInPlace(patterns, s) = [m \in 1..Len(r) |-> s[IF moves(m) = {} THEN m ELSE Max(moves(m)) + 1]]
  BY <1>7 DEF FilterInPlace, n
<1>9. FilterInPlace(patterns, s) = [m \in 1..Len(r) |-> r[m]]
  <2>. HIDE DEF moves
  <2>. QED BY <1>6, <1>8
<1>10. r = [m \in 1..Len(r) |-> r[m]]
  BY <1>2, LenProperties
<1>11. T \ D = {x \in T : ~Matches(patterns, x)}
  BY DEF D
<1>. QED BY <1>9, <1>10, <1>11 DEF r

-----------------------------------------------------------------------------
(* Sorting and compacting                                                  *)

Fresh(s) == [i \in DOMAIN s |-> IF i > 1 /\ s[i - 1] = s[i] THEN 0 ELSE 1]

LEMMA CompactType ==
  ASSUME NEW T, NEW s \in Seq(T)
  PROVE  Fresh(s) \in [1..Len(s) -> Nat] /\ Compact(s) = Repeated(s, Fresh(s)) /\ Compact(s) \in Seq(T)
<1>1. DOMAIN s = 1..Len(s)
  BY LenProperties
<1>2. Fresh(s) \in [1..Len(s) -> Nat]
  BY <1>1 DEF Fresh
<1>3. Compact(s) = Repeated(s, Fresh(s))
  BY DEF Compact, Fresh
<1>. QED BY <1>2, <1>3, RepeatedType

\* Compact drops an element that equals the one before it.
LEMMA CompactAppend ==
  ASSUME NEW T, NEW s \in Seq(T), NEW x \in T
  PROVE  /\ Compact(<<>>) = <<>>
         /\ Compact(Append(s, x)) = IF s # <<>> /\ s[Len(s)] = x THEN Compact(s)
                                    ELSE Append(Compact(s), x)
<1>. DEFINE e == Append(s, x)
            n == Len(s)
            c == Fresh(s)
            d == Fresh(e)
            z == <<>>
<1>1. /\ e \in Seq(T) /\ Len(e) = n + 1 /\ e[n + 1] = x /\ \A i \in 1..n : e[i] = s[i]
      /\ n \in Nat /\ DOMAIN s = 1..n /\ (s = <<>> <=> n = 0)
  BY AppendProperties, LenProperties, EmptySeq
<1>2. Compact(z) = z
  <2>1. z \in Seq(T) /\ Len(z) = 0
    BY EmptySeq
  <2>. HIDE DEF z
  <2>2. Compact(z) = Repeated(z, Fresh(z)) /\ Fresh(z) \in [1..0 -> Nat]
    BY <2>1, CompactType
  <2>3. Repeated(<<>>, Fresh(z)) = <<>>
    BY <2>2, RepeatedEmpty
  <2>. QED BY <2>2, <2>3 DEF z
<1>3. DOMAIN e = 1..n + 1
  <2>. HIDE DEF e, n
  <2>. QED BY <1>1, LenProperties
<1>4. /\ c \in [1..n -> Nat] /\ Compact(s) = Repeated(s, c) /\ Compact(s) \in Seq(T)
      /\ \A i \in 1..n : c[i] = IF i > 1 /\ s[i - 1] = s[i] THEN 0 ELSE 1
  <2>1. c \in [1..n -> Nat] /\ Compact(s) = Repeated(s, c) /\ Compact(s) \in Seq(T)
    BY CompactType
  <2>. QED BY <1>1, <2>1 DEF Fresh
<1>5. /\ d \in [1..n + 1 -> Nat] /\ Compact(e) = Repeated(e, d)
      /\ \A i \in 1..n + 1 : d[i] = IF i > 1 /\ e[i - 1] = e[i] THEN 0 ELSE 1
  <2>. HIDE DEF e, n
  <2>1. d \in [1..n + 1 -> Nat] /\ Compact(e) = Repeated(e, d)
    BY <1>1, CompactType
  <2>. QED BY <1>3, <2>1 DEF Fresh
<1>. HIDE DEF c, d
<1>6. \A i \in 1..n : d[i] = c[i]
  <2>. HIDE DEF e, n
  <2>. TAKE i \in 1..n
  <2>1. e[i] = s[i] /\ (i > 1 => e[i - 1] = s[i - 1]) /\ i \in 1..n + 1
    BY <1>1
  <2>. QED BY <1>4, <1>5, <2>1
<1>7. Repeated(e, d) = Adds(Repeated(s, c), x, d[n + 1])
  <2>1. c \in [1..Len(s) -> Nat] /\ d \in [1..Len(s) + 1 -> Nat] /\ \A i \in 1..Len(s) : d[i] = c[i]
    BY <1>4, <1>5, <1>6
  <2>. QED BY <2>1, RepeatedAppend
<1>8. d[n + 1] = IF s # <<>> /\ s[n] = x THEN 0 ELSE 1
  <2>. HIDE DEF e, n
  <2>1. n + 1 \in 1..n + 1 /\ (n + 1) - 1 = n
    BY <1>1
  <2>2. d[n + 1] = IF n + 1 > 1 /\ e[(n + 1) - 1] = e[n + 1] THEN 0 ELSE 1
    BY <1>5, <2>1
  <2>3. n # 0 => e[n] = s[n]
    BY <1>1
  <2>. QED BY <1>1, <2>1, <2>2, <2>3
<1>. HIDE DEF e, n
<1>9. /\ Adds(Repeated(s, c), x, 0) = Repeated(s, c)
      /\ Adds(Repeated(s, c), x, 1) = Append(Repeated(s, c), x)
  <2>1. Repeated(s, c) \in Seq(T)
    BY <1>4
  <2>. QED BY <2>1, AddsNone, AddsOne
<1>10. Compact(e) = IF s # <<>> /\ s[n] = x THEN Compact(s) ELSE Append(Compact(s), x)
  BY <1>4, <1>5, <1>7, <1>8, <1>9
<1>. QED BY <1>2, <1>10 DEF e, n

\* However often an element is added, one of it remains.
OneRemains(t, x, n) ==
  /\ ToSet(Adds(t, x, n)) \subseteq ToSet(t) \cup {x}
  /\ Compact(Adds(t, x, n)) = IF n = 0 THEN Compact(t) ELSE Append(Compact(t), x)

LEMMA CompactAdds ==
  ASSUME NEW T, NEW t \in Seq(T), NEW x \in T, x \notin ToSet(t), NEW k \in Nat
  PROVE  OneRemains(t, x, k)
<1>. DEFINE a(n) == Adds(t, x, n)
            S == {n \in Nat : /\ a(n) \in Seq(T)
                              /\ ToSet(a(n)) \subseteq ToSet(t) \cup {x}
                              /\ n # 0 => a(n) # <<>> /\ a(n)[Len(a(n))] = x
                              /\ Compact(a(n)) = IF n = 0 THEN Compact(t) ELSE Append(Compact(t), x)}
<1>1. 0 \in S
  <2>1. a(0) = t
    BY AddsNone
  <2>. QED BY <2>1
<1>2. ASSUME NEW n \in Nat, n \in S PROVE n + 1 \in S
  <2>. DEFINE u == a(n)
              e == Append(u, x)
  <2>1. /\ u \in Seq(T) /\ ToSet(u) \subseteq ToSet(t) \cup {x}
        /\ n # 0 => u # <<>> /\ u[Len(u)] = x
        /\ Compact(u) = IF n = 0 THEN Compact(t) ELSE Append(Compact(t), x)
        /\ n = 0 => u = t
    BY <1>2, AddsNone
  <2>2. a(n + 1) = e
    BY AddsNext
  <2>. HIDE DEF a, u
  <2>3. ToSet(e) = ToSet(u) \cup {x}
    BY <2>1, ToSetAppend
  <2>4. Compact(e) = IF u # <<>> /\ u[Len(u)] = x THEN Compact(u) ELSE Append(Compact(u), x)
    BY <2>1, CompactAppend
  <2>5. e \in Seq(T) /\ Len(e) = Len(u) + 1 /\ e[Len(u) + 1] = x /\ Len(u) \in Nat
    BY <2>1, AppendProperties, LenProperties
  <2>6. u = t => ~(u # <<>> /\ u[Len(u)] = x)
    <3>1. t # <<>> => Len(t) \in DOMAIN t
      BY LenProperties, EmptySeq
    <3>. QED BY <3>1 DEF ToSet
  <2>. HIDE DEF e
  <2>7. e # <<>> /\ e[Len(e)] = x
    BY <2>5, EmptySeq
  <2>8. Compact(e) = Append(Compact(t), x)
    BY <2>1, <2>4, <2>6
  <2>9. n + 1 \in Nat /\ n + 1 # 0
    OBVIOUS
  <2>. QED BY <2>1, <2>2, <2>3, <2>5, <2>7, <2>8, <2>9
<1>. HIDE DEF S
<1>3. Nat \subseteq S
  BY <1>1, <1>2, NumberInduction
<1>. QED BY <1>3 DEF S, OneRemains

\* Sorted and compacted, files named on the command line are each there once.
LEMMA SortCompact ==
  ASSUME NEW T, Order \in Seq(T), Unique(Order), NEW m \in Nat, NEW s \in [1..m -> ToSet(Order)]
  PROVE  Compact(Sort(s)) = Sorted(ToSet(s))
<1>. DEFINE n == Len(Order)
            c == [i \in DOMAIN Order |-> Cardinality({j \in DOMAIN s : s[j] = Order[i]})]
            d == Picks(Order, ToSet(s))
<1>1. n \in Nat /\ DOMAIN Order = 1..n /\ \A i \in 1..n : Order[i] \in T
  BY LenProperties, ElementOfSeq
<1>2. ASSUME NEW i \in 1..n
      PROVE  /\ c[i] \in Nat
             /\ c[i] = 0 <=> Order[i] \notin ToSet(s)
  <2>. DEFINE H == {j \in 1..m : s[j] = Order[i]}
  <2>1. IsFiniteSet(1..m)
    BY FS_Interval
  <2>2. IsFiniteSet(H) /\ H \subseteq 1..m
    BY <2>1, FS_Subset
  <2>3. c[i] = Cardinality(H)
    BY <1>1
  <2>4. H = {} <=> Order[i] \notin ToSet(s)
    BY DEF ToSet
  <2>. HIDE DEF H, c
  <2>. QED BY <2>2, <2>3, <2>4, FS_CardinalityType, FS_EmptySet
<1>3. c \in [1..n -> Nat]
  BY <1>1, <1>2
<1>4. d \in [1..n -> Nat] /\ \A i \in 1..n : d[i] = IF Order[i] \in ToSet(s) THEN 1 ELSE 0
  <2>1. d \in [1..n -> Nat]
    BY PicksType
  <2>. QED BY <1>1, <2>1 DEF Picks
<1>5. Sort(s) = Repeated(Order, c) /\ Sorted(ToSet(s)) = Repeated(Order, d)
  BY DEF Sort, Sorted, Select, Picks
<1>. HIDE DEF c, d
<1>6. PICK g : Steps(g, Order, c, T) /\ Repeated(Order, c) = g[n]
  BY <1>3, RepeatedSteps
<1>7. PICK h : Steps(h, Order, d, T) /\ Repeated(Order, d) = h[n]
  BY <1>4, RepeatedSteps
<1>. HIDE DEF n
<1>8. g \in [0..n -> Seq(T)] /\ g[0] = <<>> /\ \A i \in 1..n : g[i] = Adds(g[i - 1], Order[i], c[i])
  BY <1>6 DEF Steps, n
<1>9. h \in [0..n -> Seq(T)] /\ h[0] = <<>> /\ \A i \in 1..n : h[i] = Adds(h[i - 1], Order[i], d[i])
  BY <1>7 DEF Steps, n
<1>. DEFINE S == {k \in Nat : k <= n => /\ Compact(g[k]) = h[k]
                                        /\ ToSet(g[k]) \subseteq {Order[i] : i \in 1..k}}
<1>10. 0 \in S
  <2>1. Compact(<<>>) = <<>> /\ ToSet(<<>>) = {}
    <3>1. \A x \in {1} : Compact(<<>>) = <<>> /\ ToSet(<<>>) = {}
      BY EmptySeq, CompactAppend, ToSetAppend
    <3>. QED BY <3>1
  <2>. QED BY <1>8, <1>9, <2>1
<1>11. ASSUME NEW k \in Nat, k \in S PROVE k + 1 \in S
  <2>. SUFFICES ASSUME k + 1 <= n
                PROVE  /\ Compact(g[k + 1]) = h[k + 1]
                       /\ ToSet(g[k + 1]) \subseteq {Order[i] : i \in 1..k + 1}
    OBVIOUS
  <2>. DEFINE l == k + 1
              t == g[k]
              x == Order[l]
  <2>1. l \in 1..n /\ l - 1 = k /\ k \in 0..n
    BY <1>1
  <2>2. t \in Seq(T) /\ Compact(t) = h[k] /\ ToSet(t) \subseteq {Order[i] : i \in 1..k}
    BY <1>8, <1>11, <2>1
  <2>3. x \notin ToSet(t)
    <3>1. ASSUME NEW i \in 1..k PROVE Order[i] # Order[l]
      <4>1. i \in DOMAIN Order /\ l \in DOMAIN Order /\ i # l
        BY <1>1, <2>1
      <4>. QED BY <4>1 DEF Unique
    <3>. QED BY <2>2, <3>1
  <2>. HIDE DEF l
  <2>4. g[l] = Adds(t, x, c[l]) /\ h[l] = Adds(h[k], x, d[l])
    BY <1>8, <1>9, <2>1
  <2>5. x \in T /\ c[l] \in Nat
    BY <1>1, <1>3, <2>1
  <2>6. /\ ToSet(g[l]) \subseteq ToSet(t) \cup {x}
        /\ Compact(g[l]) = IF c[l] = 0 THEN h[k] ELSE Append(h[k], x)
    <3>1. /\ ToSet(Adds(t, x, c[l])) \subseteq ToSet(t) \cup {x}
          /\ Compact(Adds(t, x, c[l])) = IF c[l] = 0 THEN Compact(t) ELSE Append(Compact(t), x)
      <4>. DEFINE q == c[l]
      <4>1. t \in Seq(T) /\ x \in T /\ x \notin ToSet(t) /\ q \in Nat
        BY <2>2, <2>3, <2>5
      <4>. HIDE DEF t, x, q
      <4>2. OneRemains(t, x, q)
        BY <4>1, CompactAdds
      <4>. QED BY <4>2 DEF q, OneRemains
    <3>. QED BY <2>2, <2>4, <3>1
  <2>7. h[k] \in Seq(T) /\ Adds(h[k], x, 0) = h[k] /\ Adds(h[k], x, 1) = Append(h[k], x)
    <3>1. h[k] \in Seq(T) /\ x \in T
      BY <1>9, <2>1, <2>5
    <3>. HIDE DEF x
    <3>. QED BY <3>1, AddsNone, AddsOne
  <2>8. d[l] = IF c[l] = 0 THEN 0 ELSE 1
    BY <1>2, <1>4, <2>1
  <2>9. Compact(g[l]) = h[l]
    BY <2>4, <2>6, <2>7, <2>8
  <2>10. ToSet(g[l]) \subseteq {Order[i] : i \in 1..l}
    <3>1. 1..k \subseteq 1..l /\ l \in 1..l
      BY <2>1
    <3>. QED BY <2>2, <2>6, <3>1
  <2>. QED BY <2>9, <2>10 DEF l
<1>. HIDE DEF S
<1>12. Nat \subseteq S
  BY <1>10, <1>11, NumberInduction
<1>13. Compact(g[n]) = h[n]
  BY <1>1, <1>12 DEF S
<1>. QED BY <1>5, <1>6, <1>7, <1>13

-----------------------------------------------------------------------------
(* Lists of paths                                                          *)

\* The paths, each once, in order.
LEMMA OrderIs ==
  /\ Order \in Seq(Path) /\ Unique(Order) /\ ToSet(Order) = Path
  /\ \A p \in Path : p \in Seq(STRING) /\ p # <<>> /\ p[1] # "."
<1>1. Order \in Seq(Seq(STRING))
  BY SelectionAssumption
<1>2. DOMAIN Order = 1..Len(Order) /\ Len(Order) \in Nat
  BY <1>1, LenProperties
<1>3. Path = {Order[i] : i \in DOMAIN Order}
  BY DEF Path, ToSet
<1>4. Order = [i \in 1..Len(Order) |-> Order[i]]
  BY <1>1, LenProperties
<1>5. Order \in Seq(Path)
  <2>1. [i \in 1..Len(Order) |-> Order[i]] \in Seq(Path)
    BY <1>2, <1>3
  <2>. QED BY <1>4, <2>1
<1>6. Unique(Order)
  BY SelectionAssumption DEF Unique
<1>7. ASSUME NEW p \in Path PROVE p \in Seq(STRING) /\ p # <<>> /\ p[1] # "."
  BY <1>1, <1>2, <1>3, <1>7, SelectionAssumption, ElementOfSeq
<1>. QED BY <1>5, <1>6, <1>7 DEF Path

LEMMA SortedIs ==
  ASSUME NEW S
  PROVE  Sorted(S) \in Seq(Path) /\ ToSet(Sorted(S)) = Path \cap S /\ Unique(Sorted(S))
BY OrderIs, SelectType, SelectRange, SelectUnique DEF Sorted

LEMMA SortedSelect ==
  ASSUME NEW A, NEW B
  PROVE  Select(Sorted(A), B) = Sorted(A \cap B)
BY OrderIs, SelectTwice DEF Sorted

LEMMA SortedSame ==
  ASSUME NEW A, NEW B, \A p \in Path : p \in A <=> p \in B
  PROVE  Sorted(A) = Sorted(B)
BY OrderIs, SelectSame DEF Sorted

LEMMA SortedFilter ==
  ASSUME NEW A, NEW patterns
  PROVE  FilterInPlace(patterns, Sorted(A)) = Sorted({p \in A : ~Matches(patterns, p)})
<1>1. Sorted(A) \in Seq(Path)
  BY SortedIs
<1>2. FilterInPlace(patterns, Sorted(A)) = Select(Sorted(A), {p \in Path : ~Matches(patterns, p)})
  BY <1>1, FilterIs
<1>3. Select(Sorted(A), {p \in Path : ~Matches(patterns, p)}) = Sorted(A \cap {p \in Path : ~Matches(patterns, p)})
  BY SortedSelect
<1>4. Sorted(A \cap {p \in Path : ~Matches(patterns, p)}) = Sorted({p \in A : ~Matches(patterns, p)})
  BY SortedSame
<1>. QED BY <1>2, <1>3, <1>4

-----------------------------------------------------------------------------
(* What the options make of the tree                                       *)

\* Every argument is a file.
ArgsFine(s) == \A a \in ToSet(s.args) : a \notin NotAFile

CheckoutFor(s) ==
  [raw       |-> s.git.found # "yes",
   returnAll |-> s.allFiles /\ ~(s.args # <<>>),
   upstream  |-> UpstreamOf(s.git),
   specified |-> s.args # <<>>,
   named     |-> Normalize(s.tree, s.args),
   ignore    |-> IF s.args # <<>> THEN <<>> ELSE s.doc.ignore]

Named(s) == {s.tree.target[a] : a \in ToSet(s.args)}

\* What a listing has.
InListing(s, l, p) ==
  IF Named(s) # {} /\ l.kind = "affected" THEN p \in Named(s)
  ELSE /\ p \in IF s.git.found # "yes" THEN s.tree.files
                ELSE IF l.kind = "all" \/ (s.allFiles /\ Named(s) = {}) THEN s.tree.files \ s.tree.ignored
                ELSE s.tree.changed[UpstreamOf(s.git)]
       /\ l.includeSymlinks \/ s.tree.target[p] = p
       /\ Named(s) = {} => ~Matches(s.doc.ignore, p)

LEMMA SetupTypes ==
  ASSUME NEW s \in Setup
  PROVE  /\ s.tree \in Tree /\ s.args \in Seq(Path \cup NotAFile) /\ s.doc.ignore \in Seq(Pattern)
         /\ s.allFiles \in BOOLEAN /\ s.recurse \in BOOLEAN /\ s.filter \in Filter
         /\ s.scripts \in [Directory -> Script]
         /\ UpstreamOf(s.git) \in Ref
<1>1. /\ s.tree \in Tree /\ s.args \in Seq(Path \cup NotAFile)
      /\ s.allFiles \in BOOLEAN /\ s.recurse \in BOOLEAN /\ s.filter \in Filter
      /\ s.scripts \in [Directory -> Script]
      /\ s.doc \in Document
  BY DEF Setup
<1>2. s.doc.ignore \in Seq(Pattern)
  BY <1>1 DEF Document, DocumentOver, Pattern
<1>3. UpstreamOf(s.git) \in Ref
  BY DEF UpstreamOf, Ref
<1>. QED BY <1>1, <1>2, <1>3

\* No argument, no file named.
LEMMA NamedIs ==
  ASSUME NEW s \in Setup, ArgsFine(s)
  PROVE  /\ s.args = <<>> <=> Named(s) = {}
         /\ Named(s) \subseteq Path
         /\ Normalize(s.tree, s.args) = Sorted(Named(s))
<1>1. /\ s.args \in Seq(Path \cup NotAFile)
      /\ s.tree.target \in [Path -> Path]
  BY SetupTypes DEF Tree
<1>. DEFINE as == s.args
            m == Len(as)
            t == [i \in DOMAIN as |-> s.tree.target[as[i]]]
<1>2. DOMAIN as = 1..m /\ m \in Nat /\ (as = <<>> <=> m = 0)
  BY <1>1, LenProperties, EmptySeq
<1>3. \A i \in 1..m : as[i] \in ToSet(as) /\ as[i] \in Path
  <2>1. \A i \in 1..m : as[i] \in Path \cup NotAFile
    BY <1>1, ElementOfSeq
  <2>2. \A i \in 1..m : as[i] \in ToSet(as)
    BY <1>2 DEF ToSet
  <2>. QED BY <2>1, <2>2 DEF ArgsFine
<1>4. t \in [1..m -> Path] /\ \A i \in 1..m : t[i] = s.tree.target[as[i]]
  BY <1>1, <1>2, <1>3
<1>5. ToSet(as) = {as[i] : i \in 1..m}
  BY <1>2 DEF ToSet
<1>. HIDE DEF as, m, t
<1>6. Named(s) = {s.tree.target[as[i]] : i \in 1..m}
  BY <1>5 DEF Named, as
<1>7. ToSet(t) = Named(s)
  BY <1>4, <1>6 DEF ToSet
<1>8. as = <<>> <=> Named(s) = {}
  <2>1. CASE m = 0
    BY <1>2, <1>6, <2>1
  <2>2. CASE m # 0
    <3>1. 1 \in 1..m
      BY <1>2, <2>2
    <3>2. s.tree.target[as[1]] \in Named(s)
      BY <1>6, <3>1
    <3>. QED BY <1>2, <2>2, <3>2
  <2>. QED BY <2>1, <2>2
<1>9. Named(s) \subseteq Path
  BY <1>1, <1>3, <1>6
<1>10. t \in [1..m -> ToSet(Order)]
  BY <1>4 DEF Path
<1>11. Compact(Sort(t)) = Sorted(ToSet(t))
  BY <1>2, <1>10, OrderIs, SortCompact
<1>12. Normalize(s.tree, as) = Compact(Sort(t))
  BY DEF Normalize, t
<1>. QED BY <1>7, <1>8, <1>9, <1>11, <1>12 DEF as

\* Without patterns, nothing matches.
LEMMA MatchesNothing ==
  ASSUME NEW p
  PROVE  ~Matches(<<>>, p)
BY DEF Matches

\* cachingSCM wraps a list of what is in the listing, in order.
LEMMA WrappedIs ==
  ASSUME NEW s \in Setup, ArgsFine(s), NEW l
  PROVE  Wrapped(s.tree, CheckoutFor(s), l) = Sorted({p \in Path : InListing(s, l, p)})
<1>. DEFINE c == CheckoutFor(s)
            found == IF c.raw THEN s.tree.files
                     ELSE IF l.kind = "all" \/ c.returnAll THEN s.tree.files \ s.tree.ignored
                     ELSE s.tree.changed[c.upstream]
            base == {p \in found : l.includeSymlinks \/ s.tree.target[p] = p}
            I == {p \in Path : InListing(s, l, p)}
<1>1. /\ c.raw = (s.git.found # "yes") /\ c.returnAll = (s.allFiles /\ ~(s.args # <<>>))
      /\ c.upstream = UpstreamOf(s.git) /\ c.specified = (s.args # <<>>) /\ c.named = Normalize(s.tree, s.args)
      /\ c.ignore = (IF s.args # <<>> THEN <<>> ELSE s.doc.ignore)
  BY DEF CheckoutFor
<1>2. BaseFiles(s.tree, c, l) = Sorted(base)
  BY DEF BaseFiles
<1>. HIDE DEF c
<1>3. CASE s.args # <<>>
  <2>1. Named(s) # {} /\ c.named = Sorted(Named(s)) /\ c.specified
    BY <1>1, <1>3, NamedIs
  <2>2. CASE l.kind = "affected"
    <3>1. Wrapped(s.tree, c, l) = Sorted(Named(s))
      BY <2>1, <2>2 DEF Wrapped
    <3>2. Sorted(Named(s)) = Sorted(I)
      <4>1. \A p \in Path : p \in Named(s) <=> p \in I
        BY <2>1, <2>2 DEF InListing
      <4>. HIDE DEF I
      <4>. QED BY <4>1, SortedSame
    <3>. QED BY <3>1, <3>2 DEF c
  <2>3. CASE l.kind # "affected"
    <3>1. Wrapped(s.tree, c, l) = Sorted(base)
      BY <1>2, <2>1, <2>3 DEF Wrapped
    <3>2. \A p \in Path : p \in base <=> p \in I
      BY <1>1, <1>3, <2>1, <2>3 DEF InListing
    <3>3. Sorted(base) = Sorted(I)
      <4>. HIDE DEF I, base
      <4>. QED BY <3>2, SortedSame
    <3>. QED BY <3>1, <3>3 DEF c
  <2>. QED BY <2>2, <2>3
<1>4. CASE s.args = <<>>
  <2>1. Named(s) = {} /\ ~c.specified /\ c.ignore = s.doc.ignore
    BY <1>1, <1>4, NamedIs
  <2>. DEFINE kept == {p \in base : ~Matches(c.ignore, p)}
  <2>2. \A p \in Path : p \in kept <=> p \in I
    BY <1>1, <1>4, <2>1 DEF InListing
  <2>3. Sorted(kept) = Sorted(I)
    <3>. HIDE DEF I, kept
    <3>. QED BY <2>2, SortedSame
  <2>4. Wrapped(s.tree, c, l) = Sorted(kept)
    <3>1. CASE c.ignore = <<>>
      <4>1. Wrapped(s.tree, c, l) = Sorted(base)
        BY <1>2, <2>1, <3>1 DEF Wrapped
      <4>2. \A p \in Path : p \in base <=> p \in kept
        BY <3>1, MatchesNothing
      <4>. HIDE DEF base, kept
      <4>3. Sorted(base) = Sorted(kept)
        BY <4>2, SortedSame
      <4>. QED BY <4>1, <4>3
    <3>2. CASE c.ignore # <<>>
      <4>1. Wrapped(s.tree, c, l) = FilterInPlace(c.ignore, Sorted(base))
        BY <1>2, <2>1, <3>2 DEF Wrapped
      <4>. HIDE DEF base
      <4>. QED BY <4>1, SortedFilter
    <3>. QED BY <3>1, <3>2
  <2>. QED BY <2>3, <2>4 DEF c
<1>. QED BY <1>3, <1>4

-----------------------------------------------------------------------------
(* What a check is shown                                                   *)

\* Of a sorted list, what is below the directory and selected by the glob.
Below(dir, glob, p) ==
  IsPrefix(Normalized(dir), p) /\ (glob # <<>> => Matches(GlobPatterns(glob), p))

\* Paths without those of their components that lead to the directory.
Relative(dir, s) == [i \in DOMAIN s |-> SubSeq(s[i], Len(Normalized(dir)) + 1, Len(s[i]))]

LEMMA ShownIs ==
  ASSUME NEW dir, NEW glob, NEW A
  PROVE  Shown(dir, glob, Sorted(A)) = Relative(dir, Sorted({p \in A : Below(dir, glob, p)}))
<1>. DEFINE prefix == Normalized(dir)
            paths  == Sorted({p \in A : Below(dir, glob, p)})
            P == {p \in Path : IsPrefix(prefix, p)}
            G == {p \in Path : Matches(GlobPatterns(glob), p)}
            inside == FilterByGlob(glob, Select(Sorted(A), P))
<1>1. Select(Sorted(A), P) = Sorted(A \cap P)
  BY SortedSelect
<1>2. inside = paths
  <2>1. CASE glob = <<>>
    <3>1. inside = Sorted(A \cap P)
      BY <1>1, <2>1 DEF FilterByGlob
    <3>2. \A p \in Path : p \in A \cap P <=> p \in {q \in A : Below(dir, glob, q)}
      BY <2>1 DEF Below
    <3>3. Sorted(A \cap P) = paths
      BY <3>2, SortedSame
    <3>. QED BY <3>1, <3>3
  <2>2. CASE glob # <<>>
    <3>1. inside = Select(Sorted(A \cap P), G)
      BY <1>1, <2>2 DEF FilterByGlob
    <3>2. Select(Sorted(A \cap P), G) = Sorted((A \cap P) \cap G)
      BY SortedSelect
    <3>3. \A p \in Path : p \in (A \cap P) \cap G <=> p \in {q \in A : Below(dir, glob, q)}
      BY <2>2 DEF Below
    <3>4. Sorted((A \cap P) \cap G) = paths
      BY <3>3, SortedSame
    <3>. QED BY <3>1, <3>2, <3>4
  <2>. QED BY <2>1, <2>2
<1>3. Shown(dir, glob, Sorted(A)) = Relative(dir, inside)
  BY DEF Shown, Relative
<1>. HIDE DEF inside, paths
<1>4. Shown(dir, glob, Sorted(A)) = Relative(dir, paths)
  BY <1>2, <1>3
<1>. QED BY <1>4 DEF paths

\* What a check asks for, it is shown.
LEMMA ShownAsWanted ==
  ASSUME setup \in Setup, doc = setup.doc, ArgsFine(setup), NEW dir, NEW q
  PROVE  Shown(dir, q.glob, Wrapped(tree, CheckoutFor(setup), q.listing)) = Wanted(dir, q)
<1>. DEFINE A == {p \in Path : InListing(setup, q.listing, p)}
            prefix == Normalized(dir)
            B == {p \in A : Below(dir, q.glob, p)}
            paths == Sorted(B)
            named == {tree.target[a] : a \in ToSet(setup.args)}
            candidates == IF setup.git.found # "yes" THEN tree.files
                    ELSE IF q.listing.kind = "all" \/ (setup.allFiles /\ named = {})
                      THEN tree.files \ tree.ignored
                    ELSE tree.changed[UpstreamOf(setup.git)]
            listed(p) == IF named # {} /\ q.listing.kind = "affected" THEN p \in named
                    ELSE /\ p \in candidates
                         /\ q.listing.includeSymlinks \/ tree.target[p] = p
                         /\ named = {} => ~Matches(doc.ignore, p)
            globbed(p) == q.glob # <<>> => Matches(GlobPatterns(q.glob), p)
            W == {p \in Path : IsPrefix(prefix, p) /\ listed(p) /\ globbed(p)}
            wanted == Sorted(W)
<1>1. Wrapped(tree, CheckoutFor(setup), q.listing) = Sorted(A)
  BY WrappedIs DEF tree
<1>2. Shown(dir, q.glob, Sorted(A)) = Relative(dir, paths)
  <2>. HIDE DEF A
  <2>. QED BY ShownIs
<1>3. \A p \in Path : p \in B <=> p \in W
  <2>1. \A p \in Path : listed(p) <=> InListing(setup, q.listing, p)
    BY DEF InListing, Named, tree
  <2>. HIDE DEF listed
  <2>. QED BY <2>1 DEF Below
<1>4. paths = wanted
  <2>. HIDE DEF B, W
  <2>. QED BY <1>3, SortedSame
<1>5. Wanted(dir, q) = Relative(dir, wanted)
  BY DEF Wanted, Relative
<1>. HIDE DEF A, paths, wanted
<1>. QED BY <1>1, <1>2, <1>4, <1>5

-----------------------------------------------------------------------------
(* Where the shac.star files are                                           *)

Dirs == {Dir(p) : p \in Path}

\* A directory has one shac.star.
LEMMA OneEntry ==
  ASSUME NEW p \in Path, NEW q \in Path, IsEntry(p), IsEntry(q), Dir(p) = Dir(q)
  PROVE  p = q
<1>1. /\ p \in Seq(STRING) /\ p # <<>> /\ p[1] # "." /\ p[Len(p)] = EntryPoint
      /\ q \in Seq(STRING) /\ q # <<>> /\ q[1] # "." /\ q[Len(q)] = EntryPoint
  BY OrderIs DEF IsEntry, Last
<1>2. ASSUME NEW s \in Seq(STRING), s # <<>>
      PROVE  /\ Len(s) \in Nat \ {0}
             /\ Len(s) # 1 => /\ Dir(s) \in Seq(STRING) /\ Len(Dir(s)) = Len(s) - 1
                              /\ \A i \in 1..Len(s) - 1 : Dir(s)[i] = s[i]
             /\ Len(s) = 1 => Dir(s) = <<".">>
  <2>1. Len(s) \in Nat \ {0}
    BY <1>2, EmptySeq
  <2>2. Len(s) # 1 => Dir(s) = SubSeq(s, 1, Len(s) - 1)
    BY DEF Dir, Front
  <2>3. /\ SubSeq(s, 1, Len(s) - 1) \in Seq(STRING) /\ Len(SubSeq(s, 1, Len(s) - 1)) = Len(s) - 1
        /\ \A i \in 1..Len(s) - 1 : SubSeq(s, 1, Len(s) - 1)[i] = s[i]
    <3>. DEFINE n == Len(s)
    <3>1. n \in Nat \ {0} /\ n - 1 \in Int /\ 1 \in Int /\ \A i \in 1..(n - 1) : s[i] \in STRING
      BY <2>1, ElementOfSeq
    <3>. HIDE DEF n
    <3>2. /\ SubSeq(s, 1, n - 1) \in Seq(STRING)
          /\ Len(SubSeq(s, 1, n - 1)) = IF 1 <= n - 1 THEN (n - 1) - 1 + 1 ELSE 0
          /\ \A i \in 1..((n - 1) - 1 + 1) : SubSeq(s, 1, n - 1)[i] = s[1 + i - 1]
      BY <3>1, SubSeqProperties
    <3>3. /\ SubSeq(s, 1, n - 1) \in Seq(STRING) /\ Len(SubSeq(s, 1, n - 1)) = n - 1
          /\ \A i \in 1..n - 1 : SubSeq(s, 1, n - 1)[i] = s[i]
      BY <3>1, <3>2
    <3>. QED BY <3>3 DEF n
  <2>4. Len(s) = 1 => Dir(s) = <<".">>
    BY DEF Dir
  <2>. QED BY <2>1, <2>2, <2>3, <2>4
<1>3. ASSUME NEW s \in Seq(STRING), s # <<>>, s[1] # ".", Len(s) # 1 PROVE Dir(s) # <<".">>
  <2>1. 1 \in 1..Len(s) - 1
    <3>1. Len(s) \in Nat \ {0}
      BY <1>2, <1>3
    <3>. QED BY <1>3, <3>1
  <2>2. Dir(s)[1] = s[1]
    BY <1>2, <1>3, <2>1
  <2>. QED BY <1>3, <2>2
<1>4. Len(p) = 1 <=> Len(q) = 1
  BY <1>1, <1>2, <1>3
<1>5. Len(p) = Len(q)
  BY <1>1, <1>2, <1>4
<1>6. \A i \in 1..Len(p) : p[i] = q[i]
  <2>. DEFINE n == Len(p)
  <2>1. n \in Nat \ {0} /\ p[n] = q[n]
    BY <1>1, <1>2, <1>5
  <2>2. n # 1 => \A i \in 1..n - 1 : p[i] = q[i]
    BY <1>1, <1>2, <1>5
  <2>. HIDE DEF n
  <2>3. \A i \in 1..n : p[i] = q[i]
    BY <2>1, <2>2
  <2>. QED BY <2>3 DEF n
<1>. QED BY <1>1, <1>5, <1>6, SeqEqual

LEMMA RootsAmongIs ==
  ASSUME NEW A
  PROVE  /\ RootsAmong(Sorted(A)) \in Seq(Dirs)
         /\ ToSet(RootsAmong(Sorted(A))) = {Dir(p) : p \in {p \in Path \cap A : IsEntry(p)}}
         /\ ~HasDuplicates(RootsAmong(Sorted(A)))
<1>. DEFINE E == {p \in Path : IsEntry(p)}
            found == Sorted(A \cap E)
            n == Len(found)
            r == [i \in DOMAIN found |-> Dir(found[i])]
<1>1. Select(Sorted(A), E) = found
  BY SortedSelect
<1>2. RootsAmong(Sorted(A)) = r
  BY <1>1 DEF RootsAmong
<1>3. found \in Seq(Path) /\ ToSet(found) = Path \cap (A \cap E) /\ Unique(found)
  BY SortedIs
<1>. HIDE DEF found
<1>4. n \in Nat /\ DOMAIN found = 1..n /\ \A i \in 1..n : found[i] \in Path
  BY <1>3, LenProperties, ElementOfSeq
<1>5. r = [i \in 1..n |-> Dir(found[i])]
  BY <1>4
<1>6. DOMAIN r = 1..n /\ \A i \in 1..n : r[i] = Dir(found[i])
  BY <1>5
<1>7. r \in Seq(Dirs)
  BY <1>4, <1>5 DEF Dirs
<1>. HIDE DEF r, n
<1>8. \A i \in 1..n : found[i] \in ToSet(found)
  BY <1>4 DEF ToSet
<1>9. ToSet(r) = {Dir(p) : p \in ToSet(found)}
  BY <1>4, <1>6 DEF ToSet
<1>10. ASSUME NEW i \in 1..n, NEW j \in 1..n, r[i] = r[j] PROVE i = j
  <2>1. IsEntry(found[i]) /\ IsEntry(found[j]) /\ Dir(found[i]) = Dir(found[j])
    BY <1>3, <1>6, <1>8, <1>10
  <2>2. found[i] = found[j]
    BY <1>4, <2>1, OneEntry
  <2>. QED BY <1>3, <1>4, <2>2 DEF Unique
<1>11. ~HasDuplicates(r)
  BY <1>6, <1>10 DEF HasDuplicates
<1>12. ToSet(found) = {p \in Path \cap A : IsEntry(p)}
  BY <1>3
<1>. QED BY <1>2, <1>7, <1>9, <1>11, <1>12

RootsFor(s) ==
  IF s.recurse THEN RootsAmong(Wrapped(s.tree, CheckoutFor(s), Everything))
  ELSE IF <<EntryPoint>> \in s.tree.files THEN << <<".">> >> ELSE <<>>

\* The shac.star files that are to be run.
EntriesFor(s) ==
  {p \in s.tree.files :
     /\ IsEntry(p)
     /\ s.recurse \/ Len(p) = 1
     /\ s.recurse => /\ s.git.found = "yes" => p \notin s.tree.ignored
                     /\ s.args = <<>> => ~Matches(s.doc.ignore, p)}

LEMMA RootsForIs ==
  ASSUME NEW s \in Setup, ArgsFine(s)
  PROVE  /\ RootsFor(s) \in Seq(Dirs)
         /\ ToSet(RootsFor(s)) = {Dir(p) : p \in EntriesFor(s)}
         /\ ~HasDuplicates(RootsFor(s))
<1>1. s.tree.files \subseteq Path /\ s.recurse \in BOOLEAN
  BY SetupTypes DEF Tree
<1>2. CASE s.recurse
  <2>. DEFINE A == {p \in Path : InListing(s, Everything, p)}
  <2>1. RootsFor(s) = RootsAmong(Sorted(A))
    BY <1>2, WrappedIs DEF RootsFor
  <2>2. Everything.kind = "all" /\ Everything.includeSymlinks
    BY DEF Everything
  <2>3. s.args = <<>> <=> Named(s) = {}
    BY NamedIs
  <2>4. {p \in Path \cap A : IsEntry(p)} = EntriesFor(s)
    BY <1>1, <1>2, <2>2, <2>3 DEF InListing, EntriesFor
  <2>. HIDE DEF A
  <2>. QED BY <2>1, <2>4, RootsAmongIs
<1>3. CASE ~s.recurse
  <2>1. ASSUME NEW p \in Path PROVE IsEntry(p) /\ Len(p) = 1 <=> p = <<EntryPoint>>
    <3>1. p \in Seq(STRING)
      BY OrderIs
    <3>. QED BY <3>1 DEF IsEntry, Last
  <2>2. EntriesFor(s) = {p \in s.tree.files : p = <<EntryPoint>>}
    BY <1>1, <1>3, <2>1 DEF EntriesFor
  <2>3. Dir(<<EntryPoint>>) = <<".">>
    BY DEF Dir
  <2>4. CASE <<EntryPoint>> \in s.tree.files
    <3>. DEFINE e == <<EntryPoint>>
                d == <<".">>
    <3>1. RootsFor(s) = <<d>> /\ EntriesFor(s) = {e} /\ e \in Path /\ Dir(e) = d
      BY <1>1, <1>3, <2>2, <2>3, <2>4 DEF RootsFor
    <3>. HIDE DEF e, d
    <3>2. d \in Dirs
      BY <3>1 DEF Dirs
    <3>3. <<d>> \in Seq(Dirs) /\ DOMAIN <<d>> = 1..1 /\ <<d>>[1] = d
      BY <3>2
    <3>4. ToSet(<<d>>) = {d} /\ ~HasDuplicates(<<d>>)
      BY <3>3 DEF ToSet, HasDuplicates
    <3>. QED BY <3>1, <3>3, <3>4
  <2>5. CASE <<EntryPoint>> \notin s.tree.files
    <3>1. RootsFor(s) = <<>> /\ EntriesFor(s) = {}
      BY <1>3, <2>2, <2>5 DEF RootsFor
    <3>2. <<>> \in Seq(Dirs) /\ ToSet(<<>>) = {} /\ ~HasDuplicates(<<>>)
      BY DEF ToSet, HasDuplicates
    <3>. QED BY <3>1, <3>2
  <2>. QED BY <2>4, <2>5
<1>. QED BY <1>1, <1>2, <1>3

-----------------------------------------------------------------------------
(* What runInner has chosen                                                *)

ChecksFor(s) ==
  [i \in DOMAIN RootsFor(s) |-> Kept(s.filter, s.scripts[Normalized(RootsFor(s)[i])].checks)]

\* The source control is set up, from arguments that are files.
Chose == ArgsFine(setup) /\ scm = CheckoutFor(setup)

ScmInv ==
  /\ scm = NoCheckout \/ Chose
  /\ stage \in {"packages"} \cup Loading => Chose

\* What cachingSCM remembers is what it would get.
MemoInv ==
  /\ memo = [l \in DOMAIN memo |-> Wrapped(tree, scm, l)]
  /\ DOMAIN memo # {} => Chose /\ stage \in Loading \cup {"over"}

RootsInv ==
  /\ roots = <<>> \/ (Chose /\ roots = RootsFor(setup))
  /\ stage \in {"parse", "filter", "run"} => roots = RootsFor(setup)

ChosenInv ==
  /\ chosen = <<>> \/ (Chose /\ roots = RootsFor(setup) /\ chosen = ChecksFor(setup))
  /\ stage = "run" => chosen = ChecksFor(setup) /\ SelectError = ""

ShownInv ==
  \A k \in DOMAIN shown :
    /\ Chose /\ roots = RootsFor(setup)
    /\ k \in (DOMAIN roots) \X setup.queries
    /\ shown[k].ok => shown[k].files = Shown(roots[k[1]], k[2].glob, Wrapped(tree, scm, k[2].listing))

NamesFun == names = [n \in DOMAIN names |-> names[n]]

ChoiceInv == ScmInv /\ MemoInv /\ RootsInv /\ ChosenInv /\ ShownInv /\ NamesFun

LEMMA ChoiceStarts == Init => ChoiceInv
<1>. SUFFICES ASSUME Init PROVE ChoiceInv
  OBVIOUS
<1>1. /\ stage = "root" /\ scm = NoCheckout /\ memo = <<>> /\ roots = <<>> /\ chosen = <<>>
      /\ shown = <<>> /\ names = [n \in {<<"__main__">>} |-> 0]
  BY DEF Init, PkgInit
<1>2. ScmInv /\ RootsInv /\ ChosenInv
  BY <1>1 DEF ScmInv, RootsInv, ChosenInv, Loading
<1>3. MemoInv /\ ShownInv
  <2>1. DOMAIN memo = {} /\ DOMAIN shown = {}
    BY <1>1
  <2>2. memo = [l \in {} |-> Wrapped(tree, scm, l)]
    BY <1>1
  <2>. QED BY <2>1, <2>2 DEF MemoInv, ShownInv
<1>4. NamesFun
  BY <1>1 DEF NamesFun
<1>. QED BY <1>2, <1>3, <1>4 DEF ChoiceInv

\* A stage that chooses nothing.
LEMMA ChoiceKept ==
  ASSUME ChoiceInv, UNCHANGED <<setup, scm, memo, roots, chosen, shown>>, NamesFun',
         \/ stage' = stage
         \/ stage' = "over" 
         \/ stage \in {"root", "config"} /\ stage' \in {"config", "scm"}
         \/ stage = "packages" /\ stage' = "discover"
         \/ stage = "parse" /\ stage' = "filter"
  PROVE  ChoiceInv'
<1>1. Chose' <=> Chose
  BY DEF Chose
<1>2. ScmInv'
  BY <1>1 DEF ChoiceInv, ScmInv, Loading
<1>3. MemoInv'
  BY <1>1 DEF ChoiceInv, MemoInv, Loading, tree
<1>4. RootsInv'
  BY <1>1 DEF ChoiceInv, RootsInv
<1>5. SelectError' = SelectError
  BY DEF SelectError, Registered, ScriptOf, AfterFilter
<1>6. ChosenInv'
  BY <1>1, <1>5 DEF ChoiceInv, ChosenInv
<1>7. ShownInv'
  BY <1>1 DEF ChoiceInv, ShownInv, tree
<1>. QED BY <1>2, <1>3, <1>4, <1>6, <1>7 DEF ChoiceInv

LEMMA ScmChosen == StartInv /\ ChoiceInv /\ ChooseScm => ChoiceInv'
<1>. SUFFICES ASSUME StartInv, ChoiceInv, ChooseScm PROVE ChoiceInv'
  OBVIOUS
<1>1. /\ stage = "scm" /\ UNCHANGED <<setup, memo, roots, chosen, shown, names>>
      /\ Proceed(ScmError, "packages")
  BY DEF ChooseScm, pkgVars
<1>2. doc = setup.doc
  BY DEF StartInv, StartTypes
<1>3. CASE ScmError # ""
  <2>1. stage' = "over" /\ scm' = scm
    BY <1>1, <1>3 DEF ChooseScm, Proceed
  <2>2. NamesFun'
    BY <1>1 DEF ChoiceInv, NamesFun
  <2>. QED BY <1>1, <2>1, <2>2, ChoiceKept
<1>4. CASE ScmError = ""
  <2>1. stage' = "packages"
    BY <1>1, <1>4 DEF Proceed
  <2>2. scm' = CheckoutFor(setup)
    BY <1>2, <1>4 DEF ChooseScm, CheckoutFor, tree
  <2>3. ArgsFine(setup)
    BY <1>4 DEF ScmError, ArgsFine
  <2>4. Chose' /\ setup' = setup
    BY <1>1, <2>2, <2>3 DEF Chose
  <2>5. ScmInv'
    BY <2>4 DEF ScmInv
  <2>6. DOMAIN memo = {} /\ memo = [l \in DOMAIN memo |-> Wrapped(tree, scm, l)]
    BY <1>1 DEF ChoiceInv, MemoInv, Loading
  <2>7. MemoInv'
    <3>1. memo' = [l \in DOMAIN memo' |-> Wrapped(tree, scm, l)'] /\ DOMAIN memo' = {}
      BY <1>1, <2>6
    <3>. QED BY <3>1 DEF MemoInv
  <2>8. RootsInv'
    BY <1>1, <2>1, <2>4 DEF ChoiceInv, RootsInv
  <2>9. ChosenInv'
    BY <1>1, <2>1, <2>4 DEF ChoiceInv, ChosenInv
  <2>10. ASSUME NEW k \in DOMAIN shown
         PROVE  /\ Chose /\ roots = RootsFor(setup)
                /\ k \in (DOMAIN roots) \X setup.queries
                /\ shown[k].ok => shown[k].files = Shown(roots[k[1]], k[2].glob, Wrapped(tree, scm, k[2].listing))
    BY <2>10 DEF ChoiceInv, ShownInv
  <2>11. DOMAIN shown # {} => scm' = scm
    BY <2>2, <2>10 DEF Chose
  <2>12. ShownInv'
    BY <1>1, <2>4, <2>10, <2>11 DEF ShownInv, tree
  <2>13. NamesFun'
    BY <1>1 DEF ChoiceInv, NamesFun
  <2>. QED BY <2>5, <2>7, <2>8, <2>9, <2>12, <2>13 DEF ChoiceInv
<1>. QED BY <1>3, <1>4

\* What cachingSCM answers, and what it remembers then.
LEMMA CachedIs ==
  ASSUME MemoInv, NEW l
  PROVE  /\ Cached(l) = Wrapped(tree, scm, l)
         /\ Remember(l) = [k \in DOMAIN memo \cup {l} |-> Wrapped(tree, scm, k)]
         /\ DOMAIN Remember(l) = DOMAIN memo \cup {l}
<1>1. Cached(l) = Wrapped(tree, scm, l)
  BY DEF Cached, MemoInv
<1>2. \A k \in DOMAIN memo : memo[k] = Wrapped(tree, scm, k)
  BY DEF MemoInv
<1>. QED BY <1>1, <1>2 DEF Remember

LEMMA MemoKept ==
  ASSUME MemoInv, NEW l, memo' = Remember(l), UNCHANGED <<setup, scm>>, Chose,
         stage' \in Loading \cup {"over"}
  PROVE  MemoInv'
<1>1. /\ memo' = [k \in DOMAIN memo \cup {l} |-> Wrapped(tree, scm, k)]
      /\ DOMAIN memo' = DOMAIN memo \cup {l}
  BY CachedIs
<1>2. memo' = [k \in DOMAIN memo' |-> Wrapped(tree, scm, k)']
  BY <1>1 DEF tree
<1>3. Chose'
  BY DEF Chose
<1>. QED BY <1>2, <1>3 DEF MemoInv

LEMMA RootsChosen == StartInv /\ ChoiceInv /\ Discover => ChoiceInv'
<1>. SUFFICES ASSUME StartInv, ChoiceInv, Discover PROVE ChoiceInv'
  OBVIOUS
<1>1. stage = "discover" /\ UNCHANGED <<setup, scm, chosen, shown, names>>
  BY DEF Discover, pkgVars
<1>2. Chose /\ MemoInv
  BY <1>1 DEF ChoiceInv, ScmInv, Loading
<1>3. roots' = RootsFor(setup) /\ stage' \in {"parse", "over"}
  <2>1. CASE setup.recurse
    <3>1. Enter(RootsAmong(Cached(Everything)))
      BY <2>1 DEF Discover
    <3>2. Cached(Everything) = Wrapped(setup.tree, CheckoutFor(setup), Everything)
      BY <1>2, CachedIs DEF Chose, tree
    <3>. QED BY <2>1, <3>1, <3>2 DEF Enter, Proceed, RootsFor
  <2>2. CASE ~setup.recurse
    <3>1. Enter(IF <<EntryPoint>> \in tree.files THEN << <<".">> >> ELSE <<>>)
      BY <2>2 DEF Discover
    <3>. QED BY <2>2, <3>1 DEF Enter, Proceed, RootsFor, tree
  <2>. QED BY <2>1, <2>2
<1>4. Chose' /\ setup' = setup
  BY <1>1, <1>2 DEF Chose
<1>5. ScmInv'
  BY <1>4 DEF ScmInv
<1>6. MemoInv'
  <2>1. CASE setup.recurse
    <3>1. memo' = Remember(Everything)
      BY <2>1 DEF Discover
    <3>. QED BY <1>1, <1>2, <1>3, <3>1, MemoKept DEF Loading
  <2>2. CASE ~setup.recurse
    <3>1. memo' = memo
      BY <2>2 DEF Discover
    <3>2. memo' = [l \in DOMAIN memo' |-> Wrapped(tree, scm, l)']
      BY <1>1, <1>2, <3>1 DEF MemoInv, tree
    <3>. QED BY <1>3, <1>4, <3>2 DEF MemoInv, Loading
  <2>. QED BY <2>1, <2>2
<1>7. RootsInv'
  BY <1>3, <1>4 DEF RootsInv
<1>8. ChosenInv'
  BY <1>1, <1>3, <1>4 DEF ChoiceInv, ChosenInv
<1>9. ASSUME NEW k \in DOMAIN shown
      PROVE  /\ roots = RootsFor(setup)
             /\ k \in (DOMAIN roots) \X setup.queries
             /\ shown[k].ok => shown[k].files = Shown(roots[k[1]], k[2].glob, Wrapped(tree, scm, k[2].listing))
  BY <1>9 DEF ChoiceInv, ShownInv
<1>10. DOMAIN shown # {} => roots' = roots
  BY <1>3, <1>9
<1>11. ShownInv'
  BY <1>1, <1>3, <1>4, <1>9, <1>10 DEF ShownInv, tree
<1>12. NamesFun'
  BY <1>1 DEF ChoiceInv, NamesFun
<1>. QED BY <1>5, <1>6, <1>7, <1>8, <1>11, <1>12 DEF ChoiceInv

LEMMA ChecksChosen == StartInv /\ ChoiceInv /\ FilterChecks => ChoiceInv'
<1>. SUFFICES ASSUME StartInv, ChoiceInv, FilterChecks PROVE ChoiceInv'
  OBVIOUS
<1>1. /\ stage = "filter" /\ UNCHANGED <<setup, scm, memo, roots, shown, names>>
      /\ chosen' = AfterFilter /\ Proceed(SelectError, "run")
  BY DEF FilterChecks, pkgVars
<1>2. Chose /\ roots = RootsFor(setup)
  BY <1>1 DEF ChoiceInv, ScmInv, RootsInv, Loading
<1>3. chosen' = ChecksFor(setup)
  BY <1>1, <1>2 DEF AfterFilter, ChecksFor, ScriptOf
<1>4. Chose' /\ setup' = setup
  BY <1>1, <1>2 DEF Chose
<1>5. stage' \in {"run", "over"} /\ (stage' = "run" => SelectError = "")
  BY <1>1 DEF Proceed
<1>6. SelectError' = SelectError
  BY <1>1 DEF SelectError, Registered, ScriptOf, AfterFilter
<1>7. ScmInv'
  BY <1>4 DEF ScmInv
<1>8. MemoInv'
  BY <1>1, <1>4, <1>5 DEF ChoiceInv, MemoInv, tree, Loading
<1>9. RootsInv'
  BY <1>1, <1>2, <1>4 DEF RootsInv
<1>10. ChosenInv'
  BY <1>1, <1>2, <1>3, <1>4, <1>5, <1>6 DEF ChosenInv
<1>11. ShownInv'
  BY <1>1, <1>4 DEF ChoiceInv, ShownInv, tree
<1>12. NamesFun'
  BY <1>1 DEF ChoiceInv, NamesFun
<1>. QED BY <1>7, <1>8, <1>9, <1>10, <1>11, <1>12 DEF ChoiceInv

LEMMA FilesShown ==
  ASSUME StartInv, ChoiceInv, NEW i \in DOMAIN roots, NEW q \in setup.queries, List(i, q)
  PROVE  ChoiceInv'
<1>1. /\ stage = "run" /\ UNCHANGED <<setup, stage, scm, roots, chosen, names>>
      /\ memo' = Remember(q.listing)
  BY DEF List, pkgVars
<1>2. Chose /\ roots = RootsFor(setup) /\ MemoInv /\ ShownInv
  BY <1>1 DEF ChoiceInv, ScmInv, RootsInv, Loading
<1>3. Chose' /\ setup' = setup
  BY <1>1, <1>2 DEF Chose
<1>4. MemoInv'
  BY <1>1, <1>2, MemoKept DEF Loading
<1>5. ScmInv' /\ RootsInv'
  BY <1>1, <1>2, <1>3 DEF ScmInv, RootsInv
<1>6. ChosenInv'
  <2>1. SelectError' = SelectError
    BY <1>1 DEF SelectError, Registered, ScriptOf, AfterFilter
  <2>. QED BY <1>1, <1>3, <2>1 DEF ChoiceInv, ChosenInv
<1>7. ShownInv'
  <2>. DEFINE answer == IF \E p \in ToSet(q.glob) : p.empty THEN [ok |-> FALSE, files |-> <<>>]
                        ELSE [ok |-> TRUE, files |-> Shown(roots[i], q.glob, Cached(q.listing))]
              a == <<i, q>>
  <2>1. shown' = [k \in DOMAIN shown \cup {a} |-> IF k = a THEN answer ELSE shown[k]]
    BY DEF List
  <2>2. answer.ok => answer.files = Shown(roots[i], q.glob, Wrapped(tree, scm, q.listing))
    <3>1. Cached(q.listing) = Wrapped(tree, scm, q.listing)
      BY <1>2, CachedIs
    <3>. QED BY <3>1
  <2>3. a \in (DOMAIN roots) \X setup.queries /\ a[1] = i /\ a[2] = q
    OBVIOUS
  <2>. HIDE DEF answer, a
  <2>4. ASSUME NEW k \in DOMAIN shown'
        PROVE  /\ k \in (DOMAIN roots) \X setup.queries
               /\ shown'[k].ok => shown'[k].files = Shown(roots[k[1]], k[2].glob, Wrapped(tree, scm, k[2].listing))
    <3>1. CASE k = a
      BY <2>1, <2>2, <2>3, <3>1
    <3>2. CASE k # a
      <4>1. k \in DOMAIN shown /\ shown'[k] = shown[k]
        BY <2>1, <2>4, <3>2
      <4>. QED BY <1>2, <4>1 DEF ShownInv
    <3>. QED BY <3>1, <3>2
  <2>. QED BY <1>1, <1>2, <1>3, <2>4 DEF ShownInv, tree
<1>8. NamesFun'
  BY <1>1 DEF ChoiceInv, NamesFun
<1>. QED BY <1>4, <1>5, <1>6, <1>7, <1>8 DEF ChoiceInv

\* Names are added to names.
LEMMA NamesStayFun ==
  ASSUME NamesFun, PackageStep
  PROVE  NamesFun'
<1>1. ASSUME NEW i PROVE WithNames(i) = [n \in DOMAIN WithNames(i) |-> WithNames(i)[n]]
  BY DEF WithNames
<1>2. \/ names' = names
      \/ \E i : names' = WithNames(i)
  <2>1. CASE Launch
    BY <2>1 DEF Launch
  <2>2. CASE Vendor
    BY <2>2 DEF Vendor
  <2>3. ASSUME NEW i \in DOMAIN pc, Retrieve(i) PROVE names' = names \/ names' = WithNames(i)
    BY <2>3 DEF Retrieve, Fetch, Escape, Clone, GitCheckout, Verify, CommandFails, Fails, Goes
  <2>4. CASE CheckPaths
    BY <2>4 DEF CheckPaths
  <2>. QED BY <2>1, <2>2, <2>3, <2>4 DEF PackageStep
<1>. QED BY <1>1, <1>2 DEF NamesFun

THEOREM ChoiceInvariance == Spec => []ChoiceInv
<1>1. Init => ChoiceInv
  BY ChoiceStarts
<1>2. StartInv /\ ChoiceInv /\ [Next]_vars => ChoiceInv'
  <2>. SUFFICES ASSUME StartInv, ChoiceInv, [Next]_vars PROVE ChoiceInv'
    OBVIOUS
  <2>1. names' = names => NamesFun'
    BY DEF ChoiceInv, NamesFun
  <2>2. CASE ResolveRoot
    <3>1. /\ stage = "root" /\ stage' \in {"config", "over"}
          /\ UNCHANGED <<setup, scm, memo, roots, chosen, shown, names>>
      BY <2>2 DEF ResolveRoot, Proceed, pkgVars
    <3>. QED BY <2>1, <3>1, ChoiceKept
  <2>3. CASE ReadConfig
    <3>1. /\ stage = "config" /\ stage' \in {"scm", "over"}
          /\ UNCHANGED <<setup, scm, memo, roots, chosen, shown, names>>
      BY <2>3 DEF ReadConfig, Proceed, pkgVars
    <3>. QED BY <2>1, <3>1, ChoiceKept
  <2>4. CASE PackageStep
    <3>1. stage' = stage /\ UNCHANGED <<setup, scm, memo, roots, chosen, shown>>
      BY <2>4 DEF PackageStep, CheckPaths, Launch, Vendor, Retrieve, Fetch, Escape, Clone, GitCheckout, Verify,
         CommandFails, Fails, Goes
    <3>2. NamesFun'
      BY <2>4, NamesStayFun DEF ChoiceInv
    <3>. QED BY <3>1, <3>2, ChoiceKept
  <2>5. CASE RetrieveReturns
    <3>1. /\ stage = "packages" /\ stage' \in {"discover", "over"}
          /\ UNCHANGED <<setup, scm, memo, roots, chosen, shown, names>>
      BY <2>5 DEF RetrieveReturns, Proceed, pkgVars
    <3>. QED BY <2>1, <3>1, ChoiceKept
  <2>6. CASE Parse
    <3>1. /\ stage = "parse" /\ stage' \in {"filter", "over"}
          /\ UNCHANGED <<setup, scm, memo, roots, chosen, shown, names>>
      BY <2>6 DEF Parse, Proceed, pkgVars
    <3>. QED BY <2>1, <3>1, ChoiceKept
  <2>7. CASE Finish
    <3>1. stage' = "over" /\ UNCHANGED <<setup, scm, memo, roots, chosen, shown, names>>
      BY <2>7 DEF Finish, Proceed, pkgVars
    <3>. QED BY <2>1, <3>1, ChoiceKept
  <2>8. CASE UNCHANGED vars
    <3>1. stage' = stage /\ UNCHANGED <<setup, scm, memo, roots, chosen, shown, names>>
      BY <2>8 DEF vars, pkgVars
    <3>. QED BY <2>1, <3>1, ChoiceKept
  <2>9. CASE Stage
    BY <2>2, <2>3, <2>4, <2>5, <2>6, <2>9, ScmChosen, RootsChosen, ChecksChosen DEF Stage
  <2>10. CASE Run
    BY <2>7, <2>10, FilesShown DEF Run
  <2>. QED BY <2>8, <2>9, <2>10 DEF Next, Over
<1>3. Init /\ [][Next]_vars => []StartInv
  BY StartupInvariance DEF Spec
<1>. QED BY <1>1, <1>2, <1>3, PTL DEF Spec

\* Each check is shown the files of its own directory that the options and the
\* glob select, each once and in order (subdirSCM, filteredSCM and cachingSCM,
\* runtime_ctx_scm.go:183): for any tree, patterns, arguments and glob, whatever
\* the other checks asked for before.
THEOREM FilesShownAreRight == Spec => []ShownFilesRight
<1>1. StartInv /\ ChoiceInv => ShownFilesRight
  <2>. SUFFICES ASSUME StartInv, ChoiceInv, NEW k \in DOMAIN shown, shown[k].ok
                PROVE  shown[k].files = Wanted(roots[k[1]], k[2])
    BY DEF ShownFilesRight
  <2>1. setup \in Setup /\ doc = setup.doc
    BY DEF StartInv, StartTypes
  <2>2. /\ ArgsFine(setup) /\ scm = CheckoutFor(setup)
        /\ shown[k].files = Shown(roots[k[1]], k[2].glob, Wrapped(tree, scm, k[2].listing))
    BY DEF ChoiceInv, ShownInv, Chose
  <2>3. Shown(roots[k[1]], k[2].glob, Wrapped(tree, CheckoutFor(setup), k[2].listing)) = Wanted(roots[k[1]], k[2])
    BY <2>1, <2>2, ShownAsWanted
  <2>. QED BY <2>2, <2>3
<1>. QED BY <1>1, StartupInvariance, ChoiceInvariance, PTL

\* The script of a directory where a shac.star may be.
LEMMA ScriptIs ==
  ASSUME NEW s \in Setup, NEW d \in Dirs
  PROVE  /\ s.scripts[Normalized(d)].checks \in Seq([name : Name, formatter : BOOLEAN])
         /\ ToSet(s.scripts[Normalized(d)].checks) \subseteq [name : Name, formatter : BOOLEAN]
<1>1. s.scripts \in [Directory -> Script]
  BY SetupTypes
<1>2. Normalized(d) \in Directory
  BY DEF Dirs, Directory
<1>3. s.scripts[Normalized(d)] \in Script
  BY <1>1, <1>2
<1>4. s.scripts[Normalized(d)].checks \in Seq([name : Name, formatter : BOOLEAN])
  BY <1>3 DEF Script
<1>. HIDE DEF Dirs
<1>5. ASSUME NEW T, NEW t \in Seq(T) PROVE ToSet(t) \subseteq T
  <2>1. DOMAIN t = 1..Len(t) /\ \A i \in 1..Len(t) : t[i] \in T
    BY LenProperties, ElementOfSeq
  <2>. QED BY <2>1 DEF ToSet
<1>. QED BY <1>4, <1>5

Selected(filter, c) ==
  /\ c.name \in filter.allow \/ filter.allow = {}
  /\ c.name \notin filter.deny
  /\ filter.formatters # "all" => (c.formatter <=> filter.formatters = "only")

\* CheckFilter.filter keeps the checks that the options select.
LEMMA KeptIs ==
  ASSUME NEW filter \in Filter, NEW checks \in Seq([name : Name, formatter : BOOLEAN]),
         ToSet(checks) \subseteq [name : Name, formatter : BOOLEAN]
  PROVE  /\ Kept(filter, checks) \in Seq([name : Name, formatter : BOOLEAN])
         /\ ToSet(Kept(filter, checks)) = {c \in ToSet(checks) : Selected(filter, c)}
<1>. DEFINE K == {c \in ToSet(checks) :
              /\ filter.allow # {} => c.name \in filter.allow
              /\ c.name \notin filter.deny
              /\ filter.formatters = "only" => c.formatter
              /\ filter.formatters = "none" => ~c.formatter}
<1>1. Kept(filter, checks) = Select(checks, K)
  BY DEF Kept
<1>2. filter.formatters \in {"all", "only", "none"}
  BY DEF Filter
<1>3. \A c \in ToSet(checks) : c.formatter \in BOOLEAN
  OBVIOUS
<1>4. K = {c \in ToSet(checks) : Selected(filter, c)}
  BY <1>2, <1>3 DEF Selected
<1>. HIDE DEF K
<1>5. /\ Select(checks, K) \in Seq([name : Name, formatter : BOOLEAN])
      /\ ToSet(Select(checks, K)) = ToSet(checks) \cap K
  BY SelectType, SelectRange
<1>. QED BY <1>1, <1>4, <1>5

\* With --recurse, every shac.star that git does not ignore and that no ignore
\* pattern excludes is run, once, and otherwise the one of the root; and of its
\* checks, those that the options select (newState and CheckFilter.filter,
\* run.go): for any tree, patterns, arguments, scripts and filters.
THEOREM RightChecksAreRun == Spec => []RightChecksRun
<1>1. StartInv /\ ChoiceInv => RightChecksRun
  <2>. SUFFICES ASSUME StartInv, ChoiceInv, stage = "run" PROVE RightChecksRun
    BY DEF RightChecksRun
  <2>1. setup \in Setup /\ doc = setup.doc
    BY DEF StartInv, StartTypes
  <2>2. /\ ArgsFine(setup) /\ roots = RootsFor(setup) /\ chosen = ChecksFor(setup) /\ SelectError = ""
    BY DEF ChoiceInv, ScmInv, RootsInv, ChosenInv, Chose, Loading
  <2>3. /\ roots \in Seq(Dirs) /\ ToSet(roots) = {Dir(p) : p \in EntriesFor(setup)} /\ ~HasDuplicates(roots)
    BY <2>1, <2>2, RootsForIs
  <2>4. /\ DOMAIN chosen = DOMAIN roots
        /\ \A i \in DOMAIN roots : chosen[i] = Kept(setup.filter, ScriptOf(roots[i]).checks)
        /\ \A i \in DOMAIN roots : AfterFilter[i] = chosen[i]
    BY <2>2 DEF ChecksFor, ScriptOf, AfterFilter
  <2>5. ASSUME NEW i \in DOMAIN roots
        PROVE  ToSet(chosen[i]) = {c \in ToSet(ScriptOf(roots[i]).checks) : Selected(setup.filter, c)}
    <3>1. roots[i] \in Dirs
      <4>1. DOMAIN roots = 1..Len(roots)
        BY <2>3, LenProperties
      <4>. QED BY <2>3, <4>1, ElementOfSeq
    <3>2. setup.filter \in Filter
      BY <2>1, SetupTypes
    <3>3. /\ ScriptOf(roots[i]).checks \in Seq([name : Name, formatter : BOOLEAN])
          /\ ToSet(ScriptOf(roots[i]).checks) \subseteq [name : Name, formatter : BOOLEAN]
      BY <2>1, <3>1, ScriptIs DEF ScriptOf
    <3>4. ToSet(Kept(setup.filter, ScriptOf(roots[i]).checks))
            = {c \in ToSet(ScriptOf(roots[i]).checks) : Selected(setup.filter, c)}
      BY <3>2, <3>3, KeptIs
    <3>. QED BY <2>4, <3>4
  <2>6. Registered # {} => \E i \in DOMAIN roots : chosen[i] # <<>>
    <3>1. Registered # {} => ~ \A i \in DOMAIN roots : AfterFilter[i] = <<>>
      BY <2>2 DEF SelectError
    <3>. QED BY <2>4, <3>1
  <2>7. EntriesFor(setup) = {p \in tree.files :
                    /\ IsEntry(p)
                    /\ setup.recurse \/ Len(p) = 1
                    /\ setup.recurse => /\ setup.git.found = "yes" => p \notin tree.ignored
                                        /\ setup.args = <<>> => ~Matches(doc.ignore, p)}
    BY <2>1 DEF EntriesFor, tree
  <2>. QED BY <2>3, <2>5, <2>6, <2>7 DEF RightChecksRun, Selected
<1>. QED BY <1>1, StartupInvariance, ChoiceInvariance, PTL

\* The type invariant, for any situation: in particular, what cachingSCM
\* remembers are lists of paths of the tree, and the goroutines of
\* RetrievePackages never exceed their limit.
THEOREM TypeCorrect == Spec => []TypeOK
<1>1. StartInv /\ ChoiceInv => TypeOK
  <2>. SUFFICES ASSUME StartInv, ChoiceInv PROVE TypeOK
    OBVIOUS
  <2>1. setup \in Setup /\ doc = setup.doc /\ stores = setup.stores
    BY DEF StartInv, StartTypes
  <2>2. /\ stage \in {"root", "config", "scm", "packages", "discover", "parse", "filter", "run", "over"}
        /\ err # "" => stage = "over"
        /\ pc \in Seq({"fetch", "escape", "clone", "checkout", "verify", "done", "failed"})
        /\ Cardinality(Busy) <= PkgConcurrency
        /\ failure \in {"", "path", "git", "version", "digest", "not vendored"}
    BY DEF StartInv, StartTypes, StagesInv, GroupInv, Loading, PkgStep, PkgErrors, Failures
  <2>3. next \in 1..(Len(deps) + 1)
    <3>1. Len(deps) \in Nat /\ next \in Nat \ {0}
      BY DependencyTypes DEF StartInv, StartTypes
    <3>2. pc \in Seq(PkgStep)
      BY DEF StartInv, StartTypes
    <3>3. Len(pc) \in Nat
      BY <3>2, LenProperties
    <3>4. next <= Len(deps) + 1
      BY <3>1, <3>3 DEF StartInv, GroupInv
    <3>. QED BY <3>1, <3>4
  <2>4. names \in [DOMAIN names -> {0} \cup DOMAIN deps]
    <3>1. names = [n \in DOMAIN names |-> names[n]]
      BY DEF ChoiceInv, NamesFun
    <3>2. \A n \in DOMAIN names : names[n] \in {0} \cup DOMAIN deps
      BY DEF StartInv, NamesInv
    <3>. QED BY <3>1, <3>2
  <2>5. scm \in Checkout
    <3>1. NoCheckout \in Checkout
      <4>1. <<>> \in Seq(Path) /\ <<>> \in Seq(Pattern)
        BY EmptySeq
      <4>. QED BY <4>1 DEF NoCheckout, Checkout, Ref
    <3>2. ASSUME Chose PROVE scm \in Checkout
      <4>1. /\ setup.doc.ignore \in Seq(Pattern) /\ setup.allFiles \in BOOLEAN /\ UpstreamOf(setup.git) \in Ref
            /\ <<>> \in Seq(Pattern)
        BY <2>1, SetupTypes, EmptySeq
      <4>2. Normalize(setup.tree, setup.args) \in Seq(Path)
        <5>1. Normalize(setup.tree, setup.args) = Sorted(Named(setup))
          BY <2>1, <3>2, NamedIs DEF Chose
        <5>. QED BY <5>1, SortedIs
      <4>. QED BY <3>2, <4>1, <4>2 DEF Chose, CheckoutFor, Checkout
    <3>. QED BY <3>1, <3>2 DEF ChoiceInv, ScmInv
  <2>6. memo \in [DOMAIN memo -> Seq(Path)]
    <3>1. ASSUME NEW l \in DOMAIN memo PROVE Wrapped(tree, scm, l) \in Seq(Path)
      <4>1. ArgsFine(setup) /\ scm = CheckoutFor(setup)
        BY <3>1 DEF ChoiceInv, MemoInv, Chose
      <4>2. Wrapped(tree, scm, l) = Sorted({p \in Path : InListing(setup, l, p)})
        BY <2>1, <4>1, WrappedIs DEF tree
      <4>. QED BY <4>2, SortedIs
    <3>2. memo = [l \in DOMAIN memo |-> Wrapped(tree, scm, l)]
      BY DEF ChoiceInv, MemoInv
    <3>. QED BY <3>1, <3>2
  <2>7. Chose /\ roots = RootsFor(setup) => roots \in Seq(Dirs)
    BY <2>1, RootsForIs DEF Chose
  <2>8. roots \in Seq(Dirs)
    BY <2>7, EmptySeq DEF ChoiceInv, RootsInv
  <2>9. DOMAIN roots = 1..Len(roots) /\ Len(roots) \in Nat /\ \A i \in DOMAIN roots : roots[i] \in Dirs
    <3>1. DOMAIN roots = 1..Len(roots) /\ Len(roots) \in Nat
      BY <2>8, LenProperties
    <3>. QED BY <2>8, <3>1, ElementOfSeq
  <2>10. ToSet(roots) \subseteq {Dir(p) : p \in Path}
    BY <2>9 DEF ToSet, Dirs
  <2>11. chosen \in Seq(Seq([name : Name, formatter : BOOLEAN]))
    <3>. DEFINE C == Seq([name : Name, formatter : BOOLEAN])
    <3>1. ASSUME roots = RootsFor(setup), chosen = ChecksFor(setup) PROVE chosen \in Seq(C)
      <4>1. chosen = [i \in 1..Len(roots) |-> Kept(setup.filter, ScriptOf(roots[i]).checks)]
        BY <2>9, <3>1 DEF ChecksFor, ScriptOf
      <4>2. ASSUME NEW i \in 1..Len(roots) PROVE Kept(setup.filter, ScriptOf(roots[i]).checks) \in C
        <5>1. setup.filter \in Filter /\ roots[i] \in Dirs
          BY <2>1, <2>9, SetupTypes
        <5>2. /\ ScriptOf(roots[i]).checks \in C
              /\ ToSet(ScriptOf(roots[i]).checks) \subseteq [name : Name, formatter : BOOLEAN]
          BY <2>1, <5>1, ScriptIs DEF ScriptOf
        <5>. QED BY <5>1, <5>2, KeptIs
      <4>. HIDE DEF C
      <4>. QED BY <2>9, <4>1, <4>2
    <3>2. <<>> \in Seq(C)
      BY EmptySeq
    <3>. QED BY <3>1, <3>2 DEF ChoiceInv, ChosenInv
  <2>12. \A k \in DOMAIN shown : k \in (DOMAIN roots) \X setup.queries
    BY DEF ChoiceInv, ShownInv
  <2>. QED BY <2>1, <2>2, <2>3, <2>4, <2>5, <2>6, <2>10, <2>11, <2>12 DEF TypeOK
<1>. QED BY <1>1, StartupInvariance, ChoiceInvariance, PTL
=============================================================================

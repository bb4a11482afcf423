------------------------------ MODULE Startup ------------------------------
(***************************************************************************)
(* runInner from the options to the checks that run: the root, the         *)
(* configuration, the source control, the packages, the shac.star files    *)
(* and their checks, then what these checks are shown of the tree (run.go, *)
(* config.go, pkg.go, runtime_ctx_scm.go).                                 *)
(*                                                                         *)
(* The stages follow one another in one goroutine, except for the          *)
(* retrieval of packages (Packages), the parsing of the sources (Loader)   *)
(* and the checks (CheckRun, Scm).                                         *)
(***************************************************************************)
EXTENDS Packages, Selection

CONSTANTS
  EntryPoint,  \* the basename of the shac.star files
  Setups       \* the situations to start from

GitState ==
  [found : {"yes", "no command", "no repository", "error"}, commits : Nat,
   branch : {"upstream", "no upstream", "detached"}, pristine : BOOLEAN]

Document  == DocumentOver(Path, Name)
Directory == {Normalized(Dir(p)) : p \in Path}

\* The directory, git, the file shac.textproto, the sources of packages, the
\* tree, the options, what the shac.star of each directory does, and the
\* listings that a check asks for.  sandboxFails: nsjail cannot be written to the
\* temporary directory.
Setup ==
  [dir : {"directory", "file", "missing"}, git : GitState, absoluteEntry : BOOLEAN,
   config : {"none", "unreadable", "malformed", "document"}, doc : Document, stores : Stores,
   sandboxFails : BOOLEAN, tree : Tree, args : Seq(Path \cup NotAFile), allFiles : BOOLEAN, recurse : BOOLEAN,
   vars : SUBSET Name, scripts : [Directory -> Script],
   filter : Filter, queries : SUBSET Query]

\* Without a document, all of its fields have their defaults.
ASSUME StartupAssumption ==
  /\ Setups \subseteq Setup
  /\ \A s \in Setups : s.config # "document" => s.doc = EmptyDocument

VARIABLES
  setup,   \* where the run started; it never changes
  err,     \* the error that runInner returned, or ""
  scm,     \* what the listings come from
  memo,    \* the listings that cachingSCM remembers
  roots,   \* the directories of the shac.star files found
  chosen,  \* the checks of each that are to run
  shown    \* the answers given to the checks of each

vars == <<setup, doc, stores, stage, pkgVars, err, scm, memo, roots, chosen, shown>>

tree == setup.tree

NoCheckout ==
  [raw |-> FALSE, returnAll |-> FALSE, upstream |-> "HEAD", specified |-> FALSE, named |-> <<>>,
   ignore |-> <<>>]

Init ==
  /\ setup \in Setups
  /\ doc = setup.doc
  /\ stores = setup.stores
  /\ stage = "root"
  /\ PkgInit
  /\ err = ""
  /\ scm = NoCheckout
  /\ memo = <<>>
  /\ roots = <<>>
  /\ chosen = <<>>
  /\ shown = <<>>

\* Go on to a stage, or return the error.
Proceed(error, to) ==
  /\ stage' = IF error = "" THEN to ELSE "over"
  /\ err' = error

-----------------------------------------------------------------------------

ResolveRoot ==
  /\ stage = "root"
  /\ Proceed(IF setup.dir # "directory" THEN "no directory"
             ELSE IF setup.git.found = "error" THEN "git" ELSE "", "config")
  /\ UNCHANGED <<setup, doc, stores, pkgVars, scm, memo, roots, chosen, shown>>

\* Mutant: the document is parsed once, strictly.
ConfigErrorStrict ==
  IF setup.absoluteEntry THEN "absolute entry point"
  ELSE IF setup.config = "unreadable" THEN "unreadable"
  ELSE IF setup.config = "malformed" \/ doc.newFields THEN "not a document"
  ELSE IF CheckVersion(doc) # "" THEN CheckVersion(doc)
  ELSE Validate(doc)

\* The version is checked before unknown fields are.
ConfigError ==
  IF setup.absoluteEntry THEN "absolute entry point"
  ELSE IF setup.config = "unreadable" THEN "unreadable"
  ELSE IF setup.config = "malformed" THEN "not a document"
  ELSE IF CheckVersion(doc) # "" THEN CheckVersion(doc)
  ELSE IF doc.newFields THEN "not a document"
  ELSE Validate(doc)

ReadConfig ==
  /\ stage = "config"
  /\ Proceed(ConfigError, "scm")
  /\ UNCHANGED <<setup, doc, stores, pkgVars, scm, memo, roots, chosen, shown>>

\* gitCheckout.init: without an upstream, the commit before the last one if
\* nothing is modified.
UpstreamOf(git) ==
  IF git.branch = "upstream" THEN "@{u}" ELSE IF git.pristine THEN "HEAD~1" ELSE "HEAD"

\* getSCM fails when there is no HEAD, or no commit before the only one.
GetScmFails(git) ==
  git.found = "yes" /\ (git.commits = 0 \/ (git.commits = 1 /\ UpstreamOf(git) = "HEAD~1"))

\* normalizeFiles, getSCM, then the ignore patterns, which files named on the
\* command line do without.
ScmError ==
  IF \E a \in ToSet(setup.args) : a \in NotAFile THEN "not a file"
  ELSE IF GetScmFails(setup.git) THEN "git"
  ELSE IF setup.args = <<>> /\ \E p \in ToSet(doc.ignore) : p.empty THEN "empty ignore"
  ELSE ""

ChooseScm ==
  /\ stage = "scm"
  /\ Proceed(ScmError, "packages")
  /\ LET specified == setup.args # <<>> IN
     scm' = IF ScmError # "" THEN scm ELSE
       [raw       |-> setup.git.found # "yes",
        returnAll |-> setup.allFiles /\ ~specified,
        upstream  |-> UpstreamOf(setup.git),
        specified |-> specified,
        named     |-> Normalize(tree, setup.args),
        ignore    |-> IF specified THEN <<>> ELSE doc.ignore]
  /\ UNCHANGED <<setup, doc, stores, pkgVars, memo, roots, chosen, shown>>

PackageStep ==
  /\ CheckPaths \/ Launch \/ Vendor \/ \E i \in DOMAIN pc : Retrieve(i)
  /\ UNCHANGED <<setup, err, scm, memo, roots, chosen, shown>>

\* RetrievePackages returns, then sandbox.New.
RetrieveReturns ==
  /\ stage = "packages"
  /\ Retrieved
  /\ Proceed(IF failure # "" THEN failure ELSE IF setup.sandboxFails THEN "sandbox" ELSE "", "discover")
  /\ UNCHANGED <<setup, doc, stores, pkgVars, scm, memo, roots, chosen, shown>>

-----------------------------------------------------------------------------

\* cachingSCM.
Cached(l) == IF l \in DOMAIN memo THEN memo[l] ELSE Wrapped(tree, scm, l)
Remember(l) == [k \in DOMAIN memo \cup {l} |-> IF k = l THEN Cached(l) ELSE memo[k]]

\* With --recurse, the files that scm.allFiles lists, links included.  The
\* override of specifiedFilesOnly is hidden by cachingSCM, and never asked.
Everything == [kind |-> "all", includeSymlinks |-> TRUE]
IsEntry(p) == Last(p) = EntryPoint

RootsAmong(files) ==
  LET found == Select(files, {p \in Path : IsEntry(p)})
  IN [i \in DOMAIN found |-> Dir(found[i])]

HasDuplicates(s) == \E i, j \in DOMAIN s : i # j /\ s[i] = s[j]

\* newState: variables are looked at once there is a shac.star.
StateError(found) ==
  IF found = <<>> THEN "no entry point"
  ELSE IF ~(setup.vars \subseteq doc.vars) THEN "undeclared variable"
  ELSE IF HasDuplicates(doc.properties) THEN "duplicate property"
  ELSE ""

Enter(found) == Proceed(StateError(found), "parse") /\ roots' = found

Discover ==
  /\ stage = "discover"
  /\ IF setup.recurse
       THEN /\ \E files \in {Cached(Everything)} : Enter(RootsAmong(files))
            /\ memo' = Remember(Everything)
       ELSE /\ Enter(IF <<EntryPoint>> \in tree.files THEN << <<".">> >> ELSE <<>>)
            /\ memo' = memo
  /\ UNCHANGED <<setup, doc, stores, pkgVars, scm, chosen, shown>>

ScriptOf(dir) == setup.scripts[Normalized(dir)]

\* The first error of those that concurrent goroutines return.
ParseErrors ==
  {IF ScriptOf(d).fails THEN "failed" ELSE "no check registered" :
     d \in {d \in ToSet(roots) : ScriptOf(d).fails
              \/ (ScriptOf(d).checks = <<>> /\ ~ScriptOf(d).prints)}}

Parse ==
  /\ stage = "parse"
  /\ \E error \in IF ParseErrors = {} THEN {""} ELSE ParseErrors : Proceed(error, "filter")
  /\ UNCHANGED <<setup, doc, stores, pkgVars, scm, memo, roots, chosen, shown>>

Registered == UNION {ToSet(ScriptOf(d).checks) : d \in ToSet(roots)}

AfterFilter == [i \in DOMAIN roots |-> Kept(setup.filter, ScriptOf(roots[i]).checks)]

SelectError ==
  LET error == FilterError(setup.filter, {c.name : c \in Registered}) IN
  IF error # "" THEN error
  ELSE IF Registered # {} /\ \A i \in DOMAIN roots : AfterFilter[i] = <<>> THEN "no checks to run"
  ELSE ""

FilterChecks ==
  /\ stage = "filter"
  /\ Proceed(SelectError, "run")
  /\ chosen' = AfterFilter
  /\ UNCHANGED <<setup, doc, stores, pkgVars, scm, memo, roots, shown>>

-----------------------------------------------------------------------------

\* A check of root i lists files; the lock of cachingSCM makes it one step.
List(i, q) ==
  /\ stage = "run"
  /\ chosen[i] # <<>>
  /\ <<i, q>> \notin DOMAIN shown
  /\ LET answer == IF \E p \in ToSet(q.glob) : p.empty THEN [ok |-> FALSE, files |-> <<>>]
                   ELSE [ok |-> TRUE, files |-> Shown(roots[i], q.glob, Cached(q.listing))]
     IN shown' = [k \in DOMAIN shown \cup {<<i, q>>} |-> IF k = <<i, q>> THEN answer ELSE shown[k]]
  /\ memo' = Remember(q.listing)
  /\ UNCHANGED <<setup, doc, stores, stage, pkgVars, err, scm, roots, chosen>>

\* The checks are over (CheckRun says with which verdict).
Finish ==
  /\ stage = "run"
  /\ \A i \in DOMAIN roots, q \in setup.queries : chosen[i] # <<>> => <<i, q>> \in DOMAIN shown
  /\ Proceed("", "over")
  /\ UNCHANGED <<setup, doc, stores, pkgVars, scm, memo, roots, chosen, shown>>

Over == stage = "over" /\ UNCHANGED vars

Stage ==
  \/ ResolveRoot \/ ReadConfig \/ ChooseScm \/ PackageStep \/ RetrieveReturns
  \/ Discover \/ Parse \/ FilterChecks

Run == (\E i \in DOMAIN roots, q \in setup.queries : List(i, q)) \/ Finish

Next == Stage \/ Run \/ Over

Spec == Init /\ [][Next]_vars

\* runInner and its goroutines are scheduled; git commands and scripts end.
\* Whether checks end is a matter of CheckRun.
FairSpec == Spec /\ WF_vars(Stage)

-----------------------------------------------------------------------------
(* Properties                                                              *)

\* The type invariant.
TypeOK ==
  /\ setup \in Setup
  /\ doc = setup.doc /\ stores = setup.stores
  /\ stage \in {"root", "config", "scm", "packages", "discover", "parse", "filter", "run", "over"}
  /\ err # "" => stage = "over"
  /\ next \in 1..(Len(deps) + 1)
  /\ pc \in Seq({"fetch", "escape", "clone", "checkout", "verify", "done", "failed"})
  /\ Cardinality(Busy) <= PkgConcurrency
  /\ names \in [DOMAIN names -> {0} \cup DOMAIN deps]
  /\ failure \in {"", "path", "git", "version", "digest", "not vendored"}
  /\ scm \in Checkout
  /\ memo \in [DOMAIN memo -> Seq(Path)]
  /\ ToSet(roots) \subseteq {Dir(p) : p \in Path}
  /\ chosen \in Seq(Seq([name : Name, formatter : BOOLEAN]))
  /\ \A k \in DOMAIN shown : k \in (DOMAIN roots) \X setup.queries

\* The packages that are what the document says they are.
IsGenuine(i) == Hash(deps[i].url, deps[i].version, TreeOf(i))
                  \in UNION {{s.digest : s \in ToSet(k.seen)} : k \in ToSet(doc.known)}

\* The stages in which packages may be loaded from.
PastPackages == stage \in {"discover", "parse", "filter", "run"} \/ (stage = "over" /\ err = "")

\* No file of a package is loaded unless the document gives the digest of all
\* of it, whichever goroutine fetched it and whatever the others did: once
\* RetrievePackages has returned without an error (pkg.go:146), every dependency
\* is there under its url, genuine, and no name stands for anything else.  An
\* alias may be the url of another dependency, or __main__: config.go only
\* compares aliases with each other.  And no goroutine still runs git, or hashes
\* files, below the temporary directory when runInner goes on or returns with an
\* error: Run removes it (run.go:315).
PackagesVerified ==
  /\ stage # "packages" => Busy = {}
  /\ PastPackages =>
       /\ \A i \in DOMAIN deps : deps[i].url \in DOMAIN names
       /\ \A n \in DOMAIN names :
            LET i == names[n] IN
            \/ i = 0 /\ n = <<"__main__">>
            \/ i # 0 /\ n \in {deps[i].url, deps[i].alias} /\ IsGenuine(i)
       /\ \A n \in DOMAIN names : (\A d \in ToSet(deps) : d.alias # n) =>
            names[n] = 0 \/ deps[names[n]].url = n

\* What a check asked of directory dir: the paths below it, each once and in
\* order, that were named on the command line or else are changed (all are, with
\* --all or without git) and not ignored, and that the glob selects.
Wanted(dir, q) ==
  LET prefix     == Normalized(dir)
      named      == {tree.target[a] : a \in ToSet(setup.args)}
      candidates == IF setup.git.found # "yes" THEN tree.files
                    ELSE IF q.listing.kind = "all" \/ (setup.allFiles /\ named = {})
                      THEN tree.files \ tree.ignored
                    ELSE tree.changed[UpstreamOf(setup.git)]
      listed(p)  == IF named # {} /\ q.listing.kind = "affected" THEN p \in named
                    ELSE /\ p \in candidates
                         /\ q.listing.includeSymlinks \/ tree.target[p] = p
                         /\ named = {} => ~Matches(doc.ignore, p)
      globbed(p) == q.glob # <<>> => Matches(GlobPatterns(q.glob), p)
      paths      == Sorted({p \in Path : IsPrefix(prefix, p) /\ listed(p) /\ globbed(p)})
  IN [i \in DOMAIN paths |-> SubSeq(paths[i], Len(prefix) + 1, Len(paths[i]))]

\* Each check is shown exactly the files of its own directory that the options
\* select, in the order that ctx.emit.finding relies on (runtime_ctx_emit.go:173),
\* whatever the checks of other directories asked cachingSCM for before, and
\* although filteredSCM.filter works in place (runtime_ctx_scm.go:183).
ShownFilesRight ==
  \A k \in DOMAIN shown :
    shown[k].ok => shown[k].files = Wanted(roots[k[1]], k[2])

\* With --recurse, every shac.star that git does not ignore, and that no ignore
\* pattern excludes, is run once; and the checks of a run are those that its
\* options select, at least one unless none is registered.
RightChecksRun ==
  stage = "run" =>
    LET found == {p \in tree.files :
                    /\ IsEntry(p)
                    /\ setup.recurse \/ Len(p) = 1
                    /\ setup.recurse => /\ setup.git.found = "yes" => p \notin tree.ignored
                                        /\ setup.args = <<>> => ~Matches(doc.ignore, p)}
        selected(c) == /\ c.name \in setup.filter.allow \/ setup.filter.allow = {}
                       /\ c.name \notin setup.filter.deny
                       /\ setup.filter.formatters # "all" =>
                            (c.formatter <=> setup.filter.formatters = "only")
    IN /\ ToSet(roots) = {Dir(p) : p \in found} /\ ~HasDuplicates(roots)
       /\ \A i \in DOMAIN roots :
            ToSet(chosen[i]) = {c \in ToSet(ScriptOf(roots[i]).checks) : selected(c)}
       /\ Registered # {} => \E i \in DOMAIN roots : chosen[i] # <<>>

\* Dependency i cannot be retrieved as the document wants it.
Troubled(i) ==
  \/ IF doc.vendored THEN stores.vendor[deps[i].url] = Absent
     ELSE \/ deps[i].version \in Pending \cup Unescapable
          \/ stores.remote[<<deps[i].url, deps[i].version>>] = Absent
          \/ stores.gitMayFail
  \/ ~Verified(i)

\* The error returned is the one that helps: a document that needs a newer shac
\* says so, even when it has fields that this shac does not know
\* (run.go:348-351); a missing shac.star comes before undeclared variables
\* (run.go:438-440); and retrieval fails because of a dependency, not because
\* another one was cancelled, if it was not refused a directory.
ErrorsExplained ==
  stage = "over" =>
    /\ setup.config = "document" /\ CheckVersion(doc) = "unsupported version"
         => err \in {"unsupported version", "no directory", "git", "absolute entry point"}
    /\ err = "undeclared variable" => roots # <<>>
    /\ failure # "" =>
         /\ err = failure
         /\ IF failure = "path" THEN ~stores.absolute ELSE \E i \in DOMAIN deps : Troubled(i)

\* runInner comes to the checks or returns.
StartupEnds == <>(stage \in {"run", "over"})
=============================================================================

------------------------------ MODULE Packages ------------------------------
(***************************************************************************)
(* PackageManager.RetrievePackages: the dependencies of a document are     *)
(* fetched by concurrent goroutines under an errgroup with a limit, or     *)
(* taken from the vendored directory one after the other, and verified     *)
(* (pkg.go).                                                               *)
(*                                                                         *)
(* Git runs against the network: any command may fail, and those that run  *)
(* or start after the first failure do, for their context is cancelled.    *)
(***************************************************************************)
EXTENDS Config, FiniteSets

CONSTANTS
  PkgConcurrency,  \* PackageManager.pkgConcurrency
  Pending,         \* versions that are a Gerrit CL or a GitHub PR
  Unescapable      \* versions that module.EscapeVersion refuses, with a slash

ASSUME PackagesAssumption ==
  /\ PkgConcurrency \in Nat \ {0}
  /\ Pending \cup Unescapable \subseteq Version
  /\ Pending \cap Unescapable = {}

\* What git serves, what the vendored directory holds, whether git may fail and
\* whether the temporary directory has an absolute path: $TMPDIR may be relative.
Stores ==
  [remote : [Url \X Version -> Content \cup {Absent}], vendor : [Url -> Content \cup {Absent}],
   gitMayFail : BOOLEAN, absolute : BOOLEAN]

VARIABLES
  doc,    \* the document
  stores, \* where packages come from; it never changes
  stage,  \* where runInner is; here, "packages"
  next,   \* the dependency that RetrievePackages comes to next
  pc,     \* where the retrieval of each dependency is
  names,  \* packages: the dependency that a name stands for, 0 for __main__
  failure \* the first error, or ""

pkgVars == <<next, pc, names, failure>>

deps == Dependencies(doc)

PkgInit ==
  /\ next = 1
  /\ pc = <<>>
  /\ names = [n \in {<<"__main__">>} |-> 0]
  /\ failure = ""

\* Mutant: a goroutine that fails keeps its place.
NotDone == {i \in DOMAIN pc : pc[i] # "done"}

\* The goroutines are numbered as their dependencies are.
Busy == {i \in DOMAIN pc : pc[i] \notin {"done", "failed"}}

-----------------------------------------------------------------------------

\* packages[d.Url] = f, then packages[d.Alias] = f.
WithNames(i) ==
  LET added == {deps[i].url} \cup ({deps[i].alias} \ {NoAlias})
  IN [n \in added \cup DOMAIN names |-> IF n \in added THEN i ELSE names[n]]

\* A vendored package contains those whose url continues its own.
TreeOf(i) ==
  LET d == deps[i] IN
  IF doc.vendored
    THEN {<<SubSeq(u, Len(d.url) + 1, Len(u)), stores.vendor[u]>> :
            u \in {v \in Url : IsPrefix(d.url, v) /\ stores.vendor[v] # Absent}}
    ELSE {<< <<>>, stores.remote[<<d.url, d.version>>] >>}

\* verifyDir.
Verified(i) ==
  LET expected == KnownDigest(doc, deps[i].url, deps[i].version)
  IN expected # NoDigest => Hash(deps[i].url, deps[i].version, TreeOf(i)) = expected

\* Paths have to be absolute, and those of directories: the root is, by now, and
\* Run has just made the other one.
CheckPaths ==
  /\ stage = "packages" /\ ~stores.absolute
  /\ failure = ""
  /\ failure' = "path"
  /\ UNCHANGED <<doc, stores, stage, next, pc, names>>

\* Mutant: the limit is exceeded by one.
LaunchOneMore ==
  /\ stage = "packages" /\ stores.absolute /\ ~doc.vendored
  /\ next \in DOMAIN deps
  /\ Cardinality(Busy) <= PkgConcurrency
  /\ pc' = Append(pc, CASE deps[next].version \in Pending     -> "fetch"
                        [] deps[next].version \in Unescapable -> "escape"
                        [] OTHER                              -> "clone")
  /\ next' = next + 1
  /\ UNCHANGED <<doc, stores, stage, names, failure>>

\* eg.Go blocks at the limit; it does not look at the context.  The version says
\* which command ensureGitPkg starts with.
Launch ==
  /\ stage = "packages" /\ stores.absolute /\ ~doc.vendored
  /\ next \in DOMAIN deps
  /\ Cardinality(Busy) < PkgConcurrency
  /\ pc' = Append(pc, CASE deps[next].version \in Pending     -> "fetch"
                        [] deps[next].version \in Unescapable -> "escape"
                        [] OTHER                              -> "clone")
  /\ next' = next + 1
  /\ UNCHANGED <<doc, stores, stage, names, failure>>

Fails(i, error) ==
  /\ pc' = [pc EXCEPT ![i] = "failed"]
  /\ failure' = IF failure = "" THEN error ELSE failure
  /\ UNCHANGED <<doc, stores, stage, next, names>>

Goes(i, step) ==
  /\ pc' = [pc EXCEPT ![i] = step]
  /\ UNCHANGED <<doc, stores, stage, next, names, failure>>

Cancelled == failure # ""
CommandFails(i) == (stores.gitMayFail \/ Cancelled) /\ Fails(i, "git")

\* git fetch is run in the directory of the package, which only the git clone
\* that would follow creates.
Fetch(i) == pc[i] = "fetch" /\ Fails(i, "git")

Escape(i) == pc[i] = "escape" /\ Fails(i, "version")

Clone(i) ==
  /\ pc[i] = "clone"
  /\ IF \E v \in Version : stores.remote[<<deps[i].url, v>>] # Absent
       THEN CommandFails(i) \/ (~Cancelled /\ Goes(i, "checkout"))
       ELSE Fails(i, "git")

GitCheckout(i) ==
  /\ pc[i] = "checkout"
  /\ IF stores.remote[<<deps[i].url, deps[i].version>>] # Absent
       THEN CommandFails(i) \/ (~Cancelled /\ Goes(i, "verify"))
       ELSE Fails(i, "git")

\* Hashing does not look at the context; the names are added under the mutex.
Verify(i) ==
  /\ pc[i] = "verify"
  /\ IF Verified(i)
       THEN /\ pc' = [pc EXCEPT ![i] = "done"]
            /\ names' = WithNames(i)
            /\ UNCHANGED <<doc, stores, stage, next, failure>>
       ELSE Fails(i, "digest")

Retrieve(i) == Fetch(i) \/ Escape(i) \/ Clone(i) \/ GitCheckout(i) \/ Verify(i)

\* The vendored packages, serially; the first error returns.
Vendor ==
  /\ stage = "packages" /\ stores.absolute /\ doc.vendored
  /\ next \in DOMAIN deps
  /\ ~Cancelled
  /\ IF stores.vendor[deps[next].url] # Absent /\ Verified(next)
       THEN /\ names' = WithNames(next)
            /\ next' = next + 1
            /\ UNCHANGED failure
       ELSE /\ failure' = IF stores.vendor[deps[next].url] = Absent THEN "not vendored" ELSE "digest"
            /\ UNCHANGED <<names, next>>
  /\ UNCHANGED <<doc, stores, stage, pc>>

\* RetrievePackages may return: eg.Wait() is over.
Retrieved ==
  /\ IF stores.absolute THEN next \notin DOMAIN deps \/ (doc.vendored /\ Cancelled) ELSE Cancelled
  /\ Busy = {}
=============================================================================

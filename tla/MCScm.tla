------------------------------- MODULE MCScm -------------------------------
(***************************************************************************)
(* Instances of Scm for TLC: each situation varies what it is about.       *)
(***************************************************************************)
EXTENDS Scm

CONSTANTS c1, c2, c3, p, q

FileX == [mode |-> "file", data |-> "x"]
FileY == [mode |-> "file", data |-> "y"]

Places(paths, objects) == [paths -> objects \cup {None}]

\* Every checkout of two regular files: edits, renames, copies, removals,
\* untracked and ignored files.  (That a path is ignored matters when git does
\* not know it.)
FileTrees ==
  {t \in CheckoutOf(Places({p, q}, {FileX, FileY})) :
     \A r \in t.ignored : t.index[r] = None /\ t.work[r] # None}

\* Every checkout of one path with links and submodules.
LinkTrees ==
  CheckoutOf({[r \in {p, q} |-> IF r = p THEN o ELSE None] :
                o \in {None, FileX} \cup {l \in AnyObject : l.mode = "symlink"}
                       \cup {[mode |-> "submodule", data |-> "x"]}})

\* A file that was edited, and one that may be untracked.
EditedTrees ==
  {t \in FileTrees : /\ t.ignored = {}
                     /\ t.index = t.upstream
                     /\ t.upstream = [r \in {p, q} |-> IF r = p THEN FileX ELSE None]
                     /\ t.work[p] = FileY /\ t.work[q] # FileY}

Start(trees, all, fails, checks, filters, calls) ==
  [tree : trees, returnAll : all, gitFails : fails, checks : {checks},
   filters : {filters}, maxCalls : {calls}]

OneList  == Start(FileTrees, {FALSE}, {FALSE}, {c1}, Filter, 1)
Lines    == Start({t \in LinkTrees : t.ignored = {}}, {FALSE}, {FALSE}, {c1}, Filter, 2)
Failures == Start(EditedTrees, BOOLEAN, {TRUE}, {c1, c2, c3}, {Default}, 2)

Situations == OneList \cup Lines \cup Failures
=============================================================================

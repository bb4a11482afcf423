------------------------------ MODULE GitFiles ------------------------------
(***************************************************************************)
(* What gitCheckout.affectedFiles and gitCheckout.allFiles list, as        *)
(* functions of the state of a checkout (runtime_ctx_scm.go).              *)
(*                                                                         *)
(* A checkout gives each path an object, or None, in three places: the     *)
(* upstream commit, the index and the working tree.  What git itself       *)
(* prints is modelled from the commands the code runs.                     *)
(***************************************************************************)
EXTENDS FiniteSets

CONSTANTS
  Path,
  None

Mode == {"file", "symlink", "submodule"}

\* The content of a file is opaque; that of a symbolic link is what os.Stat
\* finds behind it ("loop" stands for errors other than a missing target).
AnyObject == [mode : {"file"}, data : {"x", "y"}]
               \cup [mode : {"symlink"}, data : {"toFile", "toDir", "dangling", "loop"}]
               \cup [mode : {"submodule"}, data : {"x", "y"}]

ASSUME GitFilesAssumption == None \notin AnyObject

Place == [Path -> AnyObject \cup {None}]

\* Submodules are not added by hand: where the working tree has one, the index
\* does.
Sound(t) ==
  \A p \in Path : t.work[p] # None /\ t.work[p].mode = "submodule" =>
    t.index[p] # None /\ t.index[p].mode = "submodule"

CheckoutOf(places) ==
  {t \in [upstream : places, index : places, work : places, ignored : SUBSET Path] : Sound(t)}

Checkout == CheckoutOf(Place)

Filter == [includeDeleted : BOOLEAN, includeSymlinks : BOOLEAN]
Default    == [includeDeleted |-> FALSE, includeSymlinks |-> FALSE]

-----------------------------------------------------------------------------
(* git                                                                     *)

\* What git compares with the upstream: the working tree, for indexed paths.
Current(t, p) == IF t.index[p] = None THEN None ELSE t.work[p]

Added(t, p)    == t.upstream[p] = None /\ Current(t, p) # None
Deleted(t, p)  == t.upstream[p] # None /\ Current(t, p) = None
Modified(t, p) == t.upstream[p] # None /\ Current(t, p) # None /\ t.upstream[p] # Current(t, p)

\* q is paired with an added path that has its content (-C).
RenamedTo(t, q, p) == Deleted(t, q) /\ Added(t, p) /\ t.upstream[q] = Current(t, p)
CopiedTo(t, q, p)  == Modified(t, q) /\ Added(t, p) /\ t.upstream[q] = Current(t, p)

\* git diff --raw -C upstream: one entry per changed path, but none for the
\* old path of a renamed file.
DiffRaw(t) ==
  {[path |-> p, action |-> IF \E q \in Path : RenamedTo(t, q, p) THEN "R"
                           ELSE IF \E q \in Path : CopiedTo(t, q, p) THEN "C" ELSE "A",
    srcMode |-> "", dstMode |-> Current(t, p).mode] : p \in {q \in Path : Added(t, q)}}
  \cup
  {[path |-> p, action |-> "D", srcMode |-> t.upstream[p].mode, dstMode |-> ""] :
     p \in {q \in Path : Deleted(t, q) /\ ~ \E r \in Path : RenamedTo(t, q, r)}}
  \cup
  {[path |-> p, action |-> IF t.upstream[p].mode = Current(t, p).mode THEN "M" ELSE "T",
    srcMode |-> t.upstream[p].mode, dstMode |-> Current(t, p).mode] :
     p \in {q \in Path : Modified(t, q)}}

\* git ls-files --cached, and --others --exclude-standard.
Tracked(t)   == {p \in Path : t.index[p] # None}
Untracked(t) == {p \in Path : t.index[p] = None /\ t.work[p] # None /\ p \notin t.ignored}

-----------------------------------------------------------------------------
(* gitCheckout                                                             *)

\* What os.Stat finds at p: a missing file, a directory, an error, or a file.
Stat(t, p) ==
  IF t.work[p] = None THEN "missing"
  ELSE IF t.work[p].mode # "symlink" THEN "file"
  ELSE CASE t.work[p].data = "toFile"   -> "file"
         [] t.work[p].data = "toDir"    -> "dir"
         [] t.work[p].data = "dangling" -> "missing"
         [] OTHER                       -> "error"

\* Mutant: links to directories are kept.
IncludeLinks(t, f, p, action, mode) ==
  /\ mode # "submodule"
  /\ action = "D" => f.includeDeleted
  /\ mode = "symlink" => f.includeSymlinks

\* shouldIncludeFile: whether a file is listed, and whether it fails.
ShouldInclude(t, f, p, action, mode) ==
  /\ mode # "submodule"
  /\ action = "D" => f.includeDeleted
  /\ mode = "symlink" => f.includeSymlinks /\ (action # "D" => Stat(t, p) = "file")

StatFails(t, f, p, action, mode) ==
  mode = "symlink" /\ f.includeSymlinks /\ action # "D" /\ Stat(t, p) = "error"

File(p, a) == [path |-> p, action |-> a]

\* A list of files, or an error.
Listing(failed, files) == IF failed THEN [ok |-> FALSE, files |-> {}]
                                    ELSE [ok |-> TRUE, files |-> files]

\* The mode that counts for an entry of git diff.
GitMode(e) == IF e.action = "D" THEN e.srcMode ELSE e.dstMode

AffectedTracked(t, f) ==
  Listing(\E e \in DiffRaw(t) : StatFails(t, f, e.path, e.action, GitMode(e)),
          {File(e.path, e.action) : e \in {d \in DiffRaw(t) :
             ShouldInclude(t, f, d.path, d.action, GitMode(d))}})

\* Mutant: stat follows links.
ModeBehindLink(t, p) == ""

\* lstat tells links from files; what is untracked is no submodule.
UntrackedMode(t, p) == IF t.work[p].mode = "symlink" THEN "symlink" ELSE ""

UntrackedFiles(t, f) ==
  Listing(\E p \in Untracked(t) : StatFails(t, f, p, "A", UntrackedMode(t, p)),
          {File(p, "A") : p \in {q \in Untracked(t) :
             ShouldInclude(t, f, q, "A", UntrackedMode(t, q))}})

AffectedFiles(t, f) ==
  LET tracked == AffectedTracked(t, f)
      others  == UntrackedFiles(t, f)
  IN  Listing(~tracked.ok \/ ~others.ok, tracked.files \cup others.files)

\* affectedFileActions: "" for a path without an entry.
ActionOf(files, p) ==
  IF \E g \in files : g.path = p THEN (CHOOSE g \in files : g.path = p).action ELSE ""

\* git ls-files --stage gives the mode in the index of what is tracked.
ListedMode(t, p) == IF p \in Tracked(t) THEN t.index[p].mode ELSE UntrackedMode(t, p)

\* What allFiles asks affectedTrackedFiles for.
ForActions(t, f) == AffectedTracked(t, [f EXCEPT !.includeDeleted = TRUE])

\* Mutant: git ls-files is not asked for the others.
AllFilesTracked(t, f) ==
  LET affected  == ForActions(t, f)
      action(p) == ActionOf(affected.files, p)
  IN  Listing(~affected.ok,
              {File(p, action(p)) : p \in
                {q \in Tracked(t) : ShouldInclude(t, f, q, action(q), ListedMode(t, q))}})

AllFiles(t, f) ==
  LET affected  == ForActions(t, f)
      listed    == Tracked(t) \cup Untracked(t)
      action(p) == ActionOf(affected.files, p)
      included  == {p \in listed : ShouldInclude(t, f, p, action(p), ListedMode(t, p))}
  IN  Listing(~affected.ok \/ (\E p \in listed : StatFails(t, f, p, action(p), ListedMode(t, p))),
              {File(p, action(p)) : p \in included})

\* newLines, when git works: a file without a diff is read whole.
LinesOk(t, returnAll, file) ==
  IF returnAll THEN Stat(t, file.path) = "file"
  ELSE \/ file.action = "D"
       \/ t.upstream[file.path] # Current(t, file.path)
       \/ Stat(t, file.path) = "file"
=============================================================================

----------------------------- MODULE Selection -----------------------------
(***************************************************************************)
(* Which files a check is shown and which checks are run, as functions of  *)
(* the source tree and of the options (runtime_ctx_scm.go, run.go).        *)
(*                                                                         *)
(* A path is a sequence of components.  What gitCheckout lists is          *)
(* module GitFiles' matter: a tree says here what git finds in it.         *)
(***************************************************************************)
EXTENDS Naturals, Sequences, FiniteSets, SequencesExt, FiniteSetsExt

CONSTANTS
  Order,  \* the paths, sorted as strings
  Name    \* names of checks and of variables

\* git and fs.WalkDir give each path once, and without a component ".".
ASSUME SelectionAssumption ==
  /\ Order \in Seq(Seq(STRING))
  /\ \A i, j \in DOMAIN Order : i # j => Order[i] # Order[j]
  /\ \A i \in DOMAIN Order : Order[i] # <<>> /\ Order[i][1] # "."

Path == ToSet(Order)
Ref  == {"@{u}", "HEAD~1", "HEAD"}

\* The files on disk, those that git ignores, where each path leads (elsewhere
\* when it is a symbolic link), and the files changed since a commit, untracked
\* ones included.
Tree ==
  [files : SUBSET Path, ignored : SUBSET Path, target : [Path -> Path],
   changed : [Ref -> SUBSET Path]]

\* Patterns in the syntax of gitignore; ! negates one.
Pattern == [empty : BOOLEAN, negated : BOOLEAN, matches : SUBSET Path]

\* What runInner makes of the options: gitCheckout or rawTree, under
\* specifiedFilesOnly or filteredSCM.
Checkout ==
  [raw : BOOLEAN, returnAll : BOOLEAN, upstream : Ref, specified : BOOLEAN, named : Seq(Path),
   ignore : Seq(Pattern)]

\* ctx.scm.affected_files() and ctx.scm.all_files(); glob is <<>> when absent.
Listing == [kind : {"affected", "all"}, includeSymlinks : BOOLEAN]
Query   == [listing : Listing, glob : Seq(Pattern)]

Script == [checks : Seq([name : Name, formatter : BOOLEAN]), prints : BOOLEAN, fails : BOOLEAN]
Filter == [allow : SUBSET Name, deny : SUBSET Name, formatters : {"all", "only", "none"}]

\* Each element of s, in order, as often as times says.
Repeated(s, times) ==
  LET upTo[i \in 0..Len(s)] ==
        IF i = 0 THEN <<>> ELSE upTo[i - 1] \o [k \in 1..times[i] |-> s[i]]
  IN upTo[Len(s)]

\* What of s is in S, and the paths in S.
Select(s, S) == Repeated(s, [i \in DOMAIN s |-> IF s[i] \in S THEN 1 ELSE 0])
Sorted(S)    == Select(Order, S)

-----------------------------------------------------------------------------
(* Files named on the command line                                         *)

\* Like Path, what an argument may be instead of a file to analyze.
NotAFile == {<<"missing">>, <<"directory">>, <<"..", "outside">>}

\* slices.Sort, and slices.Compact, which removes what equals its left neighbour.
Sort(s)    == Repeated(Order, [i \in DOMAIN Order |-> Cardinality({j \in DOMAIN s : s[j] = Order[i]})])
Compact(s) == Repeated(s, [i \in DOMAIN s |-> IF i > 1 /\ s[i - 1] = s[i] THEN 0 ELSE 1])

\* normalizeFiles, when every argument is a file of the tree.
Normalize(tree, args) == Compact(Sort([i \in DOMAIN args |-> tree.target[args[i]]]))

-----------------------------------------------------------------------------
(* Listings                                                                *)

\* gitignore.Matcher: the last pattern that matches decides.
Matches(patterns, p) ==
  LET hits == {i \in DOMAIN patterns : p \in patterns[i].matches}
  IN hits # {} /\ ~patterns[Max(hits)].negated

\* gitCheckout and rawTree.
BaseFiles(tree, scm, l) ==
  LET found == IF scm.raw THEN tree.files
               ELSE IF l.kind = "all" \/ scm.returnAll THEN tree.files \ tree.ignored
               ELSE tree.changed[scm.upstream]
  IN Sorted({p \in found : l.includeSymlinks \/ tree.target[p] = p})

\* How many of the first k files are to be removed.
Removed(patterns, files, k) == Cardinality({j \in 1..k : Matches(patterns, files[j])})

\* Mutant: the next file is moved before the present one is counted.
MovedEarly(patterns, files, k) == k + 1 - Removed(patterns, files, k - 1)

\* Where the file after k is moved, over those to be removed.
MovedTo(patterns, files, k) == k + 1 - Removed(patterns, files, k)

\* filteredSCM.filter: k is i+offset, which grows by one each time around; the
\* last file moved to a place stays there, and the tail is cut.
FilterInPlace(patterns, files) ==
  LET moves(m) == {k \in 1..(Len(files) - 1) : MovedTo(patterns, files, k) = m}
      kept     == Len(files) - Removed(patterns, files, Len(files))
  IN [m \in 1..kept |-> files[IF moves(m) = {} THEN m ELSE Max(moves(m)) + 1]]

\* What cachingSCM wraps.  Files named on the command line are listed as they
\* are, whatever the ignore patterns and the filter say.
Wrapped(tree, scm, l) ==
  IF scm.specified
    THEN IF l.kind = "affected" THEN scm.named ELSE BaseFiles(tree, scm, l)
    ELSE IF scm.ignore = <<>> THEN BaseFiles(tree, scm, l)
    ELSE FilterInPlace(scm.ignore, BaseFiles(tree, scm, l))

\* filepath.Dir, and what newState makes of it before a slash is appended.
Dir(p) == IF Len(p) = 1 THEN <<".">> ELSE Front(p)

Normalized(dir) == IF dir = <<".">> THEN <<>> ELSE dir

\* filterFilesByGlob: negative patterns alone are exceptions from everything.
GlobPatterns(glob) ==
  IF \A i \in DOMAIN glob : glob[i].negated
    THEN <<[empty |-> FALSE, negated |-> FALSE, matches |-> Path]>> \o glob
    ELSE glob

FilterByGlob(glob, files) ==
  IF glob = <<>> THEN files ELSE Select(files, {p \in Path : Matches(GlobPatterns(glob), p)})

\* subdirSCM for a shac.star in directory dir, then the glob, then the keys of
\* the dictionary that the check gets.
Shown(dir, glob, files) ==
  LET prefix == Normalized(dir)
      inside == FilterByGlob(glob, Select(files, {p \in Path : IsPrefix(prefix, p)}))
  IN [i \in DOMAIN inside |-> SubSeq(inside[i], Len(prefix) + 1, Len(inside[i]))]

-----------------------------------------------------------------------------
(* Checks                                                                  *)

\* Mutant: a check that is named runs, formatter or not.
KeptByName(filter, checks) ==
  Select(checks, {c \in ToSet(checks) :
    /\ c.name \notin filter.deny
    /\ \/ c.name \in filter.allow
       \/ /\ filter.allow = {}
          /\ filter.formatters = "only" => c.formatter
          /\ filter.formatters = "none" => ~c.formatter})

\* CheckFilter.filter.
Kept(filter, checks) ==
  Select(checks, {c \in ToSet(checks) :
    /\ filter.allow # {} => c.name \in filter.allow
    /\ c.name \notin filter.deny
    /\ filter.formatters = "only" => c.formatter
    /\ filter.formatters = "none" => ~c.formatter})

\* CheckFilter.validate, where names are those of all the checks found.
FilterError(filter, names) ==
  IF filter.allow \cap filter.deny # {} THEN "both allowed and denied"
  ELSE IF ~((filter.allow \cup filter.deny) \subseteq names) THEN "no such check"
  ELSE ""
=============================================================================

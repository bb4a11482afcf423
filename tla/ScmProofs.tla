------------------------------ MODULE ScmProofs ------------------------------
(***************************************************************************)
(* What Scm guarantees of the files that checks are shown, for any         *)
(* checkouts, checks, filters and calls.                                   *)
(***************************************************************************)
EXTENDS Scm, FiniteSetTheorems, TLAPS

-----------------------------------------------------------------------------
(* What is listed of a checkout                                            *)

\* The entries that git diff prints, and no others.
Entry(t, e) ==
  \/ Added(t, e.path) /\ e.action \in {"R", "C", "A"} /\ GitMode(e) = Current(t, e.path).mode
  \/ /\ Deleted(t, e.path) /\ e.action = "D" /\ GitMode(e) = t.upstream[e.path].mode
     /\ ~ \E r \in Path : RenamedTo(t, e.path, r)
  \/ Modified(t, e.path) /\ e.action \in {"M", "T"} /\ GitMode(e) = Current(t, e.path).mode

LEMMA DiffEntries ==
  ASSUME NEW t, NEW e \in DiffRaw(t)
  PROVE  e.path \in Path /\ Entry(t, e)
<1>. DEFINE actionOf(p) == IF \E q \in Path : RenamedTo(t, q, p) THEN "R"
                           ELSE IF \E q \in Path : CopiedTo(t, q, p) THEN "C" ELSE "A"
            addition(p) == [path |-> p, action |-> actionOf(p), srcMode |-> "", dstMode |-> Current(t, p).mode]
            deletion(p) == [path |-> p, action |-> "D", srcMode |-> t.upstream[p].mode, dstMode |-> ""]
            change(p) == [path |-> p, action |-> IF t.upstream[p].mode = Current(t, p).mode THEN "M" ELSE "T",
                          srcMode |-> t.upstream[p].mode, dstMode |-> Current(t, p).mode]
            gone(p) == Deleted(t, p) /\ ~ \E r \in Path : RenamedTo(t, p, r)
            added == {addition(p) : p \in {q \in Path : Added(t, q)}}
            deleted == {deletion(p) : p \in {q \in Path : gone(q)}}
            modified == {change(p) : p \in {q \in Path : Modified(t, q)}}
<1>1. e \in added \/ e \in deleted \/ e \in modified
  BY DEF DiffRaw
<1>2. CASE e \in added
  <2>1. PICK p \in Path : Added(t, p) /\ e = addition(p)
    <3>. HIDE DEF addition
    <3>. QED BY <1>2
  <2>2. e.path = p /\ e.action = actionOf(p) /\ e.dstMode = Current(t, p).mode
    <3>. HIDE DEF actionOf
    <3>. QED BY <2>1
  <2>3. actionOf(p) \in {"R", "C", "A"}
    OBVIOUS
  <2>. HIDE DEF actionOf, addition
  <2>4. GitMode(e) = Current(t, e.path).mode
    BY <2>2, <2>3 DEF GitMode
  <2>. QED BY <2>1, <2>2, <2>3, <2>4 DEF Entry
<1>3. CASE e \in deleted
  <2>1. PICK p \in Path : gone(p) /\ e = deletion(p)
    <3>. HIDE DEF deletion, gone
    <3>. QED BY <1>3
  <2>2. e.path = p /\ e.action = "D" /\ e.srcMode = t.upstream[p].mode
    BY <2>1
  <2>3. GitMode(e) = t.upstream[e.path].mode
    BY <2>2 DEF GitMode
  <2>. QED BY <2>1, <2>2, <2>3 DEF Entry
<1>4. CASE e \in modified
  BY <1>4 DEF Entry, GitMode
<1>. QED BY <1>1, <1>2, <1>3, <1>4

LEMMA DiffHas ==
  ASSUME NEW t, NEW p \in Path
  PROVE  /\ Added(t, p) => \E e \in DiffRaw(t) : e.path = p
         /\ Modified(t, p) => \E e \in DiffRaw(t) : e.path = p
         /\ Deleted(t, p) /\ (~ \E r \in Path : RenamedTo(t, p, r)) => \E e \in DiffRaw(t) : e.path = p
<1>1. ASSUME Added(t, p) PROVE \E e \in DiffRaw(t) : e.path = p
  <2>. DEFINE e == [path |-> p, action |-> IF \E q \in Path : RenamedTo(t, q, p) THEN "R"
                                           ELSE IF \E q \in Path : CopiedTo(t, q, p) THEN "C" ELSE "A",
                    srcMode |-> "", dstMode |-> Current(t, p).mode]
  <2>1. e \in DiffRaw(t)
    BY <1>1 DEF DiffRaw
  <2>. QED BY <2>1
<1>2. ASSUME Modified(t, p) PROVE \E e \in DiffRaw(t) : e.path = p
  <2>. DEFINE e == [path |-> p, action |-> IF t.upstream[p].mode = Current(t, p).mode THEN "M" ELSE "T",
                    srcMode |-> t.upstream[p].mode, dstMode |-> Current(t, p).mode]
  <2>1. e \in DiffRaw(t)
    BY <1>2 DEF DiffRaw
  <2>. QED BY <2>1
<1>3. ASSUME Deleted(t, p), ~ \E r \in Path : RenamedTo(t, p, r) PROVE \E e \in DiffRaw(t) : e.path = p
  <2>. DEFINE e == [path |-> p, action |-> "D", srcMode |-> t.upstream[p].mode, dstMode |-> ""]
  <2>1. e \in DiffRaw(t)
    BY <1>3 DEF DiffRaw
  <2>. QED BY <2>1
<1>. QED BY <1>1, <1>2, <1>3

\* What affectedTrackedFiles and untrackedFiles gather, and only that.
LEMMA TrackedListed ==
  ASSUME NEW t, NEW f
  PROVE  /\ \A g \in AffectedTracked(t, f).files :
              \E e \in DiffRaw(t) : g = File(e.path, e.action) /\ ShouldInclude(t, f, e.path, e.action, GitMode(e))
         /\ AffectedTracked(t, f).ok =>
              \A e \in DiffRaw(t) : ShouldInclude(t, f, e.path, e.action, GitMode(e)) =>
                File(e.path, e.action) \in AffectedTracked(t, f).files
         /\ AffectedTracked(t, f).ok \in BOOLEAN
<1>. DEFINE included == {File(e.path, e.action) : e \in {d \in DiffRaw(t) :
                           ShouldInclude(t, f, d.path, d.action, GitMode(d))}}
            failed == \E e \in DiffRaw(t) : StatFails(t, f, e.path, e.action, GitMode(e))
<1>1. AffectedTracked(t, f) = Listing(failed, included)
  BY DEF AffectedTracked
<1>2. /\ failed => Listing(failed, included).files = {} /\ Listing(failed, included).ok = FALSE
      /\ ~failed => Listing(failed, included).files = included /\ Listing(failed, included).ok = TRUE
  <2>. HIDE DEF failed, included
  <2>. QED BY DEF Listing
<1>3. \A g \in included : \E e \in DiffRaw(t) :
        g = File(e.path, e.action) /\ ShouldInclude(t, f, e.path, e.action, GitMode(e))
  OBVIOUS
<1>4. \A e \in DiffRaw(t) : ShouldInclude(t, f, e.path, e.action, GitMode(e)) =>
        File(e.path, e.action) \in included
  OBVIOUS
<1>. HIDE DEF failed, included
<1>. QED BY <1>1, <1>2, <1>3, <1>4

LEMMA UntrackedListed ==
  ASSUME NEW t, NEW f
  PROVE  /\ \A g \in UntrackedFiles(t, f).files :
              \E p \in Untracked(t) : g = File(p, "A") /\ ShouldInclude(t, f, p, "A", UntrackedMode(t, p))
         /\ UntrackedFiles(t, f).ok =>
              \A p \in Untracked(t) : ShouldInclude(t, f, p, "A", UntrackedMode(t, p)) =>
                File(p, "A") \in UntrackedFiles(t, f).files
         /\ UntrackedFiles(t, f).ok \in BOOLEAN
<1>. DEFINE included == {File(p, "A") : p \in {q \in Untracked(t) :
                           ShouldInclude(t, f, q, "A", UntrackedMode(t, q))}}
            failed == \E p \in Untracked(t) : StatFails(t, f, p, "A", UntrackedMode(t, p))
<1>1. UntrackedFiles(t, f) = Listing(failed, included)
  BY DEF UntrackedFiles
<1>2. /\ failed => Listing(failed, included).files = {} /\ Listing(failed, included).ok = FALSE
      /\ ~failed => Listing(failed, included).files = included /\ Listing(failed, included).ok = TRUE
  <2>. HIDE DEF failed, included
  <2>. QED BY DEF Listing
<1>3. \A g \in included : \E p \in Untracked(t) :
        g = File(p, "A") /\ ShouldInclude(t, f, p, "A", UntrackedMode(t, p))
  OBVIOUS
<1>4. \A p \in Untracked(t) : ShouldInclude(t, f, p, "A", UntrackedMode(t, p)) => File(p, "A") \in included
  OBVIOUS
<1>. HIDE DEF failed, included
<1>. QED BY <1>1, <1>2, <1>3, <1>4

\* affectedFileActions.
ActionFor(t, f, p) == ActionOf(ForActions(t, f).files, p)
Deleting(f) == [f EXCEPT !.includeDeleted = TRUE]
HasEntry(t, p, action) == \E e \in DiffRaw(t) : e.path = p /\ e.action = action
NoFile(listing, p) == \A g \in listing : g.path # p

LEMMA ActionFound ==
  ASSUME NEW t, NEW f, NEW p
  PROVE  \/ ActionFor(t, f, p) = "" /\ NoFile(AffectedTracked(t, Deleting(f)).files, p)
         \/ HasEntry(t, p, ActionFor(t, f, p))
<1>. DEFINE found == ForActions(t, f).files
<1>1. found = AffectedTracked(t, Deleting(f)).files
  BY DEF ForActions, Deleting
<1>2. ActionFor(t, f, p) = ActionOf(found, p)
  BY DEF ActionFor
<1>3. CASE \E g \in found : g.path = p
  <2>1. PICK g \in found : g.path = p /\ ActionOf(found, p) = g.action
    <3>. HIDE DEF found
    <3>. QED BY <1>3 DEF ActionOf
  <2>2. PICK e \in DiffRaw(t) : g = File(e.path, e.action)
                                /\ ShouldInclude(t, Deleting(f), e.path, e.action, GitMode(e))
    BY <1>1, <2>1, TrackedListed
  <2>3. g.path = e.path /\ g.action = e.action
    BY <2>2 DEF File
  <2>. QED BY <1>2, <2>1, <2>2, <2>3 DEF HasEntry
<1>4. CASE ~ \E g \in found : g.path = p
  <2>1. ActionOf(found, p) = ""
    <3>. HIDE DEF found
    <3>. QED BY <1>4 DEF ActionOf
  <2>. QED BY <1>1, <1>2, <1>4, <2>1 DEF NoFile
<1>. QED BY <1>3, <1>4

\* What allFiles lists, and only that.
LEMMA AllListed ==
  ASSUME NEW t, NEW f
  PROVE  /\ \A g \in AllFiles(t, f).files :
              \E p \in Tracked(t) \cup Untracked(t) :
                /\ g = File(p, ActionFor(t, f, p))
                /\ ShouldInclude(t, f, p, ActionFor(t, f, p), ListedMode(t, p))
         /\ AllFiles(t, f).ok =>
              \A p \in Tracked(t) \cup Untracked(t) :
                ShouldInclude(t, f, p, ActionFor(t, f, p), ListedMode(t, p)) =>
                  File(p, ActionFor(t, f, p)) \in AllFiles(t, f).files
         /\ AllFiles(t, f).ok \in BOOLEAN
<1>. DEFINE listed == Tracked(t) \cup Untracked(t)
            Shows(p) == ShouldInclude(t, f, p, ActionFor(t, f, p), ListedMode(t, p))
            included == {File(p, ActionFor(t, f, p)) : p \in {q \in listed : Shows(q)}}
            failed == \/ ~ForActions(t, f).ok
                      \/ \E p \in listed : StatFails(t, f, p, ActionFor(t, f, p), ListedMode(t, p))
<1>1. AllFiles(t, f) = Listing(failed, included)
  BY Zenon DEF AllFiles, ActionFor
<1>2. /\ failed => Listing(failed, included).files = {} /\ Listing(failed, included).ok = FALSE
      /\ ~failed => Listing(failed, included).files = included /\ Listing(failed, included).ok = TRUE
  <2>. HIDE DEF failed, included
  <2>. QED BY DEF Listing
<1>3. /\ \A g \in included : \E p \in listed : g = File(p, ActionFor(t, f, p)) /\ Shows(p)
      /\ \A p \in listed : Shows(p) => File(p, ActionFor(t, f, p)) \in included
  <2>. HIDE DEF Shows, listed
  <2>. QED OBVIOUS
<1>. HIDE DEF failed, included
<1>. QED BY <1>1, <1>2, <1>3

\* The list of a whole call.
LEMMA AffectedListed ==
  ASSUME NEW t, NEW f, AffectedFiles(t, f).ok
  PROVE  /\ AffectedTracked(t, f).ok /\ UntrackedFiles(t, f).ok
         /\ AffectedFiles(t, f).files = AffectedTracked(t, f).files \cup UntrackedFiles(t, f).files
<1>. DEFINE v == AffectedTracked(t, f)
            w == UntrackedFiles(t, f)
<1>1. AffectedFiles(t, f) = Listing(~v.ok \/ ~w.ok, v.files \cup w.files)
  BY DEF AffectedFiles
<1>. HIDE DEF v, w
<1>2. v.ok /\ w.ok
  <2>1. CASE ~v.ok \/ ~w.ok
    BY <1>1, <2>1 DEF Listing
  <2>. QED BY <2>1
<1>3. AffectedFiles(t, f).files = v.files \cup w.files
  BY <1>1, <1>2 DEF Listing
<1>. QED BY <1>2, <1>3 DEF v, w

-----------------------------------------------------------------------------
(* What the lists show                                                     *)

\* The places of a path hold objects, or nothing.
LEMMA Objects ==
  ASSUME NEW t \in Checkout, NEW p \in Path
  PROVE  /\ t.upstream[p] # None => t.upstream[p].mode \in Mode
         /\ t.index[p] # None => t.index[p].mode \in Mode
         /\ t.work[p] # None => t.work[p].mode \in Mode
         /\ t.index[p] # None => Current(t, p) = t.work[p]
         /\ t.index[p] = None => Current(t, p) = None
<1>1. t.upstream \in Place /\ t.index \in Place /\ t.work \in Place
  BY DEF Checkout, CheckoutOf
<1>2. /\ t.upstream[p] \in AnyObject \cup {None}
      /\ t.index[p] \in AnyObject \cup {None}
      /\ t.work[p] \in AnyObject \cup {None}
  BY <1>1 DEF Place
<1>3. \A o \in AnyObject : o.mode \in Mode
  BY DEF AnyObject, Mode
<1>. QED BY <1>2, <1>3 DEF Current

\* Modes are those of git's entries.
LEMMA Strings == "" \notin Mode /\ "" # "D" /\ "A" # "D" /\ "symlink" # "submodule" /\ "file" # "symlink"
BY DEF Mode

\* A path that git diff has an entry for.
LEMMA EntryOf ==
  ASSUME NEW t, NEW e \in DiffRaw(t)
  PROVE  /\ e.path \in Path
         /\ e.action = "D" <=> Current(t, e.path) = None
         /\ e.action = "D" => t.upstream[e.path] # None /\ GitMode(e) = t.upstream[e.path].mode
         /\ e.action # "D" => /\ GitMode(e) = Current(t, e.path).mode
                              /\ t.upstream[e.path] # Current(t, e.path)
         /\ e.action \in {"R", "C", "A", "D", "M", "T"}
BY DiffEntries DEF Entry, Added, Deleted, Modified

\* A regular file that changed, or that git does not know, is listed.
LEMMA ListsChanges ==
  ASSUME NEW t \in Checkout, NEW f, AffectedFiles(t, f).ok, NEW p \in Path,
         t.work[p] # None, t.work[p].mode = "file",
         p \in Untracked(t) \/ (p \in Tracked(t) /\ t.upstream[p] # t.work[p])
  PROVE  \E g \in AffectedFiles(t, f).files : g.path = p /\ g.action # "D"
<1>1. CASE p \in Untracked(t)
  <2>1. UntrackedMode(t, p) = ""
    BY DEF UntrackedMode
  <2>2. ShouldInclude(t, f, p, "A", UntrackedMode(t, p))
    BY <2>1 DEF ShouldInclude
  <2>3. File(p, "A") \in AffectedFiles(t, f).files
    BY <1>1, <2>2, AffectedListed, UntrackedListed
  <2>4. File(p, "A").path = p /\ File(p, "A").action # "D"
    BY DEF File
  <2>. QED BY <2>3, <2>4
<1>2. CASE p \in Tracked(t) /\ t.upstream[p] # t.work[p]
  <2>1. Current(t, p) = t.work[p] /\ Current(t, p) # None
    BY <1>2 DEF Tracked, Current
  <2>2. Added(t, p) \/ Modified(t, p)
    BY <1>2, <2>1 DEF Added, Modified
  <2>3. PICK e \in DiffRaw(t) : e.path = p
    BY <2>2, DiffHas
  <2>4. e.action # "D" /\ GitMode(e) = "file"
    BY <2>1, <2>3, EntryOf
  <2>5. ShouldInclude(t, f, p, e.action, GitMode(e))
    BY <2>4 DEF ShouldInclude
  <2>6. File(e.path, e.action) \in AffectedFiles(t, f).files
    BY <2>3, <2>5, AffectedListed, TrackedListed
  <2>7. File(e.path, e.action).path = p /\ File(e.path, e.action).action = e.action
    BY <2>3 DEF File
  <2>. QED BY <2>4, <2>6, <2>7
<1>. QED BY <1>1, <1>2

\* Where an affected file comes from.
Affected(t, f, g) == g \in AffectedTracked(t, f).files \cup UntrackedFiles(t, f).files

\* One that is not deleted is a file, and one that is was there.
LEMMA AffectedIsThere ==
  ASSUME NEW t \in Checkout, NEW f, NEW g, Affected(t, f, g)
  PROVE  /\ g.path \in Path /\ g.action \in {"R", "C", "A", "D", "M", "T"}
         /\ g.action = "D" => t.upstream[g.path] # None /\ Current(t, g.path) = None
         /\ g.action # "D" => Stat(t, g.path) = "file"
         /\ g.action # "D" => \/ Stat(t, g.path) = "file" /\ Current(t, g.path) = None
                              \/ t.upstream[g.path] # Current(t, g.path)
<1>1. ASSUME NEW p \in Path, t.work[p] # None, t.work[p].mode # "symlink" PROVE Stat(t, p) = "file"
  BY <1>1 DEF Stat
<1>2. CASE g \in AffectedTracked(t, f).files
  <2>1. PICK e \in DiffRaw(t) : g = File(e.path, e.action) /\ ShouldInclude(t, f, e.path, e.action, GitMode(e))
    BY <1>2, TrackedListed
  <2>2. g.path = e.path /\ g.action = e.action
    BY <2>1 DEF File
  <2>3. /\ e.path \in Path
        /\ e.action = "D" <=> Current(t, e.path) = None
        /\ e.action = "D" => t.upstream[e.path] # None /\ GitMode(e) = t.upstream[e.path].mode
        /\ e.action # "D" => /\ GitMode(e) = Current(t, e.path).mode
                             /\ t.upstream[e.path] # Current(t, e.path)
        /\ e.action \in {"R", "C", "A", "D", "M", "T"}
    BY EntryOf
  <2>4. ASSUME e.action # "D" PROVE Stat(t, e.path) = "file"
    <3>1. t.index[e.path] # None /\ Current(t, e.path) = t.work[e.path] /\ t.work[e.path] # None
      BY <2>3, <2>4 DEF Current
    <3>2. CASE t.work[e.path].mode = "symlink"
      BY <2>1, <2>3, <2>4, <3>1, <3>2 DEF ShouldInclude
    <3>. QED BY <1>1, <2>3, <3>1, <3>2
  <2>. QED BY <2>2, <2>3, <2>4
<1>3. CASE g \in UntrackedFiles(t, f).files
  <2>1. PICK p \in Untracked(t) : g = File(p, "A") /\ ShouldInclude(t, f, p, "A", UntrackedMode(t, p))
    BY <1>3, UntrackedListed
  <2>2. g.path = p /\ g.action = "A" /\ "A" # "D"
    BY <2>1 DEF File
  <2>3. p \in Path /\ t.work[p] # None /\ Current(t, p) = None
    BY DEF Untracked, Current
  <2>4. Stat(t, p) = "file"
    <3>1. CASE t.work[p].mode = "symlink"
      <4>1. UntrackedMode(t, p) = "symlink"
        BY <3>1 DEF UntrackedMode
      <4>. QED BY <2>1, <2>2, <4>1 DEF ShouldInclude
    <3>. QED BY <1>1, <2>3, <3>1
  <2>. QED BY <2>2, <2>3, <2>4
<1>. QED BY <1>2, <1>3 DEF Affected

\* allFiles lists a missing file only where git diff has no entry to say so.
LEMMA AllIsThere ==
  ASSUME NEW t \in Checkout, NEW f \in Filter, ~f.includeDeleted, AllFiles(t, f).ok,
         NEW g \in AllFiles(t, f).files, t.work[g.path] = None
  PROVE  \/ t.upstream[g.path] = None
         \/ t.upstream[g.path].mode \notin {"file", t.index[g.path].mode}
         \/ \E q \in Path : RenamedTo(t, g.path, q)
<1>1. PICK p \in Tracked(t) \cup Untracked(t) :
        g = File(p, ActionFor(t, f, p)) /\ ShouldInclude(t, f, p, ActionFor(t, f, p), ListedMode(t, p))
  BY AllListed
<1>2. g.path = p /\ t.work[p] = None
  BY <1>1 DEF File
<1>3. p \in Path /\ p \in Tracked(t) /\ t.index[p] # None /\ Current(t, p) = None
  BY <1>2 DEF Tracked, Untracked, Current
<1>4. ListedMode(t, p) = t.index[p].mode
  BY <1>3 DEF ListedMode
<1>5. SUFFICES ASSUME t.upstream[p] # None, t.upstream[p].mode \in {"file", t.index[p].mode},
                      ~ \E q \in Path : RenamedTo(t, p, q)
               PROVE  FALSE
  BY <1>2
<1>6. PICK e \in DiffRaw(t) : e.path = p
  BY <1>3, <1>5, DiffHas DEF Deleted
<1>7. e.action = "D" /\ GitMode(e) = t.upstream[p].mode
  BY <1>3, <1>6, EntryOf
<1>8. /\ Deleting(f).includeDeleted = TRUE /\ Deleting(f).includeSymlinks = f.includeSymlinks
  BY DEF Deleting, Filter
<1>9. ShouldInclude(t, Deleting(f), p, e.action, GitMode(e))
  <2>1. GitMode(e) # "submodule"
    BY <1>1, <1>4, <1>5, <1>7 DEF ShouldInclude
  <2>2. GitMode(e) = "symlink" => f.includeSymlinks
    BY <1>1, <1>4, <1>5, <1>7 DEF ShouldInclude
  <2>. QED BY <1>7, <1>8, <2>1, <2>2 DEF ShouldInclude
<1>10. ForActions(t, f).ok
  <2>1. CASE ~ForActions(t, f).ok
    <3>1. AllFiles(t, f).ok = FALSE
      BY <2>1 DEF AllFiles, Listing
    <3>. QED BY <3>1
  <2>. QED BY <2>1
<1>11. File(p, e.action) \in AffectedTracked(t, Deleting(f)).files
  BY <1>6, <1>9, <1>10, TrackedListed DEF ForActions, Deleting
<1>12. File(p, e.action).path = p
  BY DEF File
<1>13. HasEntry(t, p, ActionFor(t, f, p))
  <2>1. \/ NoFile(AffectedTracked(t, Deleting(f)).files, p)
        \/ HasEntry(t, p, ActionFor(t, f, p))
    BY ActionFound
  <2>. QED BY <1>11, <1>12, <2>1 DEF NoFile
<1>14. ActionFor(t, f, p) = "D"
  BY <1>3, <1>13, EntryOf DEF HasEntry
<1>. QED BY <1>1, <1>14 DEF ShouldInclude

\* allFiles lists what affectedFiles does, but for the exceptions of AllComplete.
LEMMA AllHasAffected ==
  ASSUME NEW t \in Checkout, NEW f \in Filter, AllFiles(t, f).ok,
         NEW g, Affected(t, f, g), g.action # "D",
         ~(~f.includeDeleted /\ Deleted(t, g.path)),
         ~(g.path \in Tracked(t) /\ t.index[g.path].mode # t.work[g.path].mode)
  PROVE  \E h \in AllFiles(t, f).files : h.path = g.path
<1>. DEFINE p == g.path
            a == ActionFor(t, f, g.path)
<1>1. a = "D" => f.includeDeleted
  <2>. SUFFICES ASSUME a = "D" PROVE f.includeDeleted
    OBVIOUS
  <2>1. PICK e \in DiffRaw(t) : e.path = p /\ e.action = "D"
    <3>1. a = "" \/ HasEntry(t, p, a)
      BY ActionFound
    <3>. HIDE DEF a
    <3>. QED BY <3>1 DEF HasEntry
  <2>2. Deleted(t, p)
    BY <2>1, EntryOf DEF Deleted
  <2>. QED BY <2>2
<1>2. ASSUME p \in Tracked(t) \cup Untracked(t), ListedMode(t, p) # "submodule",
             ListedMode(t, p) = "symlink" => f.includeSymlinks /\ (a # "D" => Stat(t, p) = "file")
      PROVE  \E h \in AllFiles(t, f).files : h.path = p
  <2>1. ShouldInclude(t, f, p, a, ListedMode(t, p))
    <3>. HIDE DEF a, p
    <3>. QED BY <1>1, <1>2 DEF ShouldInclude
  <2>2. File(p, a) \in AllFiles(t, f).files
    BY <1>2, <2>1, AllListed
  <2>3. File(p, a).path = p
    BY DEF File
  <2>. QED BY <2>2, <2>3
<1>3. CASE g \in AffectedTracked(t, f).files
  <2>1. PICK e \in DiffRaw(t) : g = File(e.path, e.action) /\ ShouldInclude(t, f, e.path, e.action, GitMode(e))
    BY <1>3, TrackedListed
  <2>2. p = e.path /\ g.action = e.action
    BY <2>1 DEF File
  <2>3. p \in Path /\ Current(t, p) # None /\ GitMode(e) = Current(t, p).mode
    BY <2>2, EntryOf
  <2>4. p \in Tracked(t) /\ GitMode(e) = t.work[p].mode
    BY <2>3 DEF Tracked, Current
  <2>5. ListedMode(t, p) = GitMode(e)
    BY <2>4 DEF ListedMode
  <2>6. /\ GitMode(e) # "submodule"
        /\ GitMode(e) = "symlink" => f.includeSymlinks /\ Stat(t, p) = "file"
    BY <2>1, <2>2 DEF ShouldInclude
  <2>. QED BY <1>2, <2>4, <2>5, <2>6
<1>4. CASE g \in UntrackedFiles(t, f).files
  <2>1. PICK u \in Untracked(t) : g = File(u, "A") /\ ShouldInclude(t, f, u, "A", UntrackedMode(t, u))
    BY <1>4, UntrackedListed
  <2>2. p = u /\ p \in Untracked(t) /\ p \notin Tracked(t) /\ "A" # "D"
    BY <2>1 DEF File, Untracked, Tracked
  <2>3. ListedMode(t, p) = UntrackedMode(t, p)
    BY <2>2 DEF ListedMode
  <2>4. /\ UntrackedMode(t, p) # "submodule"
        /\ UntrackedMode(t, p) = "symlink" => f.includeSymlinks /\ Stat(t, p) = "file"
    BY <2>1, <2>2 DEF ShouldInclude
  <2>. QED BY <1>2, <2>2, <2>3, <2>4
<1>. QED BY <1>3, <1>4 DEF Affected

-----------------------------------------------------------------------------
(* The invariant                                                           *)

Step      == InListing \cup {"ready", "lines", "failed"}
AnswerSet == [key : Key, ok : BOOLEAN, files : Files]

\* What a check was told by a set of answers, whatever they are.
Told(as, k) == \E b \in as : b.key = k /\ ~b.ok

\* The list that a call computes when nothing fails, and that it is.
ListOf(t, all, k) ==
  IF k.kind = "affected" /\ ~all THEN AffectedFiles(t, k.filter) ELSE AllFiles(t, k.filter)
Right(t, all, k, fs) == ListOf(t, all, k).ok /\ fs = ListOf(t, all, k).files

\* Whole or not, a list of affected files has nothing else.
Sourced(t, all, k, fs) ==
  k.kind = "affected" /\ ~all => \A g \in fs : Affected(t, k.filter, g)

\* The list of a key is right, unless a check was told of an error; and it has
\* nothing that it should not have.
Fine(t, all, as, k, fs) == (Right(t, all, k, fs) \/ Told(as, k)) /\ Sourced(t, all, k, fs)

\* A file of an answer.
LineOf(as, k) ==
  \E a \in as : a.ok /\ \E f \in a.files : k = [kind |-> "lines", list |-> a.key, path |-> f.path]

ScmTypes ==
  /\ setup \in Setup
  /\ mu \in Check \cup {None}
  /\ err \in BOOLEAN
  /\ \A k \in DOMAIN memo : k \in Key /\ memo[k] \in Value /\ (k \notin ListKey => memo[k].files = {})
  /\ fileMu \subseteq LineKey
  /\ pc \in [Check -> Step]
  /\ call \in [Check -> Key \cup {None}]
  /\ files \in Files
  /\ answers \in [Check -> SUBSET AnswerSet]

\* Who holds which lock.
LockInv ==
  /\ \A c \in Check : (mu = c) <=> pc[c] \in InListing
  /\ \A c \in Check : pc[c] = "lines" => call[c] \in fileMu
  /\ \A k \in fileMu : \E c \in Check : pc[c] = "lines" /\ call[c] = k
  /\ \A c, d \in Check : pc[c] = "lines" /\ pc[d] = "lines" /\ call[c] = call[d] => c = d

\* What the call of check c is, and how far its list is.
Computing(c) ==
  /\ pc[c] \in {"diff", "others"} =>
       call[c] \in ListKey /\ call[c].kind = "affected" /\ ~setup.returnAll
  /\ pc[c] = "others" =>
       /\ AffectedTracked(setup.tree, call[c].filter).ok
       /\ files = AffectedTracked(setup.tree, call[c].filter).files
  /\ pc[c] \in {"ls", "actions"} =>
       call[c] \in ListKey /\ (call[c].kind = "affected" => setup.returnAll)
  /\ pc[c] = "return" =>
       /\ call[c] \in ListKey
       /\ err \/ Right(setup.tree, setup.returnAll, call[c], files)
       /\ Sourced(setup.tree, setup.returnAll, call[c], files)
  /\ pc[c] = "log" => call[c] \in CommitKey
  /\ pc[c] = "lines" => LineOf(answers[c], call[c])

CallInv == \A c \in Check : Computing(c)

\* What is remembered, and what was answered.
MemoInv ==
  \A k \in DOMAIN memo : k \in ListKey =>
    memo[k].ok /\ Fine(setup.tree, setup.returnAll, Answers, k, memo[k].files)

AnswerInv ==
  \A a \in Answers : /\ a.key \notin ListKey => a.files = {}
                     /\ a.key \in ListKey /\ a.ok =>
                          Fine(setup.tree, setup.returnAll, Answers, a.key, a.files)

\* As long as git works, what affected_files() gave can be read.
LinesInv ==
  ~setup.returnAll /\ ~err =>
    /\ \A k \in DOMAIN memo : k \in LineKey /\ k.list.kind = "affected" => memo[k].ok
    /\ \A a \in Answers : a.key \in LineKey /\ a.key.list.kind = "affected" => a.ok

ScmInv == ScmTypes /\ LockInv /\ CallInv /\ MemoInv /\ AnswerInv /\ LinesInv

-----------------------------------------------------------------------------
(* Types                                                                   *)

LEMMA KeyKinds ==
  /\ \A k \in ListKey : k.kind \in {"affected", "all"} /\ k.filter \in Filter
  /\ \A k \in CommitKey : k.kind = "commits"
  /\ \A k \in LineKey : k.kind = "lines" /\ k.list \in ListKey /\ k.path \in Path
  /\ \A k \in Key : k \in ListKey \/ k \in CommitKey \/ k \in LineKey
BY DEF ListKey, CommitKey, LineKey, Key

\* The kind says which key it is.
LEMMA KindOf ==
  ASSUME NEW k \in Key
  PROVE  /\ k \in ListKey <=> k.kind \in {"affected", "all"}
         /\ k \in CommitKey <=> k.kind = "commits"
         /\ k \in LineKey <=> k.kind = "lines"
BY KeyKinds

\* Files of a checkout are files.
LEMMA FileTypes ==
  ASSUME NEW t \in Checkout, NEW f \in Filter
  PROVE  /\ AffectedTracked(t, f).files \in Files
         /\ UntrackedFiles(t, f).files \in Files
         /\ AllFiles(t, f).files \in Files
<1>. DEFINE Acts == {"", "A", "C", "D", "M", "R", "T"}
<1>1. ASSUME NEW p \in Path, NEW a \in Acts PROVE File(p, a) \in [path : Path, action : Acts]
  <2>. HIDE DEF Acts
  <2>. QED BY DEF File
<1>2. Files = SUBSET [path : Path, action : Acts]
  BY DEF Files
<1>3. \A g \in AffectedTracked(t, f).files : g \in [path : Path, action : Acts]
  <2>1. ASSUME NEW g \in AffectedTracked(t, f).files PROVE g \in [path : Path, action : Acts]
    <3>1. PICK e \in DiffRaw(t) : g = File(e.path, e.action)
      BY TrackedListed
    <3>2. e.path \in Path /\ e.action \in Acts
      BY EntryOf
    <3>. HIDE DEF Acts
    <3>. QED BY <1>1, <3>1, <3>2
  <2>. QED BY <2>1
<1>4. \A g \in UntrackedFiles(t, f).files : g \in [path : Path, action : Acts]
  <2>1. ASSUME NEW g \in UntrackedFiles(t, f).files PROVE g \in [path : Path, action : Acts]
    <3>1. PICK p \in Untracked(t) : g = File(p, "A")
      BY UntrackedListed
    <3>2. p \in Path /\ "A" \in Acts
      BY DEF Untracked
    <3>. HIDE DEF Acts
    <3>. QED BY <1>1, <3>1, <3>2
  <2>. QED BY <2>1
<1>5. \A g \in AllFiles(t, f).files : g \in [path : Path, action : Acts]
  <2>1. ASSUME NEW g \in AllFiles(t, f).files PROVE g \in [path : Path, action : Acts]
    <3>1. PICK p \in Tracked(t) \cup Untracked(t) : g = File(p, ActionFor(t, f, p))
      BY AllListed
    <3>2. p \in Path
      BY DEF Tracked, Untracked
    <3>3. ActionFor(t, f, p) = "" \/ HasEntry(t, p, ActionFor(t, f, p))
      BY ActionFound
    <3>4. ActionFor(t, f, p) \in Acts
      BY <3>3, EntryOf DEF HasEntry
    <3>. HIDE DEF Acts
    <3>. QED BY <1>1, <3>1, <3>2, <3>4
  <2>. QED BY <2>1
<1>. HIDE DEF Acts
<1>. QED BY <1>2, <1>3, <1>4, <1>5

\* A list that is right has nothing that it should not have.
LEMMA RightIsSourced ==
  ASSUME NEW t, NEW all, NEW k, NEW fs, Right(t, all, k, fs)
  PROVE  Sourced(t, all, k, fs)
<1>. SUFFICES ASSUME k.kind = "affected", ~all PROVE \A g \in fs : Affected(t, k.filter, g)
  BY DEF Sourced
<1>1. AffectedFiles(t, k.filter).ok /\ fs = AffectedFiles(t, k.filter).files
  BY DEF Right, ListOf
<1>2. fs = AffectedTracked(t, k.filter).files \cup UntrackedFiles(t, k.filter).files
  BY <1>1, AffectedListed
<1>. QED BY <1>2 DEF Affected

LEMMA ScmStarts == Init => ScmInv
<1>. SUFFICES ASSUME Init PROVE ScmInv
  OBVIOUS
<1>1. /\ setup \in Setup /\ mu = None /\ err = FALSE /\ fileMu = {} /\ files = {}
      /\ \A c \in Check : pc[c] = "ready" /\ c # None
  BY ScmAssumption DEF Init
<1>2. DOMAIN memo = {}
  <2>1. memo = <<>>
    BY DEF Init
  <2>. QED BY <2>1
<1>3. Answers = {}
  BY DEF Init, Answers
<1>4. ScmTypes
  <2>1. pc \in [Check -> Step] /\ call \in [Check -> Key \cup {None}] /\ answers \in [Check -> SUBSET AnswerSet]
    BY DEF Init, Step
  <2>. QED BY <1>1, <1>2, <2>1 DEF ScmTypes, Files
<1>5. LockInv
  BY <1>1 DEF LockInv, InListing
<1>6. CallInv
  BY <1>1 DEF CallInv, Computing
<1>. QED BY <1>2, <1>3, <1>4, <1>5, <1>6 DEF ScmInv, MemoInv, AnswerInv, LinesInv

-----------------------------------------------------------------------------
(* What steps have in common                                               *)

\* A call is answered.
LEMMA Responds ==
  ASSUME ScmTypes, NEW c \in Check, NEW k \in Key, NEW v \in Value, Respond(c, k, v)
  PROVE  /\ pc' \in [Check -> Step] /\ call' \in [Check -> Key \cup {None}]
         /\ answers' \in [Check -> SUBSET AnswerSet]
         /\ pc'[c] \in {"ready", "failed"}
         /\ \A d \in Check : d # c => pc'[d] = pc[d] /\ call'[d] = call[d] /\ answers'[d] = answers[d]
         /\ \A d \in Check : \A a : a \in answers[d] => a \in answers'[d]
         /\ \A a : a \in Answers' <=> (a \in Answers \/ a = Answer(k, v))
<1>1. /\ answers' = [answers EXCEPT ![c] = @ \cup {Answer(k, v)}]
      /\ pc' = [pc EXCEPT ![c] = IF v.ok THEN "ready" ELSE "failed"]
      /\ call' = [call EXCEPT ![c] = None]
  BY DEF Respond
<1>2. pc \in [Check -> Step] /\ call \in [Check -> Key \cup {None}] /\ answers \in [Check -> SUBSET AnswerSet]
  BY DEF ScmTypes
<1>3. Answer(k, v) \in AnswerSet
  BY DEF Answer, AnswerSet, Value
<1>4. pc' \in [Check -> Step] /\ pc'[c] \in {"ready", "failed"} /\ \A d \in Check : d # c => pc'[d] = pc[d]
  BY <1>1, <1>2 DEF Step
<1>5. call' \in [Check -> Key \cup {None}] /\ \A d \in Check : d # c => call'[d] = call[d]
  BY <1>1, <1>2
<1>. HIDE DEF Answer
<1>6. answers' \in [Check -> SUBSET AnswerSet]
  BY <1>1, <1>2, <1>3
<1>7. /\ answers'[c] = answers[c] \cup {Answer(k, v)}
      /\ \A d \in Check : d # c => answers'[d] = answers[d]
  BY <1>1, <1>2
<1>8. \A d \in Check : \A a : a \in answers[d] => a \in answers'[d]
  BY <1>7
<1>9. \A a : a \in Answers' <=> (a \in Answers \/ a = Answer(k, v))
  <2>1. \A a : a \in Answers' <=> \E d \in Check : a \in answers'[d]
    BY DEF Answers
  <2>2. \A a : a \in Answers <=> \E d \in Check : a \in answers[d]
    BY DEF Answers
  <2>. QED BY <1>7, <2>1, <2>2
<1>. QED BY <1>4, <1>5, <1>6, <1>7, <1>8, <1>9

\* What is fine stays so as more is answered.
LEMMA FineStays ==
  ASSUME NEW t, NEW all, NEW as, NEW bs, NEW k, NEW fs, Fine(t, all, as, k, fs),
         \A a : a \in as => a \in bs
  PROVE  Fine(t, all, bs, k, fs)
BY DEF Fine, Told

\* A check that computes goes on as it does while another one steps.
LEMMA OtherComputes ==
  ASSUME ScmInv, NEW c \in Check, NEW d \in Check, d # c,
         UNCHANGED setup, pc'[d] = pc[d], call'[d] = call[d], answers'[d] = answers[d],
         err => err', files' = files \/ mu = c
  PROVE  Computing(d)'
<1>1. Computing(d)
  BY DEF ScmInv, CallInv
<1>2. mu = c => pc[d] \notin InListing
  BY DEF ScmInv, LockInv
<1>3. pc[d] \in {"others", "return"} => files' = files
  BY <1>2 DEF InListing
<1>4. CASE files' = files
  BY <1>1, <1>4 DEF Computing
<1>5. CASE pc[d] \notin {"others", "return"}
  BY <1>1, <1>5 DEF Computing
<1>. QED BY <1>3, <1>4, <1>5

\* An answer that is fine leaves the answers fine.
LEMMA AnswersStay ==
  ASSUME ScmInv, NEW c \in Check, NEW k \in Key, NEW v \in Value, Respond(c, k, v),
         UNCHANGED setup, err => err',
         k \notin ListKey => v.files = {},
         k \in ListKey /\ v.ok => Fine(setup.tree, setup.returnAll, Answers', k, v.files),
         k \in LineKey /\ k.list.kind = "affected" /\ ~setup.returnAll /\ ~err' => v.ok
  PROVE  /\ AnswerInv'
         /\ ~setup.returnAll /\ ~err' =>
              \A a \in Answers' : a.key \in LineKey /\ a.key.list.kind = "affected" => a.ok
<1>1. \A a : a \in Answers' <=> (a \in Answers \/ a = Answer(k, v))
  BY Responds DEF ScmInv
<1>2. Answer(k, v).key = k /\ Answer(k, v).ok = v.ok /\ Answer(k, v).files = v.files
  BY DEF Answer
<1>3. ASSUME NEW a \in Answers'
      PROVE  /\ a.key \notin ListKey => a.files = {}
             /\ a.key \in ListKey /\ a.ok => Fine(setup.tree, setup.returnAll, Answers', a.key, a.files)
  <2>1. CASE a \in Answers
    BY <1>1, <2>1, FineStays DEF ScmInv, AnswerInv
  <2>2. CASE a = Answer(k, v)
    BY <1>2, <2>2
  <2>. QED BY <1>1, <1>3, <2>1, <2>2
<1>4. AnswerInv'
  BY <1>3 DEF AnswerInv
<1>5. ASSUME ~setup.returnAll, ~err', NEW a \in Answers', a.key \in LineKey, a.key.list.kind = "affected"
      PROVE  a.ok
  <2>1. CASE a \in Answers
    BY <1>5, <2>1 DEF ScmInv, LinesInv
  <2>2. CASE a = Answer(k, v)
    BY <1>2, <1>5, <2>2
  <2>. QED BY <1>1, <1>5, <2>1, <2>2
<1>. QED BY <1>4, <1>5

\* One more thing is remembered.
LEMMA Remembers ==
  ASSUME ScmTypes, NEW k \in Key, NEW v \in Value, k \notin ListKey => v.files = {}, memo' = MemoWith(k, v)
  PROVE  /\ k \in DOMAIN memo' /\ memo'[k] = v
         /\ \A l : l \in DOMAIN memo' => l = k \/ (l \in DOMAIN memo /\ memo'[l] = memo[l])
         /\ \A l \in DOMAIN memo' : l \in Key /\ memo'[l] \in Value /\ (l \notin ListKey => memo'[l].files = {})
<1>1. /\ k \in DOMAIN memo' /\ memo'[k] = v
      /\ \A l : l \in DOMAIN memo' => l = k \/ (l \in DOMAIN memo /\ memo'[l] = memo[l])
  BY DEF MemoWith
<1>2. \A l \in DOMAIN memo : l \in Key /\ memo[l] \in Value /\ (l \notin ListKey => memo[l].files = {})
  BY DEF ScmTypes
<1>3. ASSUME NEW l \in DOMAIN memo'
      PROVE l \in Key /\ memo'[l] \in Value /\ (l \notin ListKey => memo'[l].files = {})
  <2>1. CASE l = k
    BY <1>1, <2>1
  <2>2. CASE l \in DOMAIN memo /\ memo'[l] = memo[l]
    BY <1>2, <2>2
  <2>. QED BY <1>1, <2>1, <2>2
<1>. QED BY <1>1, <1>3

-----------------------------------------------------------------------------
(* Steps                                                                   *)

\* Remembered values are answered.
LEMMA HitKeeps ==
  ASSUME ScmInv, NEW c \in Check, pc[c] = "ready", NEW k \in DOMAIN memo, Respond(c, k, memo[k]),
         UNCHANGED <<setup, mu, err, memo, fileMu, files>>
  PROVE  ScmInv'
<1>1. k \in Key /\ memo[k] \in Value /\ (k \notin ListKey => memo[k].files = {})
  BY DEF ScmInv, ScmTypes
<1>2. /\ pc' \in [Check -> Step] /\ call' \in [Check -> Key \cup {None}]
      /\ answers' \in [Check -> SUBSET AnswerSet]
      /\ pc'[c] \in {"ready", "failed"}
      /\ \A d \in Check : d # c => pc'[d] = pc[d] /\ call'[d] = call[d] /\ answers'[d] = answers[d]
      /\ \A a : a \in Answers => a \in Answers'
  BY <1>1, Responds DEF ScmInv
<1>3. ScmTypes'
  BY <1>2 DEF ScmInv, ScmTypes
<1>4. LockInv'
  BY <1>2 DEF ScmInv, LockInv, InListing
<1>5. CallInv'
  <2>1. ASSUME NEW d \in Check PROVE Computing(d)'
    <3>1. CASE d = c
      BY <1>2, <3>1 DEF Computing
    <3>2. CASE d # c
      BY <1>2, <3>2, OtherComputes
    <3>. QED BY <3>1, <3>2
  <2>. QED BY <2>1 DEF CallInv
<1>6. MemoInv'
  <2>1. ASSUME NEW l \in DOMAIN memo, l \in ListKey
        PROVE  memo[l].ok /\ Fine(setup.tree, setup.returnAll, Answers', l, memo[l].files)
    BY <1>2, <2>1, FineStays DEF ScmInv, MemoInv
  <2>. QED BY <2>1 DEF MemoInv
<1>7. k \in ListKey => Fine(setup.tree, setup.returnAll, Answers', k, memo[k].files)
  BY <1>2, FineStays DEF ScmInv, MemoInv
<1>8. k \in LineKey /\ k.list.kind = "affected" /\ ~setup.returnAll /\ ~err => memo[k].ok
  BY DEF ScmInv, LinesInv
<1>9. /\ AnswerInv'
      /\ ~setup.returnAll /\ ~err' =>
           \A a \in Answers' : a.key \in LineKey /\ a.key.list.kind = "affected" => a.ok
  BY <1>1, <1>7, <1>8, AnswersStay
<1>10. LinesInv'
  BY <1>9 DEF ScmInv, LinesInv
<1>. QED BY <1>3, <1>4, <1>5, <1>6, <1>9, <1>10 DEF ScmInv

\* A call that gathers something is made.
LEMMA MissKeeps ==
  ASSUME ScmInv, NEW c \in Check, pc[c] = "ready", mu = None, NEW k \in ListKey \cup CommitKey,
         mu' = c, call' = [call EXCEPT ![c] = k], pc' = [pc EXCEPT ![c] = FirstStep(k)], files' = {},
         UNCHANGED <<setup, err, memo, fileMu, answers>>
  PROVE  ScmInv'
<1>1. FirstStep(k) \in {"log", "diff", "ls"} /\ k \in Key
  BY DEF FirstStep, Key
<1>2. /\ pc \in [Check -> Step] /\ call \in [Check -> Key \cup {None}]
      /\ c # None /\ \A d \in Check : pc[d] \notin InListing
  BY ScmAssumption DEF ScmInv, ScmTypes, LockInv
<1>3. FirstStep(k) \in InListing /\ FirstStep(k) \in Step /\ FirstStep(k) \notin {"lines", "return", "others", "actions"}
  BY <1>1 DEF InListing, Step
<1>4. pc' \in [Check -> Step] /\ pc'[c] = FirstStep(k) /\ \A d \in Check : d # c => pc'[d] = pc[d]
  BY <1>2, <1>3
<1>5. call' \in [Check -> Key \cup {None}] /\ call'[c] = k /\ \A d \in Check : d # c => call'[d] = call[d]
  BY <1>1, <1>2
<1>6. Answers' = Answers
  BY DEF Answers
<1>7. ScmTypes'
  BY <1>4, <1>5 DEF ScmInv, ScmTypes, Files
<1>8. LockInv'
  BY <1>2, <1>3, <1>4, <1>5 DEF ScmInv, LockInv
<1>9. CallInv'
  <2>1. Computing(c)'
    <3>1. /\ FirstStep(k) = "diff" => k \in ListKey /\ k.kind = "affected" /\ ~setup.returnAll
          /\ FirstStep(k) = "ls" => k \in ListKey /\ (k.kind = "affected" => setup.returnAll)
          /\ FirstStep(k) = "log" => k \in CommitKey
      BY <1>1, KeyKinds DEF FirstStep, returnAll
    <3>. QED BY <1>3, <1>4, <1>5, <3>1 DEF Computing
  <2>2. ASSUME NEW d \in Check, d # c PROVE Computing(d)'
    <3>1. pc'[d] = pc[d] /\ call'[d] = call[d] /\ pc[d] \notin InListing
      BY <1>2, <1>4, <1>5, <2>2
    <3>2. Computing(d)
      BY DEF ScmInv, CallInv
    <3>. QED BY <3>1, <3>2 DEF Computing, InListing
  <2>. QED BY <2>1, <2>2 DEF CallInv
<1>10. MemoInv' /\ AnswerInv' /\ LinesInv'
  BY <1>6 DEF ScmInv, MemoInv, AnswerInv, LinesInv
<1>. QED BY <1>7, <1>8, <1>9, <1>10 DEF ScmInv

\* A call that gathers something goes on.
LEMMA GoesOn ==
  ASSUME ScmInv, NEW c \in Check, pc[c] \in InListing, NEW step \in InListing, NEW fs \in Files,
         Goes(c, step, fs), UNCHANGED <<setup, fileMu>>, err => err', err' \in BOOLEAN, Computing(c)'
  PROVE  ScmInv'
<1>1. /\ pc' = [pc EXCEPT ![c] = step] /\ files' = fs /\ UNCHANGED <<mu, memo, call, answers>>
      /\ mu = c
  BY DEF Goes, ScmInv, LockInv
<1>2. pc' \in [Check -> Step] /\ pc'[c] = step /\ \A d \in Check : d # c => pc'[d] = pc[d]
  BY <1>1 DEF ScmInv, ScmTypes, Step
<1>3. Answers' = Answers
  BY <1>1 DEF Answers
<1>4. ScmTypes'
  BY <1>1, <1>2 DEF ScmInv, ScmTypes
<1>5. LockInv'
  <2>1. step # "lines" /\ pc[c] # "lines"
    BY DEF InListing
  <2>. QED BY <1>1, <1>2, <2>1 DEF ScmInv, LockInv
<1>6. CallInv'
  <2>1. ASSUME NEW d \in Check, d # c PROVE Computing(d)'
    BY <1>1, <1>2, <2>1, OtherComputes
  <2>. QED BY <2>1 DEF CallInv
<1>7. MemoInv' /\ AnswerInv' /\ LinesInv'
  BY <1>1, <1>3 DEF ScmInv, MemoInv, AnswerInv, LinesInv
<1>. QED BY <1>4, <1>5, <1>6, <1>7 DEF ScmInv

\* A call returns: its list is right, or its error is answered.
LEMMA ReturnKeeps ==
  ASSUME ScmInv, NEW c \in Check, pc[c] \in InListing, NEW k, k = call[c], k \in ListKey \cup CommitKey,
         NEW v \in Value, Return(c, v), UNCHANGED <<setup, fileMu>>, err => err', err' \in BOOLEAN,
         k \in CommitKey => v.files = {},
         k \in ListKey => /\ Sourced(setup.tree, setup.returnAll, k, v.files)
                          /\ v.ok => Right(setup.tree, setup.returnAll, k, v.files)
  PROVE  ScmInv'
<1>. DEFINE w == Remembered(k, v)
<1>1. /\ k \in Key /\ (k \notin ListKey => v.files = {} /\ k \notin LineKey)
      /\ k \in ListKey => k.kind # "commits"
  BY KindOf, KeyKinds DEF Key
<1>2. w \in Value /\ w.files = v.files /\ (k \in ListKey => w.ok)
  BY <1>1 DEF Remembered, Value
<1>. HIDE DEF w
<1>3. memo' = MemoWith(k, w) /\ mu' = None /\ files' = {} /\ Respond(c, k, v) /\ mu = c
  BY DEF Return, ScmInv, LockInv, w
<1>4. /\ pc' \in [Check -> Step] /\ call' \in [Check -> Key \cup {None}]
      /\ answers' \in [Check -> SUBSET AnswerSet]
      /\ pc'[c] \in {"ready", "failed"}
      /\ \A d \in Check : d # c => pc'[d] = pc[d] /\ call'[d] = call[d] /\ answers'[d] = answers[d]
      /\ \A a : a \in Answers' <=> (a \in Answers \/ a = Answer(k, v))
  BY <1>1, <1>3, Responds DEF ScmInv
<1>5. /\ k \in DOMAIN memo' /\ memo'[k] = w
      /\ \A l : l \in DOMAIN memo' => l = k \/ (l \in DOMAIN memo /\ memo'[l] = memo[l])
      /\ \A l \in DOMAIN memo' : l \in Key /\ memo'[l] \in Value /\ (l \notin ListKey => memo'[l].files = {})
  BY <1>1, <1>2, <1>3, Remembers DEF ScmInv
<1>6. ScmTypes'
  BY <1>3, <1>4, <1>5 DEF ScmInv, ScmTypes, Files
<1>7. LockInv'
  <2>1. \A d \in Check : d # c => pc[d] \notin InListing /\ d # None
    BY <1>3, ScmAssumption DEF ScmInv, LockInv
  <2>2. c # None /\ pc'[c] \notin InListing /\ pc'[c] # "lines" /\ pc[c] # "lines"
    BY <1>4, ScmAssumption DEF InListing
  <2>3. \A d \in Check : (mu' = d) <=> pc'[d] \in InListing
    BY <1>3, <1>4, <2>1, <2>2
  <2>4. \A d \in Check : pc'[d] = "lines" => d # c /\ pc[d] = "lines" /\ call'[d] = call[d]
    BY <1>4, <2>2
  <2>5. \A l \in fileMu : \E d \in Check : pc'[d] = "lines" /\ call'[d] = l
    BY <1>4, <2>2 DEF ScmInv, LockInv
  <2>. QED BY <2>3, <2>4, <2>5 DEF ScmInv, LockInv
<1>8. CallInv'
  <2>1. ASSUME NEW d \in Check PROVE Computing(d)'
    <3>1. CASE d = c
      BY <1>4, <3>1 DEF Computing
    <3>2. CASE d # c
      BY <1>3, <1>4, <3>2, OtherComputes
    <3>. QED BY <3>1, <3>2
  <2>. QED BY <2>1 DEF CallInv
<1>9. k \in ListKey => Fine(setup.tree, setup.returnAll, Answers', k, v.files)
  <2>. SUFFICES ASSUME k \in ListKey PROVE Fine(setup.tree, setup.returnAll, Answers', k, v.files)
    OBVIOUS
  <2>1. CASE v.ok
    BY <2>1 DEF Fine
  <2>2. CASE ~v.ok
    <3>1. Answer(k, v).key = k /\ ~Answer(k, v).ok
      BY <2>2 DEF Answer
    <3>2. Told(Answers', k)
      BY <1>4, <3>1 DEF Told
    <3>. QED BY <3>2 DEF Fine
  <2>. QED BY <2>1, <2>2
<1>10. MemoInv'
  <2>1. ASSUME NEW l \in DOMAIN memo', l \in ListKey
        PROVE  memo'[l].ok /\ Fine(setup.tree, setup.returnAll, Answers', l, memo'[l].files)
    <3>1. CASE l = k
      BY <1>2, <1>5, <1>9, <2>1, <3>1
    <3>2. CASE l \in DOMAIN memo /\ memo'[l] = memo[l]
      BY <1>4, <2>1, <3>2, FineStays DEF ScmInv, MemoInv
    <3>. QED BY <1>5, <3>1, <3>2
  <2>. QED BY <2>1 DEF MemoInv
<1>11. k \notin LineKey
  BY <1>1, KindOf, KeyKinds
<1>12. /\ AnswerInv'
       /\ ~setup.returnAll /\ ~err' =>
            \A a \in Answers' : a.key \in LineKey /\ a.key.list.kind = "affected" => a.ok
  BY <1>1, <1>3, <1>9, <1>11, AnswersStay
<1>13. LinesInv'
  <2>1. ~setup.returnAll /\ ~err' =>
          \A l \in DOMAIN memo' : l \in LineKey /\ l.list.kind = "affected" => memo'[l].ok
    BY <1>5, <1>11 DEF ScmInv, LinesInv
  <2>. QED BY <1>12, <2>1 DEF LinesInv
<1>. QED BY <1>6, <1>7, <1>8, <1>10, <1>12, <1>13 DEF ScmInv

\* A command that fails ends a call with an error.
LEMMA Fails ==
  ASSUME ScmInv, NEW c \in Check, pc[c] \in InListing \ {"return"}, Return(c, Failure),
         UNCHANGED <<setup, fileMu>>, err => err', err' \in BOOLEAN
  PROVE  ScmInv'
<1>1. call[c] \in ListKey \cup CommitKey
  BY DEF ScmInv, CallInv, Computing, InListing
<1>2. Failure \in Value /\ Failure.files = {} /\ ~Failure.ok
  BY DEF Failure, Value, Files
<1>3. Sourced(setup.tree, setup.returnAll, call[c], Failure.files)
  BY <1>2 DEF Sourced
<1>. QED BY <1>1, <1>2, <1>3, ReturnKeeps

LEMMA TreeTypes ==
  ASSUME ScmInv
  PROVE  /\ setup.tree \in Checkout /\ tree = setup.tree
         /\ setup.returnAll \in BOOLEAN /\ returnAll = setup.returnAll
BY DEF ScmInv, ScmTypes, Setup, tree, returnAll

LEMMA DiffKeeps ==
  ASSUME ScmInv, NEW c \in Check, Diff(c)
  PROVE  ScmInv'
<1>. DEFINE f == call[c].filter
            v == AffectedTracked(setup.tree, call[c].filter)
<1>1. /\ pc[c] = "diff" /\ pc[c] \in InListing \ {"return"}
      /\ call[c] \in ListKey /\ call[c].kind = "affected" /\ ~setup.returnAll
      /\ f \in Filter
  BY KeyKinds DEF Diff, InListing, ScmInv, CallInv, Computing
<1>2. v.files \in Files
  BY <1>1, FileTypes, TreeTypes
<1>3. UNCHANGED <<setup, fileMu>>
  BY DEF Diff
<1>4. CASE RunSucceeds /\ v.ok /\ Goes(c, "others", v.files)
  <2>1. "others" \in InListing /\ (err => err') /\ err' \in BOOLEAN
    BY <1>4 DEF RunSucceeds, InListing
  <2>2. pc'[c] = "others" /\ call'[c] = call[c] /\ files' = v.files /\ UNCHANGED answers
    BY <1>4 DEF Goes, ScmInv, ScmTypes
  <2>3. Computing(c)'
    BY <1>1, <1>3, <1>4, <2>2 DEF Computing
  <2>. QED BY <1>1, <1>2, <1>3, <1>4, <2>1, <2>3, GoesOn
<1>5. CASE Return(c, Failure) /\ err' = TRUE
  BY <1>1, <1>3, <1>5, Fails
<1>. QED BY <1>4, <1>5, TreeTypes DEF Diff, RunFails

LEMMA OthersKeeps ==
  ASSUME ScmInv, NEW c \in Check, Others(c)
  PROVE  ScmInv'
<1>. DEFINE k == call[c]
            u == AffectedTracked(setup.tree, call[c].filter)
            v == UntrackedFiles(setup.tree, call[c].filter)
<1>1. /\ pc[c] = "others" /\ pc[c] \in InListing \ {"return"} /\ "return" \in InListing
      /\ k \in ListKey /\ k.kind = "affected" /\ ~setup.returnAll /\ k.filter \in Filter
      /\ u.ok /\ files = u.files
  BY KeyKinds DEF Others, InListing, ScmInv, CallInv, Computing
<1>2. v.files \in Files /\ files \in Files
  BY <1>1, FileTypes, TreeTypes DEF ScmInv, ScmTypes
<1>3. UNCHANGED <<setup, fileMu>>
  BY DEF Others
<1>4. CASE RunSucceeds /\ v.ok /\ Goes(c, "return", files \cup v.files)
  <2>1. (err => err') /\ err' \in BOOLEAN
    BY <1>4 DEF RunSucceeds
  <2>2. pc'[c] = "return" /\ call'[c] = k /\ files' = files \cup v.files
    BY <1>4 DEF Goes, ScmInv, ScmTypes
  <2>3. AffectedFiles(setup.tree, k.filter).ok
        /\ AffectedFiles(setup.tree, k.filter).files = u.files \cup v.files
    <3>1. AffectedFiles(setup.tree, k.filter) = Listing(~u.ok \/ ~v.ok, u.files \cup v.files)
      BY DEF AffectedFiles
    <3>. HIDE DEF u, v
    <3>. QED BY <1>1, <1>4, <3>1 DEF Listing
  <2>4. Right(setup.tree, setup.returnAll, k, files \cup v.files)
    <3>. HIDE DEF k, u, v
    <3>. QED BY <1>1, <2>3 DEF Right, ListOf, k, v
  <2>5. Sourced(setup.tree, setup.returnAll, k, files \cup v.files)
    BY <2>4, RightIsSourced
  <2>6. Computing(c)'
    <3>. HIDE DEF k, u, v
    <3>. QED BY <1>1, <1>3, <2>2, <2>4, <2>5 DEF Computing
  <2>7. files \cup v.files \in Files
    BY <1>2 DEF Files
  <2>. QED BY <1>1, <1>3, <1>4, <2>1, <2>6, <2>7, GoesOn
<1>5. CASE RunSucceeds /\ Return(c, Failure)
  BY <1>1, <1>3, <1>5, Fails DEF RunSucceeds
<1>6. CASE RunFails /\ Goes(c, "return", files)
  <2>1. err' = TRUE
    BY <1>6 DEF RunFails
  <2>2. pc'[c] = "return" /\ call'[c] = k /\ files' = files
    BY <1>6 DEF Goes, ScmInv, ScmTypes
  <2>3. Sourced(setup.tree, setup.returnAll, k, files)
    BY <1>1 DEF Sourced, Affected
  <2>4. Computing(c)'
    <3>. HIDE DEF k, u, v
    <3>. QED BY <1>1, <1>3, <2>1, <2>2, <2>3 DEF Computing
  <2>. QED BY <1>1, <1>2, <1>3, <1>6, <2>1, <2>4, GoesOn
<1>. QED BY <1>4, <1>5, <1>6, TreeTypes DEF Others

LEMMA LsFilesKeeps ==
  ASSUME ScmInv, NEW c \in Check, LsFiles(c)
  PROVE  ScmInv'
<1>1. /\ pc[c] = "ls" /\ pc[c] \in InListing \ {"return"} /\ "actions" \in InListing
      /\ call[c] \in ListKey /\ (call[c].kind = "affected" => setup.returnAll)
      /\ files \in Files /\ UNCHANGED <<setup, fileMu>>
  BY DEF LsFiles, InListing, ScmInv, ScmTypes, CallInv, Computing
<1>2. CASE RunSucceeds /\ Goes(c, "actions", files)
  <2>1. (err => err') /\ err' \in BOOLEAN
    BY <1>2 DEF RunSucceeds
  <2>2. pc'[c] = "actions" /\ call'[c] = call[c]
    BY <1>2 DEF Goes, ScmInv, ScmTypes
  <2>3. Computing(c)'
    BY <1>1, <2>2 DEF Computing
  <2>. QED BY <1>1, <1>2, <2>1, <2>3, GoesOn
<1>3. CASE RunFails /\ Return(c, Failure)
  BY <1>1, <1>3, Fails DEF RunFails
<1>. QED BY <1>2, <1>3 DEF LsFiles

LEMMA ActionsKeeps ==
  ASSUME ScmInv, NEW c \in Check, Actions(c)
  PROVE  ScmInv'
<1>. DEFINE k == call[c]
            v == AllFiles(setup.tree, call[c].filter)
<1>1. /\ pc[c] = "actions" /\ pc[c] \in InListing \ {"return"} /\ "return" \in InListing
      /\ k \in ListKey /\ (k.kind = "affected" => setup.returnAll) /\ k.filter \in Filter
      /\ UNCHANGED <<setup, fileMu>>
  BY KeyKinds DEF Actions, InListing, ScmInv, CallInv, Computing
<1>2. v.files \in Files
  BY <1>1, FileTypes, TreeTypes
<1>3. CASE RunSucceeds /\ v.ok /\ Goes(c, "return", v.files)
  <2>1. (err => err') /\ err' \in BOOLEAN
    BY <1>3 DEF RunSucceeds
  <2>2. pc'[c] = "return" /\ call'[c] = k /\ files' = v.files
    BY <1>3 DEF Goes, ScmInv, ScmTypes
  <2>3. Right(setup.tree, setup.returnAll, k, v.files)
    BY <1>1, <1>3 DEF Right, ListOf
  <2>4. Sourced(setup.tree, setup.returnAll, k, v.files)
    BY <2>3, RightIsSourced
  <2>5. Computing(c)'
    <3>. HIDE DEF k, v
    <3>. QED BY <1>1, <2>2, <2>3, <2>4 DEF Computing
  <2>. QED BY <1>1, <1>2, <1>3, <2>1, <2>5, GoesOn
<1>4. CASE RunSucceeds /\ Return(c, Failure)
  BY <1>1, <1>4, Fails DEF RunSucceeds
<1>5. CASE err' = TRUE /\ Return(c, Failure)
  BY <1>1, <1>5, Fails
<1>. QED BY <1>3, <1>4, <1>5, TreeTypes DEF Actions, RunFails

LEMMA ReturnListKeeps ==
  ASSUME ScmInv, NEW c \in Check, ReturnList(c)
  PROVE  ScmInv'
<1>. DEFINE v == [ok |-> ~err, files |-> files]
<1>1. /\ pc[c] = "return" /\ pc[c] \in InListing /\ call[c] \in ListKey /\ call[c] \notin CommitKey
      /\ err \/ Right(setup.tree, setup.returnAll, call[c], files)
      /\ Sourced(setup.tree, setup.returnAll, call[c], files)
      /\ err \in BOOLEAN /\ files \in Files /\ UNCHANGED <<setup, err, fileMu>>
  BY KeyKinds DEF ReturnList, InListing, ScmInv, ScmTypes, CallInv, Computing
<1>2. v \in Value /\ v.files = files /\ (v.ok <=> ~err) /\ Return(c, v)
  BY <1>1 DEF Value, ReturnList
<1>. HIDE DEF v
<1>. QED BY <1>1, <1>2, ReturnKeeps

LEMMA LogKeeps ==
  ASSUME ScmInv, NEW c \in Check, Log(c)
  PROVE  ScmInv'
<1>1. /\ pc[c] = "log" /\ pc[c] \in InListing \ {"return"}
      /\ call[c] \in CommitKey /\ call[c] \notin ListKey /\ UNCHANGED <<setup, fileMu>>
  BY KeyKinds DEF Log, InListing, ScmInv, CallInv, Computing
<1>2. CASE RunSucceeds /\ Return(c, Done)
  <2>1. Done \in Value /\ Done.files = {}
    BY DEF Done, Value, Files
  <2>. QED BY <1>1, <1>2, <2>1, ReturnKeeps DEF RunSucceeds
<1>3. CASE RunFails /\ Return(c, Failure)
  BY <1>1, <1>3, Fails DEF RunFails
<1>. QED BY <1>2, <1>3 DEF Log

\* The files of a check are those of answers with lists.
LEMMA LineKeys ==
  ASSUME ScmInv, NEW c \in Check, NEW k, LineOf(answers[c], k)
  PROVE  k \in LineKey /\ k.kind = "lines"
<1>1. PICK a \in answers[c] : a.ok /\ \E f \in a.files : k = [kind |-> "lines", list |-> a.key, path |-> f.path]
  BY DEF LineOf
<1>2. PICK f \in a.files : k = [kind |-> "lines", list |-> a.key, path |-> f.path]
  BY <1>1
<1>3. a \in Answers /\ a \in AnswerSet
  BY DEF Answers, ScmInv, ScmTypes
<1>4. a.key \in ListKey
  BY <1>2, <1>3 DEF ScmInv, AnswerInv
<1>5. f.path \in Path
  BY <1>2, <1>3 DEF AnswerSet, Files
<1>. QED BY <1>2, <1>4, <1>5 DEF LineKey

LEMMA LinesMissKeeps ==
  ASSUME ScmInv, NEW c \in Check, NEW k, LineOf(answers[c], k), LinesMiss(c, k)
  PROVE  ScmInv'
<1>1. /\ pc[c] = "ready" /\ k \notin fileMu /\ k \in LineKey /\ k \in Key
      /\ fileMu' = fileMu \cup {k} /\ call' = [call EXCEPT ![c] = k] /\ pc' = [pc EXCEPT ![c] = "lines"]
      /\ UNCHANGED <<setup, mu, err, memo, files, answers>>
  BY LineKeys DEF LinesMiss, MayAsk, MayCall, Key
<1>2. /\ pc' \in [Check -> Step] /\ pc'[c] = "lines" /\ \A d \in Check : d # c => pc'[d] = pc[d]
      /\ call' \in [Check -> Key \cup {None}] /\ call'[c] = k /\ \A d \in Check : d # c => call'[d] = call[d]
  BY <1>1 DEF ScmInv, ScmTypes, Step
<1>3. Answers' = Answers
  BY <1>1 DEF Answers
<1>4. ScmTypes'
  BY <1>1, <1>2 DEF ScmInv, ScmTypes
<1>5. LockInv'
  <2>1. \A d \in Check : d # c /\ pc'[d] = "lines" => call'[d] \in fileMu
    BY <1>2 DEF ScmInv, LockInv
  <2>2. \A d \in Check : (mu' = d) <=> pc'[d] \in InListing
    BY <1>1, <1>2 DEF ScmInv, LockInv, InListing
  <2>3. \A l \in fileMu : \E d \in Check : pc'[d] = "lines" /\ call'[d] = l
    BY <1>1, <1>2 DEF ScmInv, LockInv
  <2>4. \A b, d \in Check : pc'[b] = "lines" /\ pc'[d] = "lines" /\ call'[b] = call'[d] => b = d
    BY <1>1, <1>2, <2>1 DEF ScmInv, LockInv
  <2>. QED BY <1>1, <1>2, <2>1, <2>2, <2>3, <2>4 DEF LockInv
<1>6. CallInv'
  <2>1. Computing(c)'
    BY <1>1, <1>2 DEF Computing
  <2>2. ASSUME NEW d \in Check, d # c PROVE Computing(d)'
    BY <1>1, <1>2, <2>2, OtherComputes
  <2>. QED BY <2>1, <2>2 DEF CallInv
<1>7. MemoInv' /\ AnswerInv' /\ LinesInv'
  BY <1>1, <1>3 DEF ScmInv, MemoInv, AnswerInv, LinesInv
<1>. QED BY <1>4, <1>5, <1>6, <1>7 DEF ScmInv

\* new_lines() returns.
LEMMA LinesReturn ==
  ASSUME ScmInv, NEW c \in Check, pc[c] = "lines", NEW k, k = call[c], NEW v \in {Done, Failure},
         memo' = MemoWith(k, v), fileMu' = fileMu \ {k}, Respond(c, k, v),
         UNCHANGED <<setup, mu, files>>, err => err', err' \in BOOLEAN,
         k.list.kind = "affected" /\ ~setup.returnAll /\ ~err' => v.ok
  PROVE  ScmInv'
<1>1. /\ v \in Value /\ v.files = {} /\ k \in LineKey /\ k \in Key /\ k \notin ListKey
  <2>1. LineOf(answers[c], k)
    BY DEF ScmInv, CallInv, Computing
  <2>2. k \in LineKey /\ k \in Key /\ k \notin ListKey
    BY <2>1, LineKeys, KeyKinds DEF Key
  <2>3. Done \in Value /\ Done.files = {} /\ Failure \in Value /\ Failure.files = {}
    BY DEF Done, Failure, Value, Files
  <2>. QED BY <2>2, <2>3
<1>2. /\ pc' \in [Check -> Step] /\ call' \in [Check -> Key \cup {None}]
      /\ answers' \in [Check -> SUBSET AnswerSet]
      /\ pc'[c] \in {"ready", "failed"}
      /\ \A d \in Check : d # c => pc'[d] = pc[d] /\ call'[d] = call[d] /\ answers'[d] = answers[d]
      /\ \A a : a \in Answers => a \in Answers'
  BY <1>1, Responds DEF ScmInv
<1>3. /\ k \in DOMAIN memo' /\ memo'[k] = v
      /\ \A l : l \in DOMAIN memo' => l = k \/ (l \in DOMAIN memo /\ memo'[l] = memo[l])
      /\ \A l \in DOMAIN memo' : l \in Key /\ memo'[l] \in Value /\ (l \notin ListKey => memo'[l].files = {})
  BY <1>1, Remembers DEF ScmInv
<1>4. ScmTypes'
  BY <1>2, <1>3 DEF ScmInv, ScmTypes
<1>5. LockInv'
  <2>1. pc'[c] \notin InListing /\ pc'[c] # "lines" /\ pc[c] \notin InListing
    BY <1>2 DEF InListing
  <2>2. \A d \in Check : (mu' = d) <=> pc'[d] \in InListing
    BY <1>2, <2>1 DEF ScmInv, LockInv
  <2>3. \A d \in Check : pc'[d] = "lines" => d # c /\ pc[d] = "lines" /\ call'[d] = call[d]
    BY <1>2, <2>1
  <2>4. \A d \in Check : pc'[d] = "lines" => call'[d] \in fileMu'
    BY <2>3 DEF ScmInv, LockInv
  <2>5. \A l \in fileMu' : \E d \in Check : pc'[d] = "lines" /\ call'[d] = l
    <3>1. ASSUME NEW l \in fileMu, l # k PROVE \E d \in Check : pc'[d] = "lines" /\ call'[d] = l
      <4>1. PICK d \in Check : pc[d] = "lines" /\ call[d] = l
        BY DEF ScmInv, LockInv
      <4>2. d # c
        BY <3>1, <4>1
      <4>. QED BY <1>2, <4>1, <4>2
    <3>. QED BY <3>1
  <2>6. \A b, d \in Check : pc'[b] = "lines" /\ pc'[d] = "lines" /\ call'[b] = call'[d] => b = d
    BY <2>3 DEF ScmInv, LockInv
  <2>. QED BY <2>2, <2>4, <2>5, <2>6 DEF LockInv
<1>6. CallInv'
  <2>1. ASSUME NEW d \in Check PROVE Computing(d)'
    <3>1. CASE d = c
      BY <1>2, <3>1 DEF Computing
    <3>2. CASE d # c
      BY <1>2, <3>2, OtherComputes
    <3>. QED BY <3>1, <3>2
  <2>. QED BY <2>1 DEF CallInv
<1>7. MemoInv'
  <2>1. ASSUME NEW l \in DOMAIN memo', l \in ListKey
        PROVE  memo'[l].ok /\ Fine(setup.tree, setup.returnAll, Answers', l, memo'[l].files)
    BY <1>1, <1>2, <1>3, <2>1, FineStays DEF ScmInv, MemoInv
  <2>. QED BY <2>1 DEF MemoInv
<1>8. /\ AnswerInv'
      /\ ~setup.returnAll /\ ~err' =>
           \A a \in Answers' : a.key \in LineKey /\ a.key.list.kind = "affected" => a.ok
  BY <1>1, AnswersStay
<1>9. LinesInv'
  <2>1. ASSUME ~setup.returnAll, ~err', NEW l \in DOMAIN memo', l \in LineKey, l.list.kind = "affected"
        PROVE  memo'[l].ok
    <3>1. CASE l = k
      BY <1>3, <2>1, <3>1
    <3>2. CASE l \in DOMAIN memo /\ memo'[l] = memo[l]
      BY <2>1, <3>2 DEF ScmInv, LinesInv
    <3>. QED BY <1>3, <2>1, <3>1, <3>2
  <2>. QED BY <1>8, <2>1 DEF LinesInv
<1>. QED BY <1>4, <1>5, <1>6, <1>7, <1>8, <1>9 DEF ScmInv

\* What affected_files() gave can be read when git works.
LEMMA GivenIsReadable ==
  ASSUME ScmInv, NEW c \in Check, NEW k, LineOf(answers[c], k), k.list.kind = "affected", ~setup.returnAll
  PROVE  LinesOk(setup.tree, FALSE, FileOf(c, k))
<1>1. PICK a \in answers[c] : a.ok /\ \E f \in a.files : k = [kind |-> "lines", list |-> a.key, path |-> f.path]
  BY DEF LineOf
<1>2. PICK f \in a.files : k = [kind |-> "lines", list |-> a.key, path |-> f.path]
  BY <1>1
<1>3. k.list = a.key /\ k.path = f.path
  BY <1>2
<1>4. f \in Given(c, k)
  BY <1>1, <1>3 DEF Given
<1>5. FileOf(c, k) \in Given(c, k)
  BY <1>3, <1>4 DEF FileOf
<1>. DEFINE g == FileOf(c, k)
<1>. HIDE DEF g
<1>6. PICK b \in answers[c] : b.key = k.list /\ b.ok /\ g \in b.files
  BY <1>5 DEF Given, g
<1>7. b \in Answers /\ k.list \in ListKey
  BY <1>6, LineKeys, KeyKinds DEF Answers
<1>8. Sourced(setup.tree, setup.returnAll, k.list, b.files)
  BY <1>6, <1>7 DEF ScmInv, AnswerInv, Fine
<1>9. Affected(setup.tree, k.list.filter, g)
  BY <1>6, <1>8 DEF Sourced
<1>10. /\ g.action # "D" => \/ Stat(setup.tree, g.path) = "file" /\ Current(setup.tree, g.path) = None
                           \/ setup.tree.upstream[g.path] # Current(setup.tree, g.path)
  BY <1>9, AffectedIsThere, TreeTypes
<1>. QED BY <1>10 DEF LinesOk, g

LEMMA NewLinesKeeps ==
  ASSUME ScmInv, NEW c \in Check, NewLines(c)
  PROVE  ScmInv'
<1>. DEFINE k == call[c]
            v == IF LinesOk(setup.tree, setup.returnAll, FileOf(c, k)) THEN Done ELSE Failure
            Ends(w) == memo' = MemoWith(k, w) /\ fileMu' = fileMu \ {k} /\ Respond(c, k, w)
<1>1. /\ pc[c] = "lines" /\ LineOf(answers[c], k) /\ UNCHANGED <<setup, mu, files>>
      /\ err \in BOOLEAN /\ setup.returnAll \in BOOLEAN
  BY TreeTypes DEF NewLines, ScmInv, ScmTypes, CallInv, Computing
<1>2. v \in {Done, Failure} /\ (k.list.kind = "affected" /\ ~setup.returnAll => v.ok)
  <2>1. k.list.kind = "affected" /\ ~setup.returnAll => LinesOk(setup.tree, setup.returnAll, FileOf(c, k))
    BY <1>1, GivenIsReadable
  <2>. HIDE DEF k
  <2>. QED BY <2>1 DEF Done
<1>3. \/ err' = err /\ Ends(v)
      \/ RunSucceeds /\ Ends(v)
      \/ RunFails /\ Ends(Failure)
  <2>. HIDE DEF k
  <2>. QED BY TreeTypes DEF NewLines, k
<1>. HIDE DEF k, v
<1>4. ASSUME Ends(v), err => err', err' \in BOOLEAN PROVE ScmInv'
  BY <1>1, <1>2, <1>4, LinesReturn DEF k
<1>5. CASE RunFails /\ Ends(Failure)
  <2>1. err' = TRUE
    BY <1>5 DEF RunFails
  <2>. QED BY <1>1, <1>5, <2>1, LinesReturn DEF k
<1>6. err' = err => (err => err') /\ err' \in BOOLEAN
  BY <1>1
<1>7. RunSucceeds => (err => err') /\ err' \in BOOLEAN
  BY DEF RunSucceeds
<1>. HIDE DEF Ends
<1>. QED BY <1>3, <1>4, <1>5, <1>6, <1>7

-----------------------------------------------------------------------------
(* The theorems                                                            *)

\* ScmInv is an inductive invariant of the checks that call the SCM.
THEOREM ScmInvariance == Spec => []ScmInv
<1>1. Init => ScmInv
  BY ScmStarts
<1>2. ScmInv /\ [Next]_vars => ScmInv'
  <2>. SUFFICES ASSUME ScmInv, [Next]_vars PROVE ScmInv'
    OBVIOUS
  <2>1. ASSUME NEW c \in Check, ListStep(c) PROVE ScmInv'
    <3>1. ASSUME NEW k \in CommitKey \cup ListKey, Hit(c, k) PROVE ScmInv'
      <4>1. pc[c] = "ready" /\ k \in DOMAIN memo /\ Respond(c, k, memo[k])
            /\ UNCHANGED <<setup, mu, err, memo, fileMu, files>>
        BY <3>1 DEF Hit, MayCall, Known
      <4>. QED BY <4>1, HitKeeps
    <3>2. ASSUME NEW k \in CommitKey \cup ListKey, Miss(c, k) PROVE ScmInv'
      BY <3>2, MissKeeps DEF Miss, MayCall
    <3>. QED BY <2>1, <3>1, <3>2, DiffKeeps, OthersKeeps, LsFilesKeeps, ActionsKeeps, ReturnListKeeps,
                LogKeeps DEF ListStep
  <2>2. ASSUME NEW c \in Check, LineStep(c) PROVE ScmInv'
    <3>1. ASSUME NEW k \in LinesOf(c), LinesHit(c, k) PROVE ScmInv'
      <4>1. pc[c] = "ready" /\ k \in DOMAIN memo /\ Respond(c, k, memo[k])
            /\ UNCHANGED <<setup, mu, err, memo, fileMu, files>>
        BY <3>1 DEF LinesHit, MayAsk, MayCall, Known
      <4>. QED BY <4>1, HitKeeps
    <3>2. ASSUME NEW k \in LinesOf(c), LinesMiss(c, k) PROVE ScmInv'
      <4>1. LineOf(answers[c], k)
        BY DEF LinesOf, LineOf
      <4>. QED BY <3>2, <4>1, LinesMissKeeps
    <3>. QED BY <2>2, <3>1, <3>2, NewLinesKeeps DEF LineStep
  <2>3. CASE UNCHANGED vars
    <3>1. UNCHANGED <<setup, mu, err, memo, fileMu, pc, call, files, answers>>
      BY <2>3 DEF vars
    <3>2. Answers' = Answers
      BY <3>1 DEF Answers
    <3>3. ScmTypes' /\ LockInv' /\ CallInv'
      BY <3>1 DEF ScmInv, ScmTypes, LockInv, CallInv, Computing
    <3>4. MemoInv' /\ AnswerInv' /\ LinesInv'
      BY <3>1, <3>2 DEF ScmInv, MemoInv, AnswerInv, LinesInv
    <3>. QED BY <3>3, <3>4 DEF ScmInv
  <2>. QED BY <2>1, <2>2, <2>3 DEF Next
<1>. QED BY <1>1, <1>2, PTL DEF Spec

\* Type correctness, and each lock has one holder: cachingSCM.mu the check that
\* computes a listing, the mutex of a file the check in its new_lines()
\* (runtime_ctx_scm.go:391, 82).
THEOREM TypeCorrect == Spec => []TypeOK
<1>1. ScmInv => TypeOK
  <2>. SUFFICES ASSUME ScmInv PROVE TypeOK
    OBVIOUS
  <2>1. ASSUME NEW k \in fileMu PROVE Cardinality({c \in Check : pc[c] = "lines" /\ call[c] = k}) = 1
    <3>1. PICK c \in Check : pc[c] = "lines" /\ call[c] = k
      BY DEF ScmInv, LockInv
    <3>2. {d \in Check : pc[d] = "lines" /\ call[d] = k} = {c}
      BY <3>1 DEF ScmInv, LockInv
    <3>. QED BY <3>2, FS_Singleton
  <2>. QED BY <2>1 DEF ScmInv, ScmTypes, LockInv, TypeOK, Step
<1>. QED BY <1>1, ScmInvariance, PTL

\* What a check was told in answer to a list that no check was told failed.
LEMMA ListIsRight ==
  ASSUME ScmInv, NEW a \in Answers, a.key \in ListKey, ~Reported(a.key)
  PROVE  Right(setup.tree, setup.returnAll, a.key, a.files)
<1>1. ~Told(Answers, a.key)
  BY DEF Reported, Told
<1>2. a.ok
  BY DEF Reported
<1>. QED BY <1>1, <1>2 DEF ScmInv, AnswerInv, Fine

\* A list of affected files, or of all.
LEMMA ListsAre ==
  ASSUME ScmInv
  PROVE  /\ \A a \in Answers : a.key \in Key
         /\ \A a \in Lists("affected") : a \in Answers /\ a.key \in ListKey /\ a.key.kind = "affected" /\ ~Reported(a.key)
         /\ \A a \in Lists("all") : a \in Answers /\ a.key \in ListKey /\ a.key.kind = "all" /\ ~Reported(a.key)
<1>1. \A a \in Answers : a.key \in Key
  <2>1. ASSUME NEW a \in Answers PROVE a.key \in Key
    <3>1. PICK c \in Check : a \in answers[c]
      BY DEF Answers
    <3>2. a \in AnswerSet
      BY <3>1 DEF ScmInv, ScmTypes
    <3>. QED BY <3>2 DEF AnswerSet
  <2>. QED BY <2>1
<1>. QED BY <1>1, KindOf DEF Lists

\* When git fails under one check, another one may get a list that is empty or
\* lacks the untracked files (cachingSCM remembers it, runtime_ctx_scm.go:405),
\* but only after some check was told of the error; else it gets what the code
\* computes for it, whatever the other checks asked before and meanwhile.
THEOREM RightOrToldSo == Spec => []RightOrReported
<1>1. ScmInv => RightOrReported
  <2>. SUFFICES ASSUME ScmInv, NEW a \in Answers, a.ok, a.key.kind \in {"affected", "all"}, ~Reported(a.key)
                PROVE  a.files = Reference(a.key).files
    BY DEF RightOrReported
  <2>1. a.key \in ListKey
    BY ListsAre, KindOf
  <2>. QED BY <2>1, ListIsRight DEF Right, ListOf, Reference, tree, returnAll
<1>. QED BY <1>1, ScmInvariance, PTL

\* affected_files() leaves out no regular file that differs from the upstream or
\* that git does not know, in any checkout of any paths, as long as no check was
\* told that git failed (affectedFiles, runtime_ctx_scm.go:511).
THEOREM NothingIsMissed == Spec => []NothingMissed
<1>1. ScmInv => NothingMissed
  <2>. SUFFICES ASSUME ScmInv, ~setup.returnAll, NEW a \in Lists("affected"), NEW p \in Path, Regular(p), ChangedFile(p)
                PROVE  \E f \in a.files : f.path = p /\ f.action # "D"
    BY DEF NothingMissed, returnAll
  <2>1. /\ a \in Answers /\ a.key \in ListKey /\ a.key.kind = "affected"
        /\ Right(setup.tree, setup.returnAll, a.key, a.files)
    BY ListsAre, ListIsRight
  <2>2. /\ AffectedFiles(setup.tree, a.key.filter).ok
        /\ a.files = AffectedFiles(setup.tree, a.key.filter).files
    BY <2>1 DEF Right, ListOf
  <2>3. /\ setup.tree \in Checkout /\ setup.tree.work[p] # None /\ setup.tree.work[p].mode = "file"
        /\ p \in Untracked(setup.tree) \/ (p \in Tracked(setup.tree) /\ setup.tree.upstream[p] # setup.tree.work[p])
    BY TreeTypes DEF Regular, ChangedFile
  <2>. QED BY <2>2, <2>3, ListsChanges
<1>. QED BY <1>1, ScmInvariance, PTL

\* What affected_files() lists as not deleted can be opened as a file, what it
\* lists as deleted was in the upstream and is not there any more; and
\* all_files() lists a missing path only where git diff says nothing of it
\* (shouldIncludeFile, runtime_ctx_scm.go:567).
THEOREM NoGhostIsListed == Spec => []NoGhosts
<1>1. ScmInv => NoGhosts
  <2>. SUFFICES ASSUME ScmInv PROVE NoGhosts
    OBVIOUS
  <2>. DEFINE t == setup.tree
  <2>1. t \in Checkout /\ tree = t
    BY TreeTypes
  <2>2. ASSUME ~setup.returnAll, NEW a \in Lists("affected"), NEW f \in a.files
        PROVE  IF f.action = "D" THEN t.upstream[f.path] # None /\ Current(t, f.path) = None
                                 ELSE Stat(t, f.path) = "file"
    <3>1. /\ a \in Answers /\ a.key \in ListKey /\ a.key.kind = "affected"
          /\ Right(t, setup.returnAll, a.key, a.files)
      BY <2>2, ListsAre, ListIsRight
    <3>2. Affected(t, a.key.filter, f)
      BY <2>2, <3>1, RightIsSourced DEF Sourced
    <3>. QED BY <2>1, <3>2, AffectedIsThere
  <2>3. ASSUME NEW a \in Lists("all"), NEW f \in a.files, t.work[f.path] = None, ~a.key.filter.includeDeleted
        PROVE  \/ t.upstream[f.path] = None
               \/ t.upstream[f.path].mode \notin {"file", t.index[f.path].mode}
               \/ \E q \in Path : RenamedTo(t, f.path, q)
    <3>1. /\ a \in Answers /\ a.key \in ListKey /\ a.key.kind = "all" /\ a.key.filter \in Filter
          /\ Right(t, setup.returnAll, a.key, a.files)
      BY <2>3, ListsAre, ListIsRight, KeyKinds
    <3>2. AllFiles(t, a.key.filter).ok /\ a.files = AllFiles(t, a.key.filter).files
      BY <3>1 DEF Right, ListOf
    <3>. QED BY <2>1, <2>3, <3>1, <3>2, AllIsThere
  <2>. HIDE DEF t
  <2>. QED BY <2>1, <2>2, <2>3, TreeTypes DEF NoGhosts
<1>. QED BY <1>1, ScmInvariance, PTL

\* all_files() lists what affected_files() does, but for the paths that git
\* diff has as deleted and those whose entry in the index is of another kind
\* (allFiles, runtime_ctx_scm.go:663).
THEOREM AllIsComplete == Spec => []AllComplete
<1>1. ScmInv => AllComplete
  <2>. SUFFICES ASSUME ScmInv, ~setup.returnAll, NEW a \in Lists("affected"), NEW b \in Lists("all"),
                       a.key.filter = b.key.filter, NEW f \in a.files, f.action # "D",
                       ~(~a.key.filter.includeDeleted /\ Deleted(setup.tree, f.path)),
                       ~(f.path \in Tracked(setup.tree)
                         /\ setup.tree.index[f.path].mode # setup.tree.work[f.path].mode)
                PROVE  \E g \in b.files : g.path = f.path
    BY DEF AllComplete, tree, returnAll
  <2>1. /\ a \in Answers /\ a.key \in ListKey /\ a.key.kind = "affected" /\ a.key.filter \in Filter
        /\ Right(setup.tree, setup.returnAll, a.key, a.files)
        /\ b \in Answers /\ b.key \in ListKey /\ b.key.kind = "all"
        /\ Right(setup.tree, setup.returnAll, b.key, b.files)
    BY ListsAre, ListIsRight, KeyKinds
  <2>2. Affected(setup.tree, a.key.filter, f)
    BY <2>1, RightIsSourced DEF Sourced
  <2>3. AllFiles(setup.tree, a.key.filter).ok /\ b.files = AllFiles(setup.tree, a.key.filter).files
    BY <2>1 DEF Right, ListOf
  <2>. QED BY <2>1, <2>2, <2>3, AllHasAffected, TreeTypes
<1>. QED BY <1>1, ScmInvariance, PTL

\* A check may call new_lines() on whatever affected_files() gave it, whole list
\* or not, as long as git works (newLines, runtime_ctx_scm.go:735).
THEOREM GivenCanBeRead == Spec => []ListedIsReadable
<1>1. ScmInv => ListedIsReadable
  <2>. SUFFICES ASSUME ScmInv, ~setup.returnAll, ~err, NEW a \in Answers, a.key.kind = "lines",
                       a.key.list.kind = "affected"
                PROVE  a.ok
    BY DEF ListedIsReadable, returnAll
  <2>1. a.key \in LineKey
    BY ListsAre, KindOf
  <2>. QED BY <2>1 DEF ScmInv, LinesInv
<1>. QED BY <1>1, ScmInvariance, PTL
=============================================================================

----------------------------- MODULE MCStartup -----------------------------
(***************************************************************************)
(* Instances of Startup for TLC: a plain situation, and families of        *)
(* situations that each vary one stage of it.                              *)
(***************************************************************************)
EXTENDS Startup

\* Paths as strings sort: "a-b/f" < "a/f", and "s" stands for shac.star.
Paths ==
  << <<"a-b", "f">>, <<"a", "f">>, <<"a", "s">>, <<"f">>, <<"l">>, <<"s">> >>

Lib    == <<"host", "lib">>
Nested == <<"host", "lib", "sub">>
Gone   == <<"host", "gone">>
Local  == <<"localhost", "x">>

Urls       == {Lib, Nested, Local, Gone}
Components == {"host", "lib", "sub", "gone", "localhost", "x", "std", "__main__", "a.b"}
RunningVersion == <<0, 1, 33>>
\* "x/1" has a slash; "p" is a pending change.
AllVersions == <<"", "p", "v1", "v2", "x/1">>

Dep(url, version, alias) == [url |-> url, version |-> version, alias |-> alias]
Genuine(url, version) ==
  [version |-> version, digest |-> Hash(url, version, {<< <<>>, "good" >>})]
KnownAs(url, versions) == [url |-> url, seen |-> [i \in DOMAIN versions |-> Genuine(url, versions[i])]]
AllKnownAs == <<KnownAs(Lib, <<"p", "v1", "x/1">>), KnownAs(Nested, <<"v1">>), KnownAs(Local, <<"v1">>),
                KnownAs(Gone, <<"v1">>)>>

-----------------------------------------------------------------------------

Check(n, formatter) == [name |-> n, formatter |-> formatter]
Does(checks) == [checks |-> checks, prints |-> FALSE, fails |-> FALSE]
Lint == Check("lint", FALSE)
Fmt  == Check("fmt", TRUE)

PlainTree ==
  [files   |-> ToSet(Paths), ignored |-> {},
   target  |-> [p \in ToSet(Paths) |-> IF p = <<"l">> THEN <<"f">> ELSE p],
   changed |-> [r \in Ref |-> IF r = "HEAD" THEN {<<"f">>} ELSE {<<"a-b", "f">>, <<"a", "f">>, <<"f">>}]]

Served(url, version) == IF url # Gone /\ version \in {"v1", "p", "x/1"} THEN "good" ELSE Absent

PlainStores ==
  [remote |-> [k \in Urls \X ToSet(AllVersions) |-> Served(k[1], k[2])],
   vendor |-> [u \in Urls |-> IF u \in {Nested, Gone} THEN Absent ELSE "good"], gitMayFail |-> FALSE,
   absolute |-> TRUE]

GitRepo == [found |-> "yes", commits |-> 2, branch |-> "upstream", pristine |-> TRUE]

Plain ==
  [dir |-> "directory", git |-> GitRepo, absoluteEntry |-> FALSE, config |-> "document",
   doc |-> EmptyDocument, stores |-> PlainStores, sandboxFails |-> FALSE, tree |-> PlainTree, args |-> <<>>,
   allFiles |-> FALSE, recurse |-> FALSE, vars |-> {},
   scripts |-> [d \in Directory |-> Does(IF d = <<>> THEN <<Lint, Fmt>> ELSE <<Lint>>)],
   filter |-> [allow |-> {}, deny |-> {}, formatters |-> "all"], queries |-> {}]

\* The directory and the state of git.
Places ==
  {[Plain EXCEPT !.dir = d] : d \in {"file", "missing"}}
  \cup {[Plain EXCEPT !.git = [found |-> f, commits |-> c, branch |-> b, pristine |-> p],
                      !.queries = {[listing |-> [kind |-> "affected", includeSymlinks |-> FALSE],
                                    glob |-> <<>>]}] :
          f \in {"yes", "no command", "no repository", "error"}, c \in 0..2,
          b \in {"upstream", "no upstream", "detached"}, p \in BOOLEAN}

\* Documents, most of them refused.
SomeDeps == {<<>>, <<Dep(Lib, "v1", NoAlias)>>, <<Dep(Lib, "v1", <<"std">>)>>, <<Dep(Lib, "v2", NoAlias)>>,
             <<Dep(Lib, "", NoAlias)>>, <<Dep(Lib, "v1", <<"a.b">>)>>, <<Dep(Local, "v1", <<"std">>)>>}
SomeKnown == {<<>>, <<KnownAs(Lib, <<"v1">>)>>, AllKnownAs,
              <<KnownAs(Lib, <<"v1", "p">>)>>, <<[url |-> Lib, seen |-> <<[version |-> "v1", digest |-> NoDigest]>>]>>,
              <<KnownAs(Lib, <<"v1">>), KnownAs(Lib, <<"v1">>)>>}

Documents ==
  {[Plain EXCEPT !.doc.direct = ds, !.doc.indirect = is, !.doc.known = k] :
     ds \in SomeDeps, is \in SomeDeps, k \in SomeKnown}
  \cup {[Plain EXCEPT !.config = c, !.absoluteEntry = a] :
          c \in {"none", "unreadable", "malformed"}, a \in BOOLEAN}
  \cup {[Plain EXCEPT !.doc.minVersion = v, !.doc.newFields = n] :
          v \in {<<>>, <<0>>, <<1>>, <<0, 1, 33>>, <<0, 1, 34>>, <<0, 2, 0>>, <<0, 0, 99>>, <<0, 1, 33, 0>>},
          n \in BOOLEAN}
  \cup {[Plain EXCEPT !.doc.vars = d, !.vars = v, !.doc.properties = p, !.tree.files = fs] :
          d \in {{}, {"lint"}, {""}}, v \in SUBSET {"lint"}, p \in {<<"fmt">>, <<"fmt", "fmt">>},
          fs \in {{}, ToSet(Paths)}}

\* Dependencies to fetch and to verify: one that was tampered with, pending or
\* with a slash in its version, one nested in another, aliases that clash; and
\* directories that are refused.
Retrievals ==
  {[Plain EXCEPT !.doc.direct = <<Dep(Lib, v, a), Dep(Local, "v1", NoAlias), Dep(u, "v1", <<"std">>)>>,
                 !.doc.known = AllKnownAs, !.doc.vendored = vendored,
                 !.stores.gitMayFail = fail, !.stores.remote[<<Local, "v1">>] = c,
                 !.stores.vendor[Nested] = n] :
     v \in {"v1", "p", "x/1"}, u \in {Nested, Gone}, a \in {NoAlias, Local, <<"__main__">>}, vendored \in BOOLEAN,
     fail \in BOOLEAN, c \in {"good", "other", Absent}, n \in {"good", Absent}}
  \cup {[Plain EXCEPT !.doc.direct = <<Dep(Lib, "v1", <<"std">>), Dep(Local, "v1", NoAlias)>>,
                      !.doc.known = AllKnownAs, !.doc.vendored = TRUE, !.stores.vendor[Local] = c] :
          c \in {"good", "other"}}
  \cup {[Plain EXCEPT !.doc.direct = ds, !.doc.known = IF ds = <<>> THEN <<>> ELSE AllKnownAs,
                      !.doc.vendored = v, !.doc.cleanPath = p, !.stores.absolute = a, !.sandboxFails = s] :
          ds \in {<<>>, <<Dep(Lib, "v1", NoAlias)>>, <<Dep(Gone, "v1", NoAlias)>>}, v \in BOOLEAN,
          p \in BOOLEAN, a \in BOOLEAN, s \in BOOLEAN}

\* What the shac.star files register, and the options that select checks.
Filters ==
  {[Plain EXCEPT !.recurse = r, !.filter = [allow |-> a, deny |-> d, formatters |-> f],
                 !.scripts[<<"a">>] = s] :
     r \in BOOLEAN, a \in SUBSET {"lint", "fmt"}, d \in {{}, {"lint"}, {"vet"}}, f \in {"all", "only", "none"},
     s \in {Does(<<Lint>>), Does(<<>>), [Does(<<>>) EXCEPT !.prints = TRUE], [Does(<<>>) EXCEPT !.fails = TRUE]}}
  \cup {[Plain EXCEPT !.scripts[<<>>] = [Does(<<>>) EXCEPT !.prints = TRUE], !.filter.formatters = "only"],
        [Plain EXCEPT !.recurse = TRUE, !.scripts = [d \in Directory |-> [Does(<<>>) EXCEPT !.fails = (d = <<>>)]]]}

-----------------------------------------------------------------------------

Pat(negated, matches) == [empty |-> FALSE, negated |-> negated, matches |-> matches]
EmptyPat == [empty |-> TRUE, negated |-> FALSE, matches |-> {}]
Fs   == {<<"a-b", "f">>, <<"a", "f">>, <<"f">>}

Asks(kind, links, glob) ==
  [listing |-> [kind |-> kind, includeSymlinks |-> links], glob |-> glob]

\* Listings by the checks of two directories, which share what is remembered.
Listings ==
  {[Plain EXCEPT !.recurse = r, !.doc.ignore = i, !.args = a, !.allFiles = all, !.git.found = g,
                 !.tree.ignored = {<<"a-b", "f">>}, !.queries = q] :
     r \in BOOLEAN, all \in BOOLEAN, g \in {"yes", "no repository"},
     i \in {<<>>, <<Pat(FALSE, Fs)>>, <<Pat(FALSE, ToSet(Paths) \ {<<"f">>})>>,
            <<Pat(FALSE, Fs), Pat(TRUE, {<<"a", "f">>})>>, <<EmptyPat>>},
     a \in {<<>>, << <<"l">>, <<"a", "f">>, <<"f">> >>, << <<"f">>, <<"missing">> >>},
     q \in {{Asks("affected", FALSE, <<>>), Asks("all", TRUE, <<Pat(TRUE, {<<"f">>})>>)},
            {Asks("all", FALSE, <<Pat(FALSE, Fs)>>), Asks("affected", TRUE, <<EmptyPat>>)}}}

\* One ignore pattern, or one and its exceptions.
Ignores ==
  {[Plain EXCEPT !.recurse = TRUE, !.doc.ignore = <<Pat(FALSE, s), Pat(TRUE, t)>>, !.git.found = g,
                 !.tree.changed["@{u}"] = ToSet(Paths) \ {<<"a-b", "f">>},
                 !.queries = {Asks("affected", TRUE, <<>>)}] :
     s \in SUBSET ToSet(Paths), t \in {{}, {<<"f">>}, {<<"a", "f">>, <<"s">>}},
     g \in {"yes", "no command"}}

AllSetups == Places \cup Documents \cup Retrievals \cup Filters \cup Listings \cup Ignores
=============================================================================

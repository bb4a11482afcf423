------------------------------ MODULE MCLoader ------------------------------
(***************************************************************************)
(* Source trees on which TLC explores Loader.                              *)
(***************************************************************************)
EXTENDS Loader, TLC

CONSTANTS m1, m2, m3, lib, util, gone, c1, c2, c3

load(f) == [op |-> "load", file |-> f]
register(c) == [op |-> "register", check |-> c]
print == [op |-> "print"]
fail == [op |-> "fail"]

TreeFiles == {m1, m2, m3, lib, util, gone}
Gone == {gone}
TreeChecks == {c1, c2, c3}
TwoEntries == <<m1, m2>>
ThreeEntries == <<m1, m2, m3>>

Tree(a, b, c, l, u) ==
  m1 :> a @@ m2 :> b @@ m3 :> c @@ lib :> l @@ util :> u @@ gone :> <<>>

\* A library reached along two paths by one shac.star, and in the other order
\* by another one.
Diamond == Tree(<<load(lib), load(util), register(c1)>>,
                <<load(util), load(lib), register(c2)>>,
                <<load(lib), print>>, <<>>, <<load(lib)>>)

\* A shac.star that another one loads, and a library that registers a check.
MainAsLibrary == Tree(<<load(m2), register(c1)>>, <<register(c2), load(lib)>>,
                      <<print>>, <<register(c3)>>, <<>>)

\* A shared library that fails half way.
FailingLibrary == Tree(<<register(c1), load(lib), print>>, <<load(util), print>>,
                       <<load(lib), print>>, <<load(util), fail>>, <<>>)

\* A library that loads a source that does not exist.
MissingLibrary == Tree(<<load(lib), print>>, <<load(gone)>>, <<load(lib)>>,
                       <<load(gone)>>, <<>>)

\* Only the shared library registers a check.
SharedCheck == Tree(<<load(lib)>>, <<load(util)>>, <<register(c1)>>,
                    <<register(c3)>>, <<load(lib)>>)

\* A shac.star that registers a check twice, next to one that does nothing.
Duplicate == Tree(<<load(lib), register(c1), register(c1)>>, <<load(lib)>>,
                  <<load(m1)>>, <<print>>, <<>>)

\* Two shac.star that load each other.
CrossCycle == Tree(<<load(m2), print>>, <<load(m1), print>>, <<print>>, <<>>, <<>>)

\* Every load graph on two shac.star with at most two load() each and a library
\* with one at most.
GraphFiles == {m1, m2, lib}
Bodies(max) == UNION {[1..n -> {load(f) : f \in GraphFiles}] : n \in 0..max}
AllGraphs == {Tree(a, b, <<>>, l, <<>>) : a \in Bodies(2), b \in Bodies(2), l \in Bodies(1)}

HandPicked == {Diamond, MainAsLibrary, FailingLibrary, MissingLibrary, SharedCheck, Duplicate}
TreesAndGraphs == HandPicked \cup AllGraphs
\* In these trees a check names the source that registers it.
ASSUME TreesChecksAreOwn == ChecksAreOwn

CrossTree   == {CrossCycle}
DiamondTree == {Diamond}
=============================================================================

------------------------------- MODULE Config -------------------------------
(***************************************************************************)
(* The configuration file shac.textproto: what a document may hold, and    *)
(* when it is refused (config.go, shac.proto).                             *)
(*                                                                         *)
(* Urls, aliases and paths are sequences of components.  The regular       *)
(* expressions and the sets of forbidden characters are abstracted to      *)
(* classes of versions and aliases.                                        *)
(***************************************************************************)
EXTENDS Naturals, Sequences, SequencesExt

CONSTANTS
  Running,      \* the version of this shac, a sequence of numbers
  Component,    \* components of urls and aliases
  Url,          \* urls of dependencies
  Versions,     \* the versions of dependencies, in the order of strings
  BadVersions,  \* the empty one and those that isBadVersion refuses
  BadAliases,   \* the components of those that isBadAlias refuses
  Content,      \* what a package may hold, besides packages nested in it
  Absent        \* no package

ASSUME ConfigAssumption ==
  /\ Running \in Seq(Nat)
  /\ BadVersions \subseteq ToSet(Versions)
  /\ Url \subseteq Seq(Component)
  /\ BadAliases \subseteq Component
  /\ Absent \notin Content

Version == ToSet(Versions)
NoAlias == <<>>

Dependency == [url : Url, version : Version, alias : Seq(Component)]

\* FSToDigest: every path below the directory, with its content, is hashed after
\* a prefix, url@version.  The hash is taken to be injective.
PackageTree == SUBSET (Seq(Component) \X Content)
Hash(url, version, tree) == <<url, version, tree>>
Digest == Url \X Version \X PackageTree

\* None is given, or it is not the 32 bytes of one.
NoDigest == <<>>

\* The digests seen for the versions of a url.
Known == [url : Url, seen : Seq([version : Version, digest : Digest \cup {NoDigest}])]

\* minVersion is <<>> when it is not set; one that does not parse is as good as
\* one with too many numbers.  newFields: it has fields that this shac ignores.
\* vendored: it has a vendor_path, and cleanPath, as path.Clean would write it.
\* An ignore pattern is negated or not and matches some of the paths;
\* the empty one is invalid.
DocumentOver(Path, Name) ==
  [minVersion : Seq(Nat), newFields : BOOLEAN, direct : Seq(Dependency), indirect : Seq(Dependency),
   known : Seq(Known), vendored : BOOLEAN, cleanPath : BOOLEAN,
   ignore : Seq([empty : BOOLEAN, negated : BOOLEAN, matches : SUBSET Path]),
   vars : SUBSET (Name \cup {""}), properties : Seq(Name)]

EmptyDocument ==
  [minVersion |-> <<>>, newFields |-> FALSE, direct |-> <<>>, indirect |-> <<>>, known |-> <<>>,
   vendored |-> FALSE, cleanPath |-> TRUE, ignore |-> <<>>, vars |-> {}, properties |-> <<>>]

Dependencies(doc) == doc.direct \o doc.indirect

-----------------------------------------------------------------------------

\* CheckVersion: "" or the error.  The first number that differs decides.
CheckVersion(doc) ==
  LET v == doc.minVersion IN
  IF Len(v) > Len(Running) THEN "invalid version"
  ELSE IF \E i \in DOMAIN v : v[i] > Running[i] /\ \A j \in 1..(i - 1) : v[j] = Running[j]
    THEN "unsupported version" ELSE ""

\* cleanURL: a host and a path.
CleanUrl(url) == Len(url) >= 2

ValidDependency(d) ==
  /\ CleanUrl(d.url)
  /\ ToSet(d.alias) \cap BadAliases = {}
  /\ d.version \notin BadVersions

ValidRequirements(doc) ==
  LET deps == Dependencies(doc) IN
  /\ doc.indirect # <<>> => doc.direct # <<>>
  /\ \A i \in DOMAIN deps : ValidDependency(deps[i])
  /\ \A i, j \in DOMAIN deps : i # j =>
       /\ deps[i].url # deps[j].url
       /\ deps[i].alias = deps[j].alias => deps[i].alias = NoAlias

Before(v, w) ==
  \E i, j \in DOMAIN Versions : i < j /\ Versions[i] = v /\ Versions[j] = w

ValidKnown(k) ==
  /\ CleanUrl(k.url)
  /\ k.seen # <<>>
  /\ \A i \in DOMAIN k.seen : k.seen[i].version \notin BadVersions /\ k.seen[i].digest # NoDigest
  /\ \A i \in 2..Len(k.seen) : Before(k.seen[i - 1].version, k.seen[i].version)

ValidSum(doc) ==
  /\ doc.known # <<>> => Dependencies(doc) # <<>>
  /\ \A i \in DOMAIN doc.known : ValidKnown(doc.known[i])
  /\ \A i, j \in DOMAIN doc.known : i # j => doc.known[i].url # doc.known[j].url

\* The digest that the document gives for a version of a url, or NoDigest.
KnownDigest(doc, url, version) ==
  LET found == {s \in UNION {ToSet(k.seen) : k \in {k \in ToSet(doc.known) : k.url = url}} :
                  s.version = version}
  IN IF found = {} THEN NoDigest ELSE (CHOOSE s \in found : TRUE).digest

\* Mutant: only the direct dependencies have to be known.
DirectKnown(doc) ==
  \A d \in ToSet(doc.direct) : KnownDigest(doc, d.url, d.version) # NoDigest

\* "Make sure seen is a super set of deps."
AllKnown(doc) ==
  \A d \in ToSet(Dependencies(doc)) : KnownDigest(doc, d.url, d.version) # NoDigest

Validate(doc) ==
  IF CheckVersion(doc) # "" THEN CheckVersion(doc)
  ELSE IF /\ ValidRequirements(doc) /\ ValidSum(doc) /\ AllKnown(doc)
          /\ doc.vendored => doc.cleanPath
          /\ "" \notin doc.vars THEN ""
  ELSE "invalid document"
=============================================================================

---------------------------- MODULE PackageGraph ----------------------------
(***************************************************************************)
(* pkg/catalog/resolve.go: the update graph that the channels of one       *)
(* package declare, and the order of channel names.                        *)
(*                                                                         *)
(* Bundle names and channel names are numbered in their lexical order.  A  *)
(* version is a number, 0 for one that is not a strict semantic version.   *)
(***************************************************************************)
EXTENDS Naturals, SequencesExt

CONSTANTS
    Bundles,    \* names of bundles
    Channels,   \* names of channels
    Versions,   \* versions of bundles
    Family,     \* what comes before the trailing version of a channel name
    Suffix,     \* that version
    None

ASSUME NamesAssumption    == Bundles \subseteq Nat /\ Channels \subseteq Nat
ASSUME VersionsAssumption == Versions \subseteq Nat
ASSUME SuffixAssumption   == Suffix \in [Channels -> Nat] /\ DOMAIN Family = Channels
ASSUME NoneAssumption     == None \notin Bundles \cup Channels \cup Versions

\* An entry replaces or skips the bundles in from, and those whose version is in
\* its skip range.
Entry == [name : Bundles, from : SUBSET Bundles, range : SUBSET (Versions \ {0})]

\* Every entry has a bundle: a catalog with one that has not is refused when it
\* is read.  A channel that the package lacks has no entries.
Package == [channels : [Channels -> SUBSET Entry], version : [Bundles -> Versions],
            deprecated : SUBSET Bundles, retired : SUBSET Channels]

\* The entry accepts an update from bundle b.
Accepts(p, entry, b) == b \in entry.from \/ p.version[b] \in entry.range

Successors(p, c, b) == {entry.name : entry \in {e \in p.channels[c] : Accepts(p, e, b)}}

Listed(p, c) == {entry.name : entry \in p.channels[c]}

\* The entries of channel c through which one that has b installed enters it.
Entered(p, c, b) == {entry.name : entry \in {e \in p.channels[c] : e.name = b \/ Accepts(p, e, b)}}

-----------------------------------------------------------------------------
(* currentBundle *)

\* What a client says it has installed: a bundle, or a version only.
Position == [channel : Channels, bundle : Bundles \cup {None}, version : Versions \cup {None}]

\* The entries of its channel that it may mean.
Meant(p, at) ==
    {e \in p.channels[at.channel] :
        IF at.bundle # None THEN e.name = at.bundle ELSE p.version[e.name] = at.version}

\* Seeded fault: the first bundle with the version is taken.
InstalledFirst(p, at, b) == \E e \in Meant(p, at) : e.name = b

\* Bundle b is installed.  A version is good enough only if one entry has it.
Installed(p, at, b) ==
    \E e \in Meant(p, at) : e.name = b /\ (at.bundle = None => Meant(p, at) = {e})

-----------------------------------------------------------------------------
(* Orders *)

BundleLess(p, a, b) ==
    \/ p.version[a] < p.version[b]
    \/ p.version[a] = p.version[b] /\ a < b

\* Bundle h is the last of the heads in that order.
Greatest(p, heads, h) == h \in heads /\ \A other \in heads \ {h} : BundleLess(p, other, h)

SameFamily(a, b) == Family[a] # None /\ Family[a] = Family[b]

ChannelLess(a, b) == IF SameFamily(a, b) THEN Suffix[a] < Suffix[b] ELSE a < b

\* Seeded fault: it does not.
CandidateLessAnyFamily(current, a, b) == ChannelLess(a, b)

\* The family of the current channel comes first.
CandidateLess(current, a, b) ==
    IF SameFamily(current, a) # SameFamily(current, b) THEN SameFamily(current, a)
    ELSE ChannelLess(a, b)

\* sort.Slice of at most twelve elements is an insertion sort: release r moves to
\* the left of those before it as long as it is less than the next one.  The
\* releases come from a map in any order, and the order is not transitive when
\* channels of a family are mixed with others.
Inserted(current, releases, r) ==
    LET places == {i \in 1 .. Len(releases) + 1 :
                      \A j \in i .. Len(releases) :
                          CandidateLess(current, r.channel, releases[j].channel)}
    IN  InsertAt(releases, Min(places), r)

\* The first channel of a higher version in the family of the current one, or the
\* first channel.
NextRelease(current, releases) ==
    LET newer == {i \in 1 .. Len(releases) :
                     /\ SameFamily(current, releases[i].channel)
                     /\ Suffix[current] < Suffix[releases[i].channel]}
    IN  IF releases = <<>> THEN <<>>
        ELSE IF newer # {} THEN <<releases[Min(newer)]>> ELSE <<releases[1]>>
=============================================================================

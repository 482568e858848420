---------------------------- MODULE MCCatalogReader ----------------------------
(* Instances of CatalogReader for TLC. *)
EXTENDS CatalogReader

PackageRecord(p, c)   == [schema |-> "olm.package", package |-> p, value |-> c]
ChannelRecord(p, c, e) == [schema |-> "olm.channel", package |-> p, name |-> c, value |-> e]
BundleRecord(p, b, v) == [schema |-> "olm.bundle", package |-> p, name |-> b, value |-> v]

\* Package a has a channel with an edge, of which a record or a value may be
\* missing; then come records that repeat, contradict or complete the first ones,
\* start another package, or are broken.
First ==
    {<<ChannelRecord("a", "c1", {"b1", "b2"}), BundleRecord("a", "b1", "v1"), pkg, last>> :
        pkg  \in {PackageRecord("a", c) : c \in {"c1", "c2", None}},
        last \in {BundleRecord("a", "b2", "v1"), BundleRecord("a", "b2", None), [schema |-> "other"]}}

Rest ==
    {<<ChannelRecord("a", "c1", {"b1"})>>,
     <<PackageRecord("a", "c1"), ChannelRecord("a", "c2", {})>>,
     <<BundleRecord("a", "b1", "v2"), BundleRecord("a", "b2", "v2")>>,
     <<ChannelRecord("z", "c1", {}), PackageRecord("z", "c1")>>,
     <<[schema |-> "broken"]>>}

\* The records in two or three files.
MCCatalogs ==
    {<<SubSeq(first, 1, i), SubSeq(first, i + 1, 4), rest>> : first \in First, rest \in Rest, i \in 1 .. 3}
    \cup {<<rest, first>> : first \in First, rest \in Rest}
=============================================================================

----------------------------- MODULE CatalogRecords -----------------------------
(***************************************************************************)
(* pkg/catalog/catalog.go: the records of a file-based catalog, the        *)
(* snapshot they are merged into, and when a snapshot can be served.       *)
(***************************************************************************)
EXTENDS Naturals, Sequences

CONSTANTS
    Packages,   \* names of packages
    Channels,   \* names of channels
    Bundles,    \* names of bundles
    Versions,   \* versions of bundles
    Catalogs,   \* catalogs that can be read: a sequence of files, each one of records
    None        \* no value, no package

\* A record is merged into its package, or is of another schema, or is broken: a
\* file that cannot be read, text that is not JSON, no schema, no name, no
\* package.  A channel record says which bundles have an entry.
Record ==
    [schema : {"olm.package"}, package : Packages, value : Channels \cup {None}]
    \cup [schema : {"olm.channel"}, package : Packages, name : Channels, value : SUBSET Bundles]
    \cup [schema : {"olm.bundle"}, package : Packages, name : Bundles, value : Versions \cup {None}]
    \cup [schema : {"other", "broken"}]

ASSUME CatalogsAssumption == Catalogs \subseteq Seq(Seq(Record))

\* The record makes the whole read fail: it is broken, or a bundle of no version.
Fatal(r) == r.schema = "broken" \/ (r.schema = "olm.bundle" /\ r.value = None)

Package  == [default  : Channels \cup {None},
             channels : [Channels -> (SUBSET Bundles) \cup {None}],
             bundles  : [Bundles -> Versions \cup {None}]]
Contents == [Packages -> Package \cup {None}]
Nothing  == [p \in Packages |-> None]

ASSUME NoneAssumption ==
    /\ None \notin Channels \cup Versions
    /\ \A v \in (SUBSET Bundles) \cup Package : v # None

Records(files) == UNION {{files[f][i] : i \in DOMAIN files[f]} : f \in DOMAIN files}

-----------------------------------------------------------------------------
(* A merge of records *)

\* What the records R say of package p under a schema and a name.
Of(R, p)            == {r \in R : r.schema \notin {"other", "broken"} /\ r.package = p}
Defaults(R, p)      == {r.value : r \in {q \in Of(R, p) : q.schema = "olm.package"}}
Entries(R, p, name) == {r.value : r \in {q \in Of(R, p) : q.schema = "olm.channel" /\ q.name = name}}
VersionsOf(R, p, name) == {r.value : r \in {q \in Of(R, p) : q.schema = "olm.bundle" /\ q.name = name}}

OneOf(said, v) == IF said = {} THEN v = None ELSE v \in said

\* c holds what the records R say, nothing else, and nothing is missing.  Of
\* several records for one thing it holds any one.
IsMerge(c, R) ==
    \A p \in Packages :
        IF Of(R, p) = {}
        THEN c[p] = None
        ELSE /\ c[p] \in Package
             /\ OneOf(Defaults(R, p), c[p].default)
             /\ \A name \in Channels : OneOf(Entries(R, p, name), c[p].channels[name])
             /\ \A name \in Bundles : OneOf(VersionsOf(R, p, name), c[p].bundles[name])

\* Every package has the channel that is its default, every entry its bundle.
Servable(c) ==
    \A p \in {q \in Packages : c[q] # None} :
        /\ c[p].default # None
        /\ c[p].channels[c[p].default] # None
        /\ \A name \in Channels : c[p].channels[name] # None =>
              \A b \in c[p].channels[name] : c[p].bundles[b] # None
=============================================================================

----------------------------- MODULE CatalogReader -----------------------------
(***************************************************************************)
(* pkg/catalog/catalog.go: the files of a catalog are parsed by several    *)
(* walkers, which merge record after record into one snapshot.  Any record *)
(* may be broken and the context may end at any moment.                    *)
(*                                                                         *)
(* Walking and parsing are declcfg.WalkMetasFS (external): the walkers     *)
(* take the files in turn, a file is read from its first record to its     *)
(* last, and the first error ends the walk.                                *)
(***************************************************************************)
EXTENDS CatalogRecords

CONSTANT Walkers    \* ParseConcurrency of them, two if that is less than one

ASSUME WalkersAssumption == Walkers # {}

VARIABLES
    files,      \* the catalog
    fault,      \* the context is done, or the image could not be had
    phase,      \* "acquire", "walk", then "delivered" or "refused"
    next,       \* the first file that no walker has taken
    at,         \* the file a walker has in hand
    read,       \* how many records of a file were merged
    walker,     \* "idle", "parsing" or "ended"
    failed,     \* a walker returned an error
    packages    \* the snapshot

vars == <<files, fault, phase, next, at, read, walker, failed, packages>>
walk == <<next, at, read, walker, failed, packages>>

TypeOK ==
    /\ files \in Catalogs
    /\ fault \in BOOLEAN
    /\ phase \in {"acquire", "walk", "delivered", "refused"}
    /\ next \in 1 .. Len(files) + 1
    /\ at \in [Walkers -> 0 .. Len(files)]
    /\ read \in [DOMAIN files -> Nat]
    /\ walker \in [Walkers -> {"idle", "parsing", "ended"}]
    /\ failed \in BOOLEAN
    /\ packages \in Contents

Init ==
    /\ files \in Catalogs
    /\ fault = FALSE
    /\ phase = "acquire"
    /\ next = 1
    /\ at = [w \in Walkers |-> 0]
    /\ read = [f \in DOMAIN files |-> 0]
    /\ walker = [w \in Walkers |-> "idle"]
    /\ failed = FALSE
    /\ packages = Nothing

-----------------------------------------------------------------------------
(* Merging a record *)

ensurePackage(s, p) ==
    IF s[p] # None THEN s[p]
    ELSE [default |-> None, channels |-> [c \in Channels |-> None], bundles |-> [b \in Bundles |-> None]]

\* Seeded fault: a package record begins its package anew.
addMetaAnew(s, r) ==
    CASE r.schema = "olm.package" ->
            [s EXCEPT ![r.package] = [ensurePackage(Nothing, r.package) EXCEPT !.default = r.value]]
      [] r.schema = "olm.channel" ->
            [s EXCEPT ![r.package] = [ensurePackage(s, r.package) EXCEPT !.channels[r.name] = r.value]]
      [] r.schema = "olm.bundle" ->
            [s EXCEPT ![r.package] = [ensurePackage(s, r.package) EXCEPT !.bundles[r.name] = r.value]]
      [] OTHER -> s

addMeta(s, r) ==
    CASE r.schema = "olm.package" ->
            [s EXCEPT ![r.package] = [ensurePackage(s, r.package) EXCEPT !.default = r.value]]
      [] r.schema = "olm.channel" ->
            [s EXCEPT ![r.package] = [ensurePackage(s, r.package) EXCEPT !.channels[r.name] = r.value]]
      [] r.schema = "olm.bundle" ->
            [s EXCEPT ![r.package] = [ensurePackage(s, r.package) EXCEPT !.bundles[r.name] = r.value]]
      [] OTHER -> s

-----------------------------------------------------------------------------
(* Read *)

\* The context ends: the refresh timed out, or the service shuts down.
Cancel ==
    /\ phase \in {"acquire", "walk"}
    /\ fault' = TRUE
    /\ UNCHANGED <<files, phase, walk>>

\* Pulling, the labels, unpacking, and the checks before them: one of them fails.
AcquireFails ==
    /\ phase = "acquire"
    /\ phase' = "refused"
    /\ fault' = TRUE
    /\ UNCHANGED <<files, walk>>

Acquired ==
    /\ phase = "acquire"
    /\ ~fault
    /\ phase' = "walk"
    /\ UNCHANGED <<files, fault, walk>>

-----------------------------------------------------------------------------
(* WalkMetasFS *)

Take(w) ==
    /\ phase = "walk"
    /\ walker[w] = "idle"
    /\ next <= Len(files)
    /\ at' = [at EXCEPT ![w] = next]
    /\ walker' = [walker EXCEPT ![w] = "parsing"]
    /\ next' = next + 1
    /\ UNCHANGED <<files, fault, phase, read, failed, packages>>

\* A walker that looks for a file finds that the walk is over.
Stop(w) ==
    /\ phase = "walk"
    /\ walker[w] = "idle"
    /\ fault \/ failed
    /\ walker' = [walker EXCEPT ![w] = "ended"]
    /\ failed' = TRUE
    /\ UNCHANGED <<files, fault, phase, next, at, read, packages>>

\* Seeded fault: a walker that never had a file goes on waiting for one.
DrainedBusy(w) ==
    /\ phase = "walk"
    /\ walker[w] = "idle"
    /\ next > Len(files)
    /\ at[w] # 0
    /\ walker' = [walker EXCEPT ![w] = "ended"]
    /\ UNCHANGED <<files, fault, phase, next, at, read, failed, packages>>

Drained(w) ==
    /\ phase = "walk"
    /\ walker[w] = "idle"
    /\ next > Len(files)
    /\ walker' = [walker EXCEPT ![w] = "ended"]
    /\ UNCHANGED <<files, fault, phase, next, at, read, failed, packages>>

Unread(w) == phase = "walk" /\ walker[w] = "parsing" /\ read[at[w]] < Len(files[at[w]])

NextRecord(w) == files[at[w]][read[at[w]] + 1]

\* The callback, under its mutex.
Merge(w) ==
    /\ Unread(w)
    /\ ~Fatal(NextRecord(w))
    /\ packages' = addMeta(packages, NextRecord(w))
    /\ read' = [read EXCEPT ![at[w]] = @ + 1]
    /\ UNCHANGED <<files, fault, phase, next, at, walker, failed>>

Break(w) ==
    /\ Unread(w)
    /\ Fatal(NextRecord(w))
    /\ walker' = [walker EXCEPT ![w] = "ended"]
    /\ failed' = TRUE
    /\ UNCHANGED <<files, fault, phase, next, at, read, packages>>

EndFile(w) ==
    /\ phase = "walk"
    /\ walker[w] = "parsing"
    /\ read[at[w]] = Len(files[at[w]])
    /\ walker' = [walker EXCEPT ![w] = "idle"]
    /\ UNCHANGED <<files, fault, phase, next, at, read, failed, packages>>

-----------------------------------------------------------------------------
(* After the walk *)

\* Seeded fault: any default channel will do, whether it was read or not.
ValidUnchecked(s) ==
    \A p \in {q \in Packages : s[q] # None} :
        /\ s[p].default # None
        /\ \A c \in Channels : s[p].channels[c] # None =>
              \A b \in s[p].channels[c] : s[p].bundles[b] # None

\* The loop over the packages that were read, which returns at the first defect.
Valid(s) ==
    ~ \E p \in {q \in Packages : s[q] # None} :
        \/ s[p].default = None \/ s[p].channels[s[p].default] = None
        \/ \E c \in {d \in Channels : s[p].channels[d] # None} :
              \E b \in s[p].channels[c] : s[p].bundles[b] = None

\* Seeded fault: the context is not looked at again.
FinishUnchecked ==
    /\ phase = "walk"
    /\ \A w \in Walkers : walker[w] = "ended"
    /\ phase' = IF ~failed /\ Valid(packages) THEN "delivered" ELSE "refused"
    /\ UNCHANGED <<files, fault, walk>>

Finish ==
    /\ phase = "walk"
    /\ \A w \in Walkers : walker[w] = "ended"
    /\ phase' = IF ~failed /\ ~fault /\ Valid(packages) THEN "delivered" ELSE "refused"
    /\ UNCHANGED <<files, fault, walk>>

Step(w) == Take(w) \/ Stop(w) \/ Drained(w) \/ Merge(w) \/ Break(w) \/ EndFile(w)

Next == Cancel \/ AcquireFails \/ Acquired \/ (\E w \in Walkers : Step(w)) \/ Finish

\* Acquisition ends because the context of a refresh does.
Fairness ==
    /\ WF_vars(AcquireFails \/ Acquired)
    /\ \A w \in Walkers : WF_vars(Step(w))
    /\ WF_vars(Finish)

Spec == Init /\ [][Next]_vars /\ Fairness

-----------------------------------------------------------------------------
(* Properties *)

Verdict == IF phase \in {"acquire", "walk"} THEN "pending" ELSE phase

\* The result is one that merging all records at once can have: no record is
\* lost, none comes from elsewhere, a catalog with a defect is refused whichever
\* package has it, and a sound one is refused only if the context ended or the
\* image could not be had (readFS, addMeta).
Whole == INSTANCE CatalogContents WITH
    contents <- IF Verdict = "pending" THEN Nothing ELSE packages, verdict <- Verdict
ReadsWhole == Whole!ContentsSpec

\* No two records are about one thing.
Unique(R) ==
    \A q, r \in R :
        (/\ q.schema = r.schema /\ q.schema \notin {"other", "broken"}
         /\ q.package = r.package
         /\ q.schema # "olm.package" => q.name = r.name) => q = r

\* The records say of a package which channel is its default, and that channel
\* and the bundles of all its entries are among them.
Sound(R) ==
    /\ \A r \in R : ~Fatal(r)
    /\ \A p \in {q \in Packages : Of(R, q) # {}} :
          /\ \E c \in Defaults(R, p) : c # None /\ Entries(R, p, c) # {}
          /\ \A c \in Channels : \A e \in Entries(R, p, c) : \A b \in e : VersionsOf(R, p, b) # {}

\* When no two records are about one thing, whether the catalog is delivered and
\* as what is a function of the set of its records, however they are cut into
\* files and whichever walker is ahead (WalkMetasFS, addMeta, ensurePackage).
SameInAnyOrder ==
    (Unique(Records(files)) /\ Verdict # "pending" /\ ~fault) =>
        /\ Verdict = "delivered" <=> Sound(Records(files))
        /\ Verdict = "delivered" => \A r \in Records(files) :
              CASE r.schema = "olm.package" -> packages[r.package].default = r.value
                [] r.schema = "olm.channel" -> packages[r.package].channels[r.name] = r.value
                [] r.schema = "olm.bundle"  -> packages[r.package].bundles[r.name] = r.value
                [] OTHER -> TRUE

\* A read ends, also when a walker fails while the others are parsing
\* (WalkMetasFS, the context of a refresh).
ReadEnds == <>(Verdict # "pending")
=============================================================================

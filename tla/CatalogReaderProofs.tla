-------------------------- MODULE CatalogReaderProofs --------------------------
(***************************************************************************)
(* Theorems about CatalogReader, for every catalog, every number of files  *)
(* and records and every number of walkers.                                *)
(*                                                                         *)
(* The inductive invariant says that the snapshot is at all times a merge  *)
(* of exactly the records read so far, and accounts for every file: it is  *)
(* not taken yet, in one walker's hands, read to its end, or the walk has  *)
(* failed.                                                                 *)
(***************************************************************************)
EXTENDS CatalogReader, TLAPS

Mergeable(r) == r.schema \in {"olm.package", "olm.channel", "olm.bundle"}

-----------------------------------------------------------------------------
(* Lemmas: merging one record *)

\* What a set of records says grows by the record that is added, for its package.
LEMMA OfAdds ==
    ASSUME NEW R, NEW r, NEW p
    PROVE  Of(R \cup {r}, p) =
               IF r.schema \notin {"other", "broken"} /\ r.package = p THEN Of(R, p) \cup {r} ELSE Of(R, p)
BY DEF Of

\* The records of a catalog are records.
LEMMA RecordsAreRecords ==
    ASSUME NEW fs \in Catalogs, NEW f \in DOMAIN fs, NEW i \in DOMAIN fs[f]
    PROVE  /\ fs \in Seq(Seq(Record))
           /\ fs[f] \in Seq(Record)
           /\ fs[f][i] \in Record
<1>1. fs \in Seq(Seq(Record))
    BY CatalogsAssumption
<1>2. fs[f] \in Seq(Record)
    BY <1>1
<1>3. fs[f][i] \in Record
    BY <1>2
<1> QED
    BY <1>1, <1>2, <1>3

\* What ensurePackage returns holds what the records say of the package.
LEMMA EnsuredAgrees ==
    ASSUME NEW c \in Contents, NEW R, IsMerge(c, R), NEW p \in Packages
    PROVE  /\ ensurePackage(c, p) \in Package
           /\ OneOf(Defaults(R, p), ensurePackage(c, p).default)
           /\ \A name \in Channels : OneOf(Entries(R, p, name), ensurePackage(c, p).channels[name])
           /\ \A name \in Bundles : OneOf(VersionsOf(R, p, name), ensurePackage(c, p).bundles[name])
<1> DEFINE Agrees(e) ==
        /\ e \in Package
        /\ OneOf(Defaults(R, p), e.default)
        /\ \A name \in Channels : OneOf(Entries(R, p, name), e.channels[name])
        /\ \A name \in Bundles : OneOf(VersionsOf(R, p, name), e.bundles[name])
<1>1. ASSUME Of(R, p) = {}
      PROVE  Agrees(ensurePackage(c, p))
    <2>1. c[p] = None
        BY <1>1 DEF IsMerge
    <2>2. /\ Defaults(R, p) = {}
          /\ \A name \in Channels : Entries(R, p, name) = {}
          /\ \A name \in Bundles : VersionsOf(R, p, name) = {}
        BY <1>1 DEF Defaults, Entries, VersionsOf
    <2>3. PICK e : e = [default |-> None, channels |-> [n \in Channels |-> None],
                        bundles |-> [b \in Bundles |-> None]]
        OBVIOUS
    <2>4. ensurePackage(c, p) = e
        BY <2>1, <2>3 DEF ensurePackage
    <2>5. e \in Package
        BY <2>3 DEF Package
    <2>6. /\ e.default = None
          /\ \A name \in Channels : e.channels[name] = None
          /\ \A name \in Bundles : e.bundles[name] = None
        BY <2>3
    <2>7. Agrees(e)
        BY <2>2, <2>5, <2>6 DEF OneOf
    <2> HIDE DEF Agrees
    <2> QED
        BY <2>4, <2>7
<1>2. ASSUME Of(R, p) # {}
      PROVE  Agrees(ensurePackage(c, p))
    <2>1. Agrees(c[p])
        BY <1>2 DEF IsMerge
    <2>2. c[p] # None
        BY <2>1, NoneAssumption
    <2>3. ensurePackage(c, p) = c[p]
        BY <2>2 DEF ensurePackage
    <2> HIDE DEF Agrees
    <2> QED
        BY <2>1, <2>3
<1>3. Agrees(ensurePackage(c, p))
    BY <1>1, <1>2
<1> QED
    BY <1>3

\* Merging one more record makes a merge of the records into a merge of all.
LEMMA MergeAdds ==
    ASSUME NEW c \in Contents, NEW R, IsMerge(c, R),
           NEW r \in Record, ~Fatal(r)
    PROVE  addMeta(c, r) \in Contents /\ IsMerge(addMeta(c, r), R \cup {r})
<1>1. CASE r.schema = "other"
    <2>1. addMeta(c, r) = c
        BY <1>1 DEF addMeta
    <2>2. \A p \in Packages : Of(R \cup {r}, p) = Of(R, p)
        BY <1>1, OfAdds
    <2>3. IsMerge(c, R \cup {r})
        BY <2>2 DEF IsMerge, Defaults, Entries, VersionsOf
    <2> QED
        BY <2>1, <2>3
<1>2. ASSUME Mergeable(r), NEW E \in Package, addMeta(c, r) = [c EXCEPT ![r.package] = E],
             OneOf(Defaults(R \cup {r}, r.package), E.default),
             \A name \in Channels : OneOf(Entries(R \cup {r}, r.package, name), E.channels[name]),
             \A name \in Bundles : OneOf(VersionsOf(R \cup {r}, r.package, name), E.bundles[name])
      PROVE  addMeta(c, r) \in Contents /\ IsMerge(addMeta(c, r), R \cup {r})
    <2>1. addMeta(c, r) \in Contents
        BY <1>2 DEF Contents
    <2>2. r.schema \notin {"other", "broken"}
        BY <1>2 DEF Mergeable
    <2>3. ASSUME NEW p \in Packages, p # r.package
          PROVE  /\ addMeta(c, r)[p] = c[p]
                 /\ Of(R \cup {r}, p) = Of(R, p)
        <3>1. addMeta(c, r)[p] = c[p]
            BY <1>2, <2>3 DEF Contents
        <3>2. Of(R \cup {r}, p) = Of(R, p)
            BY <2>3, OfAdds
        <3> QED
            BY <3>1, <3>2
    <2>4. ASSUME NEW p \in Packages, p = r.package
          PROVE  addMeta(c, r)[p] = E /\ Of(R \cup {r}, p) # {}
        BY <1>2, <2>2, <2>4, OfAdds DEF Contents
    <2>5. IsMerge(addMeta(c, r), R \cup {r})
        <3> SUFFICES ASSUME NEW p \in Packages
                     PROVE  IF Of(R \cup {r}, p) = {}
                            THEN addMeta(c, r)[p] = None
                            ELSE /\ addMeta(c, r)[p] \in Package
                                 /\ OneOf(Defaults(R \cup {r}, p), addMeta(c, r)[p].default)
                                 /\ \A name \in Channels :
                                       OneOf(Entries(R \cup {r}, p, name), addMeta(c, r)[p].channels[name])
                                 /\ \A name \in Bundles :
                                       OneOf(VersionsOf(R \cup {r}, p, name), addMeta(c, r)[p].bundles[name])
            BY DEF IsMerge
        <3>1. CASE p # r.package
            BY <3>1, <2>3 DEF IsMerge, Defaults, Entries, VersionsOf
        <3>2. CASE p = r.package
            BY <3>2, <2>4, <1>2
        <3> QED
            BY <3>1, <3>2
    <2> QED
        BY <2>1, <2>5
<1>3. ASSUME Mergeable(r)
      PROVE  addMeta(c, r) \in Contents /\ IsMerge(addMeta(c, r), R \cup {r})
    <2> DEFINE p == r.package
               old == ensurePackage(c, p)
    <2>1. p \in Packages
        BY <1>3 DEF Mergeable, Record
    <2>2. PICK e : e = old
        OBVIOUS
    <2>3. /\ e \in Package
          /\ OneOf(Defaults(R, p), e.default)
          /\ \A name \in Channels : OneOf(Entries(R, p, name), e.channels[name])
          /\ \A name \in Bundles : OneOf(VersionsOf(R, p, name), e.bundles[name])
        BY <2>1, <2>2, EnsuredAgrees
    <2>4. Of(R \cup {r}, p) = Of(R, p) \cup {r}
        BY <1>3, OfAdds DEF Mergeable
    <2>5. CASE r.schema = "olm.package"
        <3>1. r.value \in Channels \cup {None}
            BY <2>5 DEF Record
        <3>2. PICK E : E = [e EXCEPT !.default = r.value]
            OBVIOUS
        <3>3. E \in Package /\ E.default = r.value /\ E.channels = e.channels /\ E.bundles = e.bundles
            BY <3>1, <3>2, <2>3 DEF Package
        <3>4. addMeta(c, r) = [c EXCEPT ![p] = E]
            BY <2>5, <3>2, <2>2 DEF addMeta
        <3>5. r.value \in Defaults(R \cup {r}, p)
            BY <2>4, <2>5 DEF Defaults
        <3>6. \A name \in Channels : Entries(R \cup {r}, p, name) = Entries(R, p, name)
            BY <2>4, <2>5 DEF Entries
        <3>7. \A name \in Bundles : VersionsOf(R \cup {r}, p, name) = VersionsOf(R, p, name)
            BY <2>4, <2>5 DEF VersionsOf
        <3>8. OneOf(Defaults(R \cup {r}, p), E.default)
            BY <3>3, <3>5 DEF OneOf
        <3> QED
            BY <1>2, <1>3, <2>3, <3>3, <3>4, <3>6, <3>7, <3>8
    <2>6. CASE r.schema = "olm.channel"
        <3>1. r.value \in SUBSET Bundles /\ r.name \in Channels
            BY <2>6 DEF Record
        <3>2. PICK E : E = [e EXCEPT !.channels[r.name] = r.value]
            OBVIOUS
        <3>3. /\ E \in Package /\ E.default = e.default /\ E.bundles = e.bundles
              /\ \A name \in Channels : E.channels[name] = IF name = r.name THEN r.value ELSE e.channels[name]
            BY <3>1, <3>2, <2>3 DEF Package
        <3>4. addMeta(c, r) = [c EXCEPT ![p] = E]
            BY <2>6, <3>2, <2>2 DEF addMeta
        <3>5. Defaults(R \cup {r}, p) = Defaults(R, p)
            BY <2>4, <2>6 DEF Defaults
        <3>6. ASSUME NEW name \in Channels
              PROVE  OneOf(Entries(R \cup {r}, p, name), E.channels[name])
            <4>1. CASE name = r.name
                <5>1. r.value \in Entries(R \cup {r}, p, name)
                    BY <2>4, <2>6, <4>1 DEF Entries
                <5> QED
                    BY <5>1, <3>3, <4>1 DEF OneOf
            <4>2. CASE name # r.name
                <5>1. Entries(R \cup {r}, p, name) = Entries(R, p, name)
                    BY <2>4, <4>2 DEF Entries
                <5> QED
                    BY <5>1, <3>3, <4>2, <2>3
            <4> QED
                BY <4>1, <4>2
        <3>7. \A name \in Bundles : VersionsOf(R \cup {r}, p, name) = VersionsOf(R, p, name)
            BY <2>4, <2>6 DEF VersionsOf
        <3> QED
            BY <1>2, <1>3, <2>3, <3>3, <3>4, <3>5, <3>6, <3>7
    <2>7. CASE r.schema = "olm.bundle"
        <3>1. r.value \in Versions /\ r.name \in Bundles
            BY <2>7 DEF Record, Fatal
        <3>2. PICK E : E = [e EXCEPT !.bundles[r.name] = r.value]
            OBVIOUS
        <3>3. /\ E \in Package /\ E.default = e.default /\ E.channels = e.channels
              /\ \A name \in Bundles : E.bundles[name] = IF name = r.name THEN r.value ELSE e.bundles[name]
            BY <3>1, <3>2, <2>3 DEF Package
        <3>4. addMeta(c, r) = [c EXCEPT ![p] = E]
            BY <2>7, <3>2, <2>2 DEF addMeta
        <3>5. Defaults(R \cup {r}, p) = Defaults(R, p)
            BY <2>4, <2>7 DEF Defaults
        <3>6. \A name \in Channels : Entries(R \cup {r}, p, name) = Entries(R, p, name)
            BY <2>4, <2>7 DEF Entries
        <3>7. ASSUME NEW name \in Bundles
              PROVE  OneOf(VersionsOf(R \cup {r}, p, name), E.bundles[name])
            <4>1. CASE name = r.name
                <5>1. r.value \in VersionsOf(R \cup {r}, p, name)
                    BY <2>4, <2>7, <4>1 DEF VersionsOf
                <5> QED
                    BY <5>1, <3>3, <4>1 DEF OneOf
            <4>2. CASE name # r.name
                <5>1. VersionsOf(R \cup {r}, p, name) = VersionsOf(R, p, name)
                    BY <2>4, <4>2 DEF VersionsOf
                <5> QED
                    BY <5>1, <3>3, <4>2, <2>3
            <4> QED
                BY <4>1, <4>2
        <3> QED
            BY <1>2, <1>3, <2>3, <3>3, <3>4, <3>5, <3>6, <3>7
    <2> QED
        BY <1>3, <2>5, <2>6, <2>7 DEF Mergeable
<1> QED
    BY <1>1, <1>3 DEF Mergeable, Record, Fatal

-----------------------------------------------------------------------------
(* The inductive invariant *)

\* The first n[f] records of each file.
Begun(fs, n) == UNION {{fs[f][i] : i \in 1 .. n[f]} : f \in DOMAIN fs}

\* The records read so far.
SoFar == Begun(files, read)

FilesInHand ==
    \A w \in Walkers : walker[w] = "parsing" =>
        /\ at[w] \in 1 .. next - 1
        /\ \A v \in Walkers \ {w} : walker[v] = "parsing" => at[v] # at[w]

ReadInBounds == \A f \in DOMAIN files : read[f] <= Len(files[f])

\* A file that was taken and is not read to its end is in somebody's hands.
TakenRead ==
    \A f \in DOMAIN files : f < next =>
        \/ failed
        \/ read[f] = Len(files[f])
        \/ \E w \in Walkers : walker[w] = "parsing" /\ at[w] = f

EndedOrDrained == \A w \in Walkers : walker[w] = "ended" => failed \/ next > Len(files)

FailedForCause == failed => fault \/ \E r \in Records(files) : Fatal(r)

MergedSoFar == IsMerge(packages, SoFar) /\ \A r \in SoFar : ~Fatal(r)

\* What was delivered is a merge of all records, and can be served.
DeliveredWhole ==
    /\ phase = "delivered" =>
          /\ IsMerge(packages, Records(files))
          /\ \A r \in Records(files) : ~Fatal(r)
          /\ Servable(packages)
    /\ phase = "refused" =>
          \/ fault
          \/ \E r \in Records(files) : Fatal(r)
          \/ IsMerge(packages, Records(files)) /\ ~Servable(packages)

Walking == FilesInHand /\ ReadInBounds /\ TakenRead /\ EndedOrDrained /\ FailedForCause /\ MergedSoFar

IInv == TypeOK /\ Walking /\ DeliveredWhole

-----------------------------------------------------------------------------
(* Lemmas about files *)

\* A file number and a record number lead to a record.
LEMMA FilesAreFiles ==
    ASSUME NEW fs \in Catalogs
    PROVE  /\ Len(fs) \in Nat /\ DOMAIN fs = 1 .. Len(fs)
           /\ \A f \in DOMAIN fs : Len(fs[f]) \in Nat /\ DOMAIN fs[f] = 1 .. Len(fs[f])
<1>1. fs \in Seq(Seq(Record))
    BY CatalogsAssumption
<1>2. Len(fs) \in Nat /\ DOMAIN fs = 1 .. Len(fs)
    BY <1>1
<1>3. ASSUME NEW f \in DOMAIN fs
      PROVE  Len(fs[f]) \in Nat /\ DOMAIN fs[f] = 1 .. Len(fs[f])
    <2>1. fs[f] \in Seq(Record)
        BY <1>1
    <2> QED
        BY <2>1
<1> QED
    BY <1>2, <1>3

\* The loop over the packages refuses exactly what cannot be served.
LEMMA ValidIsServable == ASSUME NEW c PROVE Valid(c) <=> Servable(c)
BY DEF Valid, Servable

\* When all files are read to their ends, all records are.
LEMMA AllRead ==
    ASSUME NEW fs \in Catalogs, NEW n, \A f \in DOMAIN fs : n[f] = Len(fs[f])
    PROVE  Begun(fs, n) = Records(fs)
<1>1. \A f \in DOMAIN fs : DOMAIN fs[f] = 1 .. n[f]
    BY FilesAreFiles
<1>2. {{fs[f][i] : i \in 1 .. n[f]} : f \in DOMAIN fs} = {{fs[f][i] : i \in DOMAIN fs[f]} : f \in DOMAIN fs}
    BY <1>1
<1> QED
    BY <1>2 DEF Records, Begun

\* One more record of a file: what was read grows by it.
LEMMA OneMore ==
    ASSUME NEW fs \in Catalogs, NEW n \in [DOMAIN fs -> Nat], NEW g \in DOMAIN fs,
           NEW m, m[g] = n[g] + 1, \A f \in DOMAIN fs : f # g => m[f] = n[f]
    PROVE  Begun(fs, m) = Begun(fs, n) \cup {fs[g][n[g] + 1]}
<1>1. \A f \in DOMAIN fs : m[f] = IF f = g THEN n[f] + 1 ELSE n[f]
    OBVIOUS
<1>2. 1 .. (n[g] + 1) = (1 .. n[g]) \cup {n[g] + 1}
    OBVIOUS
<1>3. ASSUME NEW f \in DOMAIN fs, NEW i \in 1 .. m[f]
      PROVE  fs[f][i] \in Begun(fs, n) \cup {fs[g][n[g] + 1]}
    <2>1. CASE f = g /\ i = n[g] + 1
        BY <2>1
    <2>2. CASE ~(f = g /\ i = n[g] + 1)
        <3>1. i \in 1 .. n[f]
            BY <1>1, <1>2, <2>2
        <3> QED
            BY <3>1 DEF Begun
    <2> QED
        BY <2>1, <2>2
<1>4. ASSUME NEW f \in DOMAIN fs, NEW i \in 1 .. n[f]
      PROVE  fs[f][i] \in Begun(fs, m)
    <2>1. i \in 1 .. m[f]
        BY <1>1, <1>2
    <2> QED
        BY <2>1 DEF Begun
<1>5. fs[g][n[g] + 1] \in Begun(fs, m)
    <2>1. n[g] + 1 \in 1 .. m[g]
        BY <1>1, <1>2
    <2> QED
        BY <2>1 DEF Begun
<1>6. Begun(fs, m) \subseteq Begun(fs, n) \cup {fs[g][n[g] + 1]}
    <2> SUFFICES ASSUME NEW x \in Begun(fs, m) PROVE x \in Begun(fs, n) \cup {fs[g][n[g] + 1]}
        OBVIOUS
    <2>1. PICK f \in DOMAIN fs : \E i \in 1 .. m[f] : x = fs[f][i]
        BY DEF Begun
    <2> QED
        BY <1>3, <2>1
<1>7. Begun(fs, n) \subseteq Begun(fs, m)
    <2> SUFFICES ASSUME NEW x \in Begun(fs, n) PROVE x \in Begun(fs, m)
        OBVIOUS
    <2>1. PICK f \in DOMAIN fs : \E i \in 1 .. n[f] : x = fs[f][i]
        BY DEF Begun
    <2> QED
        BY <1>4, <2>1
<1>8. Begun(fs, m) = Begun(fs, n) \cup {fs[g][n[g] + 1]}
    BY <1>5, <1>6, <1>7
<1> QED
    BY <1>8

-----------------------------------------------------------------------------
(* The invariant *)

\* The invariant holds at first: nothing was read, nothing was merged.
LEMMA InitHolds == Init => IInv
<1> SUFFICES ASSUME Init PROVE IInv
    OBVIOUS
<1>1. TypeOK
    <2>1. PICK n \in Nat : n = Len(files) /\ DOMAIN files = 1 .. n
        BY FilesAreFiles DEF Init
    <2>2. packages \in Contents
        BY DEF Init, Nothing, Contents
    <2>3. read \in [DOMAIN files -> Nat] /\ at \in [Walkers -> 0 .. n]
        BY <2>1 DEF Init
    <2>4. walker \in [Walkers -> {"idle", "parsing", "ended"}]
        BY DEF Init
    <2>5. next \in 1 .. n + 1
        BY <2>1 DEF Init
    <2>6. files \in Catalogs /\ fault \in BOOLEAN /\ failed \in BOOLEAN /\ phase = "acquire"
        BY DEF Init
    <2> QED
        BY <2>1, <2>2, <2>3, <2>4, <2>5, <2>6 DEF TypeOK
<1>2. SoFar = {}
    BY DEF Init, SoFar, Begun
<1>3. MergedSoFar
    <2>1. \A p \in Packages : Of(SoFar, p) = {}
        BY <1>2 DEF Of
    <2>2. IsMerge(packages, SoFar)
        BY <2>1 DEF IsMerge, Init, Nothing
    <2> QED
        BY <1>2, <2>2 DEF MergedSoFar
<1>4. ReadInBounds
    BY FilesAreFiles DEF Init, ReadInBounds
<1>5. FilesInHand /\ TakenRead /\ EndedOrDrained /\ FailedForCause
    <2>1. \A f \in DOMAIN files : ~(f < next)
        BY FilesAreFiles DEF Init
    <2> QED
        BY <2>1 DEF Init, FilesInHand, TakenRead, EndedOrDrained, FailedForCause
<1> QED
    BY <1>1, <1>3, <1>4, <1>5 DEF IInv, Walking, DeliveredWhole, Init

\* A walker takes a file.
LEMMA TakeKeeps == ASSUME IInv, NEW w \in Walkers, Take(w) PROVE IInv'
<1>1. PICK n \in Nat : n = Len(files) /\ DOMAIN files = 1 .. n
    BY FilesAreFiles DEF IInv, TypeOK
<1>2. TypeOK'
    BY <1>1 DEF IInv, TypeOK, Take
<1>3. FilesInHand'
    BY <1>1 DEF IInv, TypeOK, Walking, FilesInHand, Take
<1>4. TakenRead'
    <2> SUFFICES ASSUME NEW f \in DOMAIN files, f < next + 1, ~failed, read[f] # Len(files[f])
                 PROVE  \E v \in Walkers : walker'[v] = "parsing" /\ at'[v] = f
        BY DEF TakenRead, Take
    <2>1. CASE f = next
        BY <2>1 DEF IInv, TypeOK, Take
    <2>2. CASE f # next
        <3>1. f < next
            BY <1>1, <2>2 DEF IInv, TypeOK
        <3>2. PICK v \in Walkers : walker[v] = "parsing" /\ at[v] = f
            BY <3>1 DEF IInv, Walking, TakenRead
        <3>3. v # w
            BY <3>2 DEF Take
        <3>4. walker'[v] = "parsing" /\ at'[v] = f
            BY <3>2, <3>3 DEF IInv, TypeOK, Take
        <3> QED
            BY <3>4
    <2> QED
        BY <2>1, <2>2
<1>5. EndedOrDrained'
    BY <1>1 DEF IInv, TypeOK, Walking, EndedOrDrained, Take
<1>6. ReadInBounds' /\ FailedForCause' /\ MergedSoFar'
    BY DEF IInv, Walking, ReadInBounds, FailedForCause, MergedSoFar, SoFar, Take
<1>7. DeliveredWhole'
    BY DEF IInv, DeliveredWhole, Take
<1> QED
    BY <1>2, <1>3, <1>4, <1>5, <1>6, <1>7 DEF IInv, Walking

\* A walker ends, with or without an error.
LEMMA EndKeeps ==
    ASSUME IInv, NEW w \in Walkers, Stop(w) \/ Drained(w) \/ Break(w)
    PROVE  IInv'
<1>1. PICK n \in Nat : n = Len(files) /\ DOMAIN files = 1 .. n
    BY FilesAreFiles DEF IInv, TypeOK
<1>2. TypeOK'
    BY DEF IInv, TypeOK, Stop, Drained, Break
<1>3. /\ phase = "walk" /\ phase' = "walk"
      /\ walker' = [walker EXCEPT ![w] = "ended"]
      /\ failed => failed'
      /\ UNCHANGED <<files, fault, next, at, read, packages>>
    BY DEF Stop, Drained, Break, Unread
<1>4. FilesInHand'
    BY <1>3 DEF IInv, TypeOK, Walking, FilesInHand
<1>5. TakenRead'
    <2>1. CASE Stop(w) \/ Break(w)
        BY <2>1 DEF TakenRead, Stop, Break
    <2>2. CASE Drained(w)
        <3> SUFFICES ASSUME NEW f \in DOMAIN files, f < next, ~failed, read[f] # Len(files[f])
                     PROVE  \E v \in Walkers : walker'[v] = "parsing" /\ at'[v] = f
            BY <2>2 DEF TakenRead, Drained
        <3>1. PICK v \in Walkers : walker[v] = "parsing" /\ at[v] = f
            BY DEF IInv, Walking, TakenRead
        <3>2. v # w
            BY <2>2, <3>1 DEF Drained
        <3> QED
            BY <1>3, <3>1, <3>2 DEF IInv, TypeOK
    <2> QED
        BY <2>1, <2>2
<1>6. EndedOrDrained'
    BY DEF IInv, TypeOK, Walking, EndedOrDrained, Stop, Drained, Break
<1>7. FailedForCause'
    <2>1. CASE Stop(w) \/ Drained(w)
        BY <2>1 DEF IInv, Walking, FailedForCause, Stop, Drained
    <2>2. CASE Break(w)
        <3>1. at[w] \in DOMAIN files /\ read[at[w]] + 1 \in 1 .. Len(files[at[w]])
            BY <1>1, <2>2, FilesAreFiles DEF Break, Unread, IInv, TypeOK, Walking, FilesInHand
        <3>2. NextRecord(w) \in Records(files)
            BY <3>1, FilesAreFiles DEF NextRecord, Records, IInv, TypeOK
        <3> QED
            BY <1>3, <2>2, <3>2 DEF Break, FailedForCause
    <2> QED
        BY <2>1, <2>2
<1>8. ReadInBounds' /\ MergedSoFar'
    BY <1>3 DEF IInv, Walking, ReadInBounds, MergedSoFar, SoFar
<1>9. DeliveredWhole'
    BY <1>3 DEF DeliveredWhole
<1> QED
    BY <1>2, <1>4, <1>5, <1>6, <1>7, <1>8, <1>9 DEF IInv, Walking

\* A record is merged.
LEMMA MergeKeeps == ASSUME IInv, NEW w \in Walkers, Merge(w) PROVE IInv'
<1>1. PICK g : g = at[w]
    OBVIOUS
<1>2. PICK k : k = read[g]
    OBVIOUS
<1>3. /\ g \in DOMAIN files /\ k \in Nat /\ k + 1 \in 1 .. Len(files[g])
      /\ files \in Catalogs
    <2>1. PICK n \in Nat : n = Len(files) /\ DOMAIN files = 1 .. n /\ files \in Catalogs
        BY FilesAreFiles DEF IInv, TypeOK
    <2>2. g \in 1 .. next - 1 /\ next \in 1 .. n + 1
        BY <1>1, <2>1 DEF Merge, Unread, IInv, TypeOK, Walking, FilesInHand
    <2>3. g \in DOMAIN files
        BY <2>1, <2>2
    <2>4. k \in Nat /\ Len(files[g]) \in Nat /\ k < Len(files[g])
        BY <1>1, <1>2, <2>1, <2>3, FilesAreFiles DEF Merge, Unread, IInv, TypeOK
    <2> QED
        BY <2>1, <2>3, <2>4
<1>4. PICK r : r = files[g][k + 1]
    OBVIOUS
<1>5. r \in Record /\ ~Fatal(r)
    <2>1. k + 1 \in DOMAIN files[g]
        BY <1>3, FilesAreFiles
    <2>2. r \in Record
        BY <1>3, <1>4, <2>1, RecordsAreRecords
    <2>3. ~Fatal(files[at[w]][read[at[w]] + 1])
        BY DEF Merge, NextRecord
    <2>4. ~Fatal(r)
        BY <1>1, <1>2, <1>4, <2>3
    <2> QED
        BY <2>2, <2>4
<1>6. packages' = addMeta(packages, r) /\ read' = [read EXCEPT ![g] = @ + 1]
    BY <1>1, <1>2, <1>4 DEF Merge, NextRecord
<1>7. UNCHANGED <<files, fault, phase, next, at, walker, failed>> /\ phase = "walk"
    BY DEF Merge, Unread
<1>8. packages' \in Contents /\ IsMerge(packages', SoFar \cup {r})
    BY <1>5, <1>6, MergeAdds DEF IInv, TypeOK, Walking, MergedSoFar
<1>9. SoFar' = SoFar \cup {r}
    <2>1. Begun(files, read') = Begun(files, read) \cup {files[g][read[g] + 1]}
        <3>1. read \in [DOMAIN files -> Nat]
            BY DEF IInv, TypeOK
        <3>2. read'[g] = read[g] + 1 /\ \A f \in DOMAIN files : f # g => read'[f] = read[f]
            BY <1>3, <1>6, <3>1
        <3> QED
            BY <1>3, <3>1, <3>2, OneMore
    <2> QED
        BY <1>2, <1>4, <1>7, <2>1 DEF SoFar
<1>10. TypeOK'
    BY <1>6, <1>7, <1>8, <1>3 DEF IInv, TypeOK
<1>11. MergedSoFar'
    <2>1. IsMerge(packages', SoFar')
        BY <1>8, <1>9
    <2>2. \A q \in SoFar' : ~Fatal(q)
        BY <1>5, <1>9 DEF IInv, Walking, MergedSoFar
    <2> QED
        BY <2>1, <2>2 DEF MergedSoFar
<1>12. ReadInBounds'
    BY <1>2, <1>3, <1>6, <1>7 DEF IInv, TypeOK, Walking, ReadInBounds
<1>13. TakenRead'
    <2> SUFFICES ASSUME NEW f \in DOMAIN files, f < next, ~failed, read'[f] # Len(files[f])
                 PROVE  \E v \in Walkers : walker[v] = "parsing" /\ at[v] = f
        BY <1>7 DEF TakenRead
    <2>1. CASE f = g
        BY <2>1, <1>1 DEF Merge, Unread
    <2>2. CASE f # g
        <3>1. read'[f] = read[f]
            BY <1>6, <2>2 DEF IInv, TypeOK
        <3> QED
            BY <3>1 DEF IInv, Walking, TakenRead
    <2> QED
        BY <2>1, <2>2
<1>14. FilesInHand' /\ EndedOrDrained' /\ FailedForCause'
    BY <1>7 DEF IInv, Walking, FilesInHand, EndedOrDrained, FailedForCause
<1>15. DeliveredWhole'
    BY <1>7 DEF DeliveredWhole
<1> QED
    BY <1>10, <1>11, <1>12, <1>13, <1>14, <1>15 DEF IInv, Walking

\* A walker is through with its file.
LEMMA EndFileKeeps == ASSUME IInv, NEW w \in Walkers, EndFile(w) PROVE IInv'
<1>1. TypeOK'
    BY DEF IInv, TypeOK, EndFile
<1>2. FilesInHand'
    BY DEF IInv, TypeOK, Walking, FilesInHand, EndFile
<1>3. TakenRead'
    <2> SUFFICES ASSUME NEW f \in DOMAIN files, f < next, ~failed, read[f] # Len(files[f])
                 PROVE  \E v \in Walkers : walker'[v] = "parsing" /\ at[v] = f
        BY DEF TakenRead, EndFile
    <2>1. PICK v \in Walkers : walker[v] = "parsing" /\ at[v] = f
        BY DEF IInv, Walking, TakenRead
    <2>2. v # w
        BY <2>1 DEF EndFile
    <2> QED
        BY <2>1, <2>2 DEF EndFile, IInv, TypeOK
<1>4. EndedOrDrained'
    BY DEF IInv, TypeOK, Walking, EndedOrDrained, EndFile
<1>5. ReadInBounds' /\ FailedForCause' /\ MergedSoFar' /\ DeliveredWhole'
    BY DEF IInv, Walking, ReadInBounds, FailedForCause, MergedSoFar, SoFar, DeliveredWhole, EndFile
<1> QED
    BY <1>1, <1>2, <1>3, <1>4, <1>5 DEF IInv, Walking

\* When all walkers have ended without an error, everything was read.
LEMMA WalkedToTheEnd ==
    ASSUME IInv, phase = "walk", \A w \in Walkers : walker[w] = "ended", ~failed
    PROVE  /\ IsMerge(packages, Records(files))
           /\ \A r \in Records(files) : ~Fatal(r)
<1>1. PICK n \in Nat : n = Len(files) /\ DOMAIN files = 1 .. n
    BY FilesAreFiles DEF IInv, TypeOK
<1>2. next > n
    BY <1>1, WalkersAssumption DEF IInv, Walking, EndedOrDrained
<1>3. \A f \in DOMAIN files : read[f] = Len(files[f])
    BY <1>1, <1>2 DEF IInv, TypeOK, Walking, TakenRead
<1>4. SoFar = Records(files)
    BY <1>3, AllRead DEF SoFar, IInv, TypeOK
<1> QED
    BY <1>4 DEF IInv, Walking, MergedSoFar

\* The verdict.
LEMMA FinishKeeps == ASSUME IInv, Finish PROVE IInv'
<1>1. TypeOK' /\ Walking'
    BY DEF IInv, TypeOK, Walking, FilesInHand, ReadInBounds, TakenRead, EndedOrDrained,
           FailedForCause, MergedSoFar, SoFar, Finish, walk
<1>2. UNCHANGED <<files, fault, packages>>
    BY DEF Finish, walk
<1>3. Valid(packages) <=> Servable(packages)
    BY ValidIsServable
<1>4. ~failed => IsMerge(packages, Records(files)) /\ \A r \in Records(files) : ~Fatal(r)
    BY WalkedToTheEnd DEF Finish
<1>5. failed => fault \/ \E r \in Records(files) : Fatal(r)
    BY DEF IInv, Walking, FailedForCause
<1>6. phase' = IF ~failed /\ ~fault /\ Valid(packages) THEN "delivered" ELSE "refused"
    BY DEF Finish
<1>7. DeliveredWhole'
    BY <1>2, <1>3, <1>4, <1>5, <1>6 DEF DeliveredWhole
<1> QED
    BY <1>1, <1>7 DEF IInv

\* Every step keeps the invariant.
LEMMA Inductive == IInv /\ [Next]_vars => IInv'
<1> SUFFICES ASSUME IInv, [Next]_vars PROVE IInv'
    OBVIOUS
<1>1. CASE Cancel \/ AcquireFails \/ Acquired
    <2>1. TypeOK'
        BY <1>1 DEF IInv, TypeOK, Cancel, AcquireFails, Acquired, walk
    <2>2. Walking'
        BY <1>1 DEF IInv, Walking, FilesInHand, ReadInBounds, TakenRead, EndedOrDrained,
               FailedForCause, MergedSoFar, SoFar, Cancel, AcquireFails, Acquired, walk
    <2>3. DeliveredWhole'
        BY <1>1 DEF IInv, DeliveredWhole, Cancel, AcquireFails, Acquired, walk
    <2> QED
        BY <2>1, <2>2, <2>3 DEF IInv
<1>2. CASE \E w \in Walkers : Step(w)
    BY <1>2, TakeKeeps, EndKeeps, MergeKeeps, EndFileKeeps DEF Step
<1>3. CASE Finish
    BY <1>3, FinishKeeps
<1>4. CASE UNCHANGED vars
    BY <1>4 DEF IInv, TypeOK, Walking, FilesInHand, ReadInBounds, TakenRead, EndedOrDrained,
           FailedForCause, MergedSoFar, SoFar, DeliveredWhole, vars
<1> QED
    BY <1>1, <1>2, <1>3, <1>4 DEF Next

\* The invariant holds in every state of every behaviour.
THEOREM Invariance == Spec => []IInv
BY InitHolds, Inductive, PTL DEF Spec

\* Every variable has its type: the snapshot is well formed at all times, while
\* several walkers merge into it.
THEOREM TypeCorrect == Spec => []TypeOK
<1>1. IInv => TypeOK
    BY DEF IInv
<1> QED
    BY <1>1, Invariance, PTL

-----------------------------------------------------------------------------
(* What the result is *)

\* Of unique records, a merge holds the value of each.
LEMMA MergeOfUnique ==
    ASSUME NEW fs \in Catalogs, NEW c, IsMerge(c, Records(fs)), Unique(Records(fs)),
           NEW r \in Records(fs)
    PROVE  CASE r.schema = "olm.package" -> c[r.package].default = r.value
             [] r.schema = "olm.channel" -> c[r.package].channels[r.name] = r.value
             [] r.schema = "olm.bundle"  -> c[r.package].bundles[r.name] = r.value
             [] OTHER -> TRUE
<1> DEFINE R == Records(fs)
<1>1. r \in Record
    <2>1. PICK f \in DOMAIN fs : \E i \in DOMAIN fs[f] : r = fs[f][i]
        BY DEF Records
    <2> QED
        BY <2>1, RecordsAreRecords
<1> HIDE DEF R
<1>2. IsMerge(c, R) /\ Unique(R) /\ r \in R
    BY DEF R
<1>3. CASE r.schema = "olm.package"
    <2>1. r.package \in Packages
        BY <1>1, <1>3 DEF Record
    <2>2. r \in Of(R, r.package)
        BY <1>2, <1>3 DEF Of
    <2>3. r.value \in Defaults(R, r.package)
        BY <1>3, <2>2 DEF Defaults
    <2>4. c[r.package].default \in Defaults(R, r.package)
        BY <1>2, <2>1, <2>2, <2>3 DEF IsMerge, OneOf
    <2>5. \A v \in Defaults(R, r.package) : v = r.value
        BY <1>2, <1>3 DEF Defaults, Of, Unique
    <2> QED
        BY <1>3, <2>4, <2>5
<1>4. CASE r.schema = "olm.channel"
    <2>1. r.package \in Packages /\ r.name \in Channels
        BY <1>1, <1>4 DEF Record
    <2>2. r \in Of(R, r.package)
        BY <1>2, <1>4 DEF Of
    <2>3. r.value \in Entries(R, r.package, r.name)
        BY <1>4, <2>2 DEF Entries
    <2>4. c[r.package].channels[r.name] \in Entries(R, r.package, r.name)
        BY <1>2, <2>1, <2>2, <2>3 DEF IsMerge, OneOf
    <2>5. \A v \in Entries(R, r.package, r.name) : v = r.value
        BY <1>2, <1>4 DEF Entries, Of, Unique
    <2> QED
        BY <1>4, <2>4, <2>5
<1>5. CASE r.schema = "olm.bundle"
    <2>1. r.package \in Packages /\ r.name \in Bundles
        BY <1>1, <1>5 DEF Record
    <2>2. r \in Of(R, r.package)
        BY <1>2, <1>5 DEF Of
    <2>3. r.value \in VersionsOf(R, r.package, r.name)
        BY <1>5, <2>2 DEF VersionsOf
    <2>4. c[r.package].bundles[r.name] \in VersionsOf(R, r.package, r.name)
        BY <1>2, <2>1, <2>2, <2>3 DEF IsMerge, OneOf
    <2>5. \A v \in VersionsOf(R, r.package, r.name) : v = r.value
        BY <1>2, <1>5 DEF VersionsOf, Of, Unique
    <2> QED
        BY <1>5, <2>4, <2>5
<1> QED
    BY <1>3, <1>4, <1>5

\* A merge of unique records can be served exactly when the records are sound.
LEMMA SoundIsServable ==
    ASSUME NEW fs \in Catalogs, NEW c, IsMerge(c, Records(fs)), Unique(Records(fs)),
           \A r \in Records(fs) : ~Fatal(r)
    PROVE  Servable(c) <=> Sound(Records(fs))
<1> DEFINE R == Records(fs)
<1>1. IsMerge(c, R) /\ Unique(R) /\ \A r \in R : ~Fatal(r)
    OBVIOUS
<1> HIDE DEF R
<1>2. \A p \in Packages : c[p] # None <=> Of(R, p) # {}
    BY <1>1, NoneAssumption DEF IsMerge
<1>3. ASSUME NEW p \in Packages, Of(R, p) # {}, NEW b \in Bundles
      PROVE  c[p].bundles[b] # None <=> VersionsOf(R, p, b) # {}
    <2>1. OneOf(VersionsOf(R, p, b), c[p].bundles[b])
        BY <1>1, <1>3 DEF IsMerge
    <2>2. None \notin VersionsOf(R, p, b)
        BY <1>1 DEF VersionsOf, Of, Fatal
    <2> QED
        BY <2>1, <2>2 DEF OneOf
<1>4. ASSUME NEW p \in Packages, Of(R, p) # {}, NEW n \in Channels
      PROVE  /\ c[p].channels[n] # None <=> Entries(R, p, n) # {}
             /\ \A e \in Entries(R, p, n) : e = c[p].channels[n]
             /\ c[p].channels[n] # None => c[p].channels[n] \subseteq Bundles
    <2>1. OneOf(Entries(R, p, n), c[p].channels[n]) /\ c[p] \in Package
        BY <1>1, <1>4 DEF IsMerge
    <2>2. \A e \in Entries(R, p, n) : \A d \in Entries(R, p, n) : e = d
        BY <1>1 DEF Entries, Of, Unique
    <2>3. c[p].channels[n] \in (SUBSET Bundles) \cup {None}
        BY <2>1 DEF Package
    <2>4. None \notin Entries(R, p, n)
        <3>1. ASSUME NEW r \in R, r.schema = "olm.channel" PROVE r.value # None
            <4>1. r \in Record
                <5>1. PICK f \in DOMAIN fs : \E i \in DOMAIN fs[f] : r = fs[f][i]
                    BY DEF R, Records
                <5> QED
                    BY <5>1, RecordsAreRecords
            <4>2. r.value \in SUBSET Bundles
                BY <3>1, <4>1 DEF Record
            <4> QED
                BY <4>2, NoneAssumption
        <3> QED
            BY <3>1 DEF Entries, Of
    <2> QED
        BY <2>1, <2>2, <2>3, <2>4 DEF OneOf
<1>5. ASSUME NEW p \in Packages, Of(R, p) # {}
      PROVE  /\ c[p].default \in Channels \cup {None}
             /\ (\E n \in Defaults(R, p) : n # None /\ Entries(R, p, n) # {})
                    <=> (c[p].default # None /\ Entries(R, p, c[p].default) # {})
    <2>1. OneOf(Defaults(R, p), c[p].default) /\ c[p] \in Package
        BY <1>1, <1>5 DEF IsMerge
    <2>2. \A e \in Defaults(R, p) : \A d \in Defaults(R, p) : e = d
        BY <1>1 DEF Defaults, Of, Unique
    <2>3. c[p].default \in Channels \cup {None}
        BY <2>1 DEF Package
    <2> QED
        BY <2>1, <2>2, <2>3 DEF OneOf
<1> DEFINE Good(p) ==
        /\ c[p].default # None
        /\ c[p].channels[c[p].default] # None
        /\ \A n \in Channels : c[p].channels[n] # None => \A b \in c[p].channels[n] : c[p].bundles[b] # None
           Said(p) ==
        /\ \E n \in Defaults(R, p) : n # None /\ Entries(R, p, n) # {}
        /\ \A n \in Channels : \A e \in Entries(R, p, n) : \A b \in e : VersionsOf(R, p, b) # {}
<1>6. ASSUME NEW p \in Packages, Of(R, p) # {}
      PROVE  Good(p) <=> Said(p)
    <2>1. (c[p].default # None /\ c[p].channels[c[p].default] # None)
              <=> \E n \in Defaults(R, p) : n # None /\ Entries(R, p, n) # {}
        BY <1>4, <1>5, <1>6
    <2>2. ASSUME NEW n \in Channels
          PROVE  (c[p].channels[n] # None => \A b \in c[p].channels[n] : c[p].bundles[b] # None)
                     <=> \A e \in Entries(R, p, n) : \A b \in e : VersionsOf(R, p, b) # {}
        BY <1>3, <1>4, <1>6
    <2> QED
        BY <2>1, <2>2
<1>7. Servable(c) <=> \A p \in {q \in Packages : Of(R, q) # {}} : Good(p)
    BY <1>2 DEF Servable
<1>8. Sound(R) <=> \A p \in {q \in Packages : Of(R, q) # {}} : Said(p)
    BY <1>1 DEF Sound
<1> HIDE DEF Good, Said
<1>9. Servable(c) <=> Sound(R)
    BY <1>6, <1>7, <1>8
<1> QED
    BY <1>9 DEF R

\* The verdict on a catalog of unique records, and what is delivered, is a
\* function of the set of its records: the walkers cannot be told apart.
THEOREM OrderDoesNotShow == Spec => []SameInAnyOrder
<1>1. ASSUME IInv PROVE SameInAnyOrder
    <2> SUFFICES ASSUME Unique(Records(files)), Verdict # "pending", ~fault
                 PROVE  /\ Verdict = "delivered" <=> Sound(Records(files))
                        /\ Verdict = "delivered" => \A r \in Records(files) :
                              CASE r.schema = "olm.package" -> packages[r.package].default = r.value
                                [] r.schema = "olm.channel" -> packages[r.package].channels[r.name] = r.value
                                [] r.schema = "olm.bundle"  -> packages[r.package].bundles[r.name] = r.value
                                [] OTHER -> TRUE
        BY DEF SameInAnyOrder
    <2>1. files \in Catalogs
        BY <1>1 DEF IInv, TypeOK
    <2>2. phase = Verdict /\ phase \in {"delivered", "refused"}
        BY <1>1 DEF Verdict, IInv, TypeOK
    <2>3. CASE phase = "delivered"
        <3>1. IsMerge(packages, Records(files)) /\ Servable(packages)
              /\ \A r \in Records(files) : ~Fatal(r)
            BY <1>1, <2>3 DEF IInv, DeliveredWhole
        <3>2. Sound(Records(files))
            BY <2>1, <3>1, SoundIsServable
        <3> QED
            BY <2>1, <2>2, <2>3, <3>1, <3>2, MergeOfUnique
    <2>4. CASE phase = "refused"
        <3>1. CASE \E r \in Records(files) : Fatal(r)
            BY <2>2, <2>4, <3>1 DEF Sound
        <3>2. CASE \A r \in Records(files) : ~Fatal(r)
            <4>1. IsMerge(packages, Records(files)) /\ ~Servable(packages)
                BY <1>1, <2>4, <3>2 DEF IInv, DeliveredWhole
            <4>2. ~Sound(Records(files))
                BY <2>1, <3>2, <4>1, SoundIsServable
            <4> QED
                BY <2>2, <2>4, <4>2
        <3> QED
            BY <3>1, <3>2
    <2> QED
        BY <2>2, <2>3, <2>4
<1> QED
    BY <1>1, Invariance, PTL

-----------------------------------------------------------------------------
(* Refinement *)

\* The abstract specification talks about records in the same words.
LEMMA SameWords ==
    /\ Whole!Nothing = Nothing
    /\ \A c : Whole!Servable(c) <=> Servable(c)
    /\ \A fs : Whole!Records(fs) = Records(fs)
    /\ \A r : Whole!Fatal(r) <=> Fatal(r)
    /\ \A c, R : Whole!IsMerge(c, R) <=> IsMerge(c, R)
<1>1. Whole!Nothing = Nothing
    BY DEF Nothing, Whole!Nothing
<1>2. \A c : Whole!Servable(c) <=> Servable(c)
    BY DEF Servable, Whole!Servable
<1>3. \A fs : Whole!Records(fs) = Records(fs)
    BY DEF Records, Whole!Records
<1>4. \A r : Whole!Fatal(r) <=> Fatal(r)
    BY DEF Fatal, Whole!Fatal
<1>5. ASSUME NEW c, NEW R
      PROVE  Whole!IsMerge(c, R) <=> IsMerge(c, R)
    BY DEF IsMerge, Whole!IsMerge, Of, Whole!Of, Defaults, Whole!Defaults, Entries, Whole!Entries,
           VersionsOf, Whole!VersionsOf, OneOf, Whole!OneOf, Package, Whole!Package
<1> QED
    BY <1>1, <1>2, <1>3, <1>4, <1>5

\* Several walkers that merge records one by one implement merging all records at
\* once: the catalog is delivered whole, or refused for a reason.
THEOREM ReadsWholeCatalog == Spec => ReadsWhole
<1>1. Init => Whole!ContentsInit
    BY SameWords DEF Init, Whole!ContentsInit, Verdict
<1>2. IInv /\ [Next]_vars => [Whole!ContentsNext]_Whole!contentsVars
    <2> SUFFICES ASSUME IInv, [Next]_vars
                 PROVE  Whole!ContentsNext \/ UNCHANGED Whole!contentsVars
        OBVIOUS
    <2>1. CASE Cancel
        BY <2>1 DEF Cancel, walk, Verdict, Whole!ContentsNext, Whole!Fail
    <2>2. CASE AcquireFails
        BY <2>2 DEF AcquireFails, walk, Verdict, Whole!ContentsNext, Whole!Refuse
    <2>3. CASE Acquired
        BY <2>3 DEF Acquired, walk, Verdict, Whole!contentsVars
    <2>4. CASE \E w \in Walkers : Step(w)
        BY <2>4 DEF Step, Take, Stop, Drained, Merge, Break, EndFile, Unread, Verdict, Whole!contentsVars
    <2>5. CASE Finish
        <3>1. /\ phase = "walk" /\ phase' \in {"delivered", "refused"}
              /\ UNCHANGED <<files, fault, packages>>
            BY <2>5 DEF Finish, walk
        <3>2. Verdict = "pending" /\ Verdict' = phase'
            BY <3>1 DEF Verdict
        <3>3. CASE failed \/ fault
            <4>1. phase' = "refused"
                BY <2>5, <3>3 DEF Finish
            <4>2. fault \/ \E r \in Records(files) : Fatal(r)
                BY <3>3 DEF IInv, Walking, FailedForCause
            <4> QED
                BY <3>1, <3>2, <4>1, <4>2, SameWords DEF Whole!ContentsNext, Whole!Refuse
        <3>4. CASE ~failed /\ ~fault
            <4>1. phase' = IF Servable(packages) THEN "delivered" ELSE "refused"
                BY <2>5, <3>4, ValidIsServable DEF Finish
            <4>2. IsMerge(packages, Records(files)) /\ \A r \in Records(files) : ~Fatal(r)
                BY <2>5, <3>4, WalkedToTheEnd DEF Finish
            <4>3. (IF Verdict = "pending" THEN Nothing ELSE packages)' = packages
                BY <3>1, <3>2
            <4>4. Whole!Decide
                BY <3>1, <3>2, <3>4, <4>1, <4>2, <4>3, SameWords DEF Whole!Decide
            <4> QED
                BY <4>4 DEF Whole!ContentsNext
        <3> QED
            BY <3>3, <3>4
    <2>6. CASE UNCHANGED vars
        BY <2>6 DEF vars, Verdict, Whole!contentsVars
    <2> QED
        BY <2>1, <2>2, <2>3, <2>4, <2>5, <2>6 DEF Next
<1> QED
    BY <1>1, <1>2, Invariance, PTL DEF Spec, ReadsWhole, Whole!ContentsSpec
=============================================================================

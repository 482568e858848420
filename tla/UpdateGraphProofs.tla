-------------------------- MODULE UpdateGraphProofs --------------------------
(***************************************************************************)
(* Theorems about UpdateGraph for all packages, cycles and branches in the *)
(* update graph of a channel included.                                     *)
(***************************************************************************)
EXTENDS UpdateGraph, SequenceTheorems, WellFoundedInduction, TLAPS

-----------------------------------------------------------------------------
(* Update graphs *)

\* What an edge leads to is listed in the channel.
LEMMA SuccessorsListed ==
    ASSUME NEW p \in Package, NEW c \in Channels, NEW b \in Bundles
    PROVE  /\ Successors(p, c, b) \subseteq Listed(p, c)
           /\ Entered(p, c, b) \subseteq Listed(p, c)
           /\ Listed(p, c) \subseteq Bundles
  <1>1. \A e \in p.channels[c] : e.name \in Bundles
    BY DEF Package, Entry
  <1>. QED BY <1>1 DEF Successors, Entered, Listed

\* A set that every edge from a member of it stays inside.
Closed(p, c, S) == \A x \in S : Successors(p, c, x) \subseteq S

\* What is reached holds the start and its edges stay inside.
LEMMA ReachClosed ==
    ASSUME NEW p \in Package, NEW c \in Channels, NEW start \in SUBSET Bundles
    PROVE  /\ start \subseteq Reach(p, c, start)
           /\ Closed(p, c, Reach(p, c, start))
           /\ Reach(p, c, start) \subseteq Bundles
  <1>1. \A x \in Bundles : Successors(p, c, x) \subseteq Bundles
    BY SuccessorsListed
  <1>. QED BY <1>1 DEF Reach, Closed

\* Nothing else is: it is in every set with the same two properties.
LEMMA ReachLeast ==
    ASSUME NEW p, NEW c, NEW start, NEW S \in SUBSET Bundles, start \subseteq S, Closed(p, c, S)
    PROVE  Reach(p, c, start) \subseteq S
  BY DEF Reach, Closed

\* What is reached from what is reached is reached.
LEMMA ReachTransitive ==
    ASSUME NEW p \in Package, NEW c \in Channels, NEW start \in SUBSET Bundles,
           NEW more \in SUBSET Bundles, more \subseteq Reach(p, c, start)
    PROVE  Reach(p, c, more) \subseteq Reach(p, c, start)
  BY ReachClosed, ReachLeast

\* From one bundle, that is the bundle itself and what its successors reach.
LEMMA ReachFromOne ==
    ASSUME NEW p \in Package, NEW c \in Channels, NEW b \in Bundles
    PROVE  Reach(p, c, {b}) = {b} \cup Reach(p, c, Successors(p, c, b))
  <1>. DEFINE next == Successors(p, c, b)
              S == {b} \cup Reach(p, c, next)
  <1>1. next \in SUBSET Bundles
    BY SuccessorsListed
  <1>2. next \subseteq Reach(p, c, next) /\ Closed(p, c, Reach(p, c, next)) /\ S \in SUBSET Bundles
    BY <1>1, ReachClosed
  <1>3. Closed(p, c, S)
    BY <1>2 DEF Closed
  <1>4. Reach(p, c, {b}) \subseteq S
    BY <1>2, <1>3, ReachLeast
  <1>5. {b} \subseteq Reach(p, c, {b}) /\ Closed(p, c, Reach(p, c, {b}))
    BY ReachClosed
  <1>6. next \subseteq Reach(p, c, {b})
    BY <1>5 DEF Closed
  <1>7. Reach(p, c, next) \subseteq Reach(p, c, {b})
    BY <1>1, <1>6, ReachTransitive
  <1>. QED BY <1>4, <1>5, <1>7

\* What is reached from listed bundles is listed.
LEMMA ReachListed ==
    ASSUME NEW p \in Package, NEW c \in Channels, NEW start \in SUBSET Listed(p, c)
    PROVE  Reach(p, c, start) \subseteq Listed(p, c)
  <1>1. Listed(p, c) \in SUBSET Bundles /\ Closed(p, c, Listed(p, c))
    BY SuccessorsListed DEF Closed, Listed, Package, Entry
  <1>. QED BY <1>1, ReachLeast

-----------------------------------------------------------------------------
(* Orders and insertion *)

\* A set of numbers has a least one.
LEMMA MinIn ==
    ASSUME NEW S \in SUBSET Nat, S # {}
    PROVE  Min(S) \in S /\ \A x \in S : Min(S) <= x
  <1>. DEFINE below == OpToRel(<, Nat)
  <1>1. PICK x \in S : \A y \in S : ~ (<<y, x>> \in below)
    <2>. HIDE DEF below
    <2>1. IsWellFoundedOn(below, Nat)
      BY NatLessThanWellFounded DEF below
    <2>. QED BY <2>1, WFMin
  <1>2. \A y \in S : ~(y < x)
    BY <1>1 DEF OpToRel
  <1>3. \A y \in S : x <= y
    BY <1>2
  <1>. QED BY <1>3 DEF Min

\* What is before the place of insertion stays there, the rest moves up by one.
LEMMA InsertPlaces ==
    ASSUME NEW S, NEW s \in Seq(S), NEW r \in S, NEW i \in 1 .. Len(s) + 1
    PROVE  /\ InsertAt(s, i, r) \in Seq(S) /\ Len(InsertAt(s, i, r)) = Len(s) + 1
           /\ \A j \in 1 .. Len(s) + 1 :
                 InsertAt(s, i, r)[j] = IF j < i THEN s[j] ELSE IF j = i THEN r ELSE s[j - 1]
  <1>. DEFINE left == SubSeq(s, 1, i - 1)
              right == SubSeq(s, i, Len(s))
  <1>1. Len(s) \in Nat /\ \A j \in 1 .. Len(s) : s[j] \in S
    OBVIOUS
  <1>2. /\ left \in Seq(S) /\ Len(left) = i - 1
        /\ \A j \in 1 .. i - 1 : left[j] = s[j]
    <2>1. 1 \in Int /\ i - 1 \in Int /\ i - 1 >= 0 /\ (i - 1) - 1 + 1 = i - 1
      BY <1>1
    <2>2. \A j \in 1 .. i - 1 : s[j] \in S
      BY <1>1
    <2>3. /\ SubSeq(s, 1, i - 1) \in Seq(S)
          /\ Len(SubSeq(s, 1, i - 1)) = IF 1 <= i - 1 THEN (i - 1) - 1 + 1 ELSE 0
          /\ \A j \in 1 .. (i - 1) - 1 + 1 : SubSeq(s, 1, i - 1)[j] = s[1 + j - 1]
      BY <2>1, <2>2, SubSeqProperties
    <2>4. \A j \in 1 .. i - 1 : 1 + j - 1 = j
      BY <2>1
    <2>. QED BY <2>1, <2>3, <2>4
  <1>3. /\ right \in Seq(S) /\ Len(right) = Len(s) - i + 1
        /\ \A j \in 1 .. Len(s) - i + 1 : right[j] = s[i + j - 1]
    <2>1. i \in Int /\ Len(s) \in Int /\ i <= Len(s) + 1
      BY <1>1
    <2>2. \A j \in i .. Len(s) : s[j] \in S
      BY <1>1
    <2>3. /\ SubSeq(s, i, Len(s)) \in Seq(S)
          /\ Len(SubSeq(s, i, Len(s))) = IF i <= Len(s) THEN Len(s) - i + 1 ELSE 0
          /\ \A j \in 1 .. Len(s) - i + 1 : SubSeq(s, i, Len(s))[j] = s[i + j - 1]
      BY <2>1, <2>2, SubSeqProperties
    <2>. QED BY <2>1, <2>3
  <1>. HIDE DEF left, right
  <1>. DEFINE middle == <<r>>
  <1>4. middle \in Seq(S) /\ Len(middle) = 1 /\ middle[1] = r
    OBVIOUS
  <1>5. InsertAt(s, i, r) = (left \o middle) \o right
    BY DEF InsertAt, left, right
  <1>. DEFINE start == left \o middle
  <1>. HIDE DEF middle
  <1>6. /\ start \in Seq(S) /\ Len(start) = (i - 1) + 1
        /\ \A j \in 1 .. (i - 1) + 1 : start[j] = IF j <= i - 1 THEN left[j] ELSE middle[j - (i - 1)]
    <2>1. /\ left \o middle \in Seq(S) /\ Len(left \o middle) = Len(left) + Len(middle)
          /\ \A j \in 1 .. Len(left) + Len(middle) :
                (left \o middle)[j] = IF j <= Len(left) THEN left[j] ELSE middle[j - Len(left)]
      BY <1>2, <1>4, ConcatProperties
    <2>. QED BY <1>2, <1>4, <2>1
  <1>7. Len(start) = i /\ \A j \in 1 .. i : start[j] = IF j < i THEN s[j] ELSE r
    <2>1. Len(start) = i
      BY <1>6
    <2>2. ASSUME NEW j \in 1 .. i PROVE start[j] = IF j < i THEN s[j] ELSE r
      <3>1. CASE j < i
        <4>1. j \in 1 .. i - 1 /\ j <= i - 1 /\ j \in 1 .. (i - 1) + 1
          BY <3>1
        <4>. QED BY <1>2, <1>6, <3>1, <4>1
      <3>2. CASE ~(j < i)
        <4>1. j \in 1 .. (i - 1) + 1 /\ ~(j <= i - 1) /\ j - (i - 1) = 1
          BY <3>2
        <4>2. start[j] = middle[j - (i - 1)]
          BY <1>6, <4>1
        <4>3. middle[j - (i - 1)] = r
          BY <1>4, <4>1
        <4>. QED BY <3>2, <4>2, <4>3
      <3>. QED BY <3>1, <3>2
    <2>. QED BY <2>1, <2>2
  <1>. DEFINE t == start \o right
  <1>. HIDE DEF start
  <1>8. /\ t \in Seq(S) /\ Len(t) = i + (Len(s) - i + 1)
        /\ \A j \in 1 .. i + (Len(s) - i + 1) : t[j] = IF j <= i THEN start[j] ELSE right[j - i]
    <2>1. /\ start \o right \in Seq(S) /\ Len(start \o right) = Len(start) + Len(right)
          /\ \A j \in 1 .. Len(start) + Len(right) :
                (start \o right)[j] = IF j <= Len(start) THEN start[j] ELSE right[j - Len(start)]
      BY <1>3, <1>6, ConcatProperties
    <2>. QED BY <1>3, <1>7, <2>1
  <1>. HIDE DEF t
  <1>9. ASSUME NEW j \in 1 .. Len(s) + 1
        PROVE  t[j] = IF j < i THEN s[j] ELSE IF j = i THEN r ELSE s[j - 1]
    <2>1. j \in 1 .. i + (Len(s) - i + 1)
      BY <1>1
    <2>2. CASE j <= i
      <3>1. t[j] = start[j] /\ j \in 1 .. i
        BY <1>8, <2>1, <2>2
      <3>. QED BY <1>7, <2>2, <3>1
    <2>3. CASE j > i
      <3>1. j - i \in 1 .. Len(s) - i + 1 /\ i + (j - i) - 1 = j - 1 /\ ~(j <= i)
        BY <1>1, <2>3
      <3>2. t[j] = right[j - i]
        BY <1>8, <2>1, <3>1
      <3>3. right[j - i] = s[j - 1]
        BY <1>3, <3>1
      <3>. QED BY <2>3, <3>2, <3>3
    <2>. QED BY <2>2, <2>3
  <1>10. InsertAt(s, i, r) = t /\ Len(t) = Len(s) + 1
    BY <1>1, <1>5, <1>8 DEF t, start
  <1>. QED BY <1>8, <1>9, <1>10

\* An element that is inserted is added to the set of elements.
LEMMA InsertElements ==
    ASSUME NEW S, NEW s \in Seq(S), NEW r \in S, NEW i \in 1 .. Len(s) + 1
    PROVE  /\ InsertAt(s, i, r) \in Seq(S)
           /\ ToSet(InsertAt(s, i, r)) = ToSet(s) \cup {r}
  <1>0. PICK t : t = InsertAt(s, i, r)
    OBVIOUS
  <1>1. /\ t \in Seq(S) /\ Len(t) = Len(s) + 1 /\ Len(s) \in Nat
        /\ \A j \in 1 .. Len(s) + 1 : t[j] = IF j < i THEN s[j] ELSE IF j = i THEN r ELSE s[j - 1]
    <2>1. Len(s) \in Nat
      OBVIOUS
    <2>2. /\ InsertAt(s, i, r) \in Seq(S) /\ Len(InsertAt(s, i, r)) = Len(s) + 1
          /\ \A j \in 1 .. Len(s) + 1 :
                InsertAt(s, i, r)[j] = IF j < i THEN s[j] ELSE IF j = i THEN r ELSE s[j - 1]
      BY InsertPlaces
    <2>. QED BY <1>0, <2>1, <2>2
  <1>2. ToSet(t) = {t[j] : j \in 1 .. Len(s) + 1} /\ ToSet(s) = {s[j] : j \in 1 .. Len(s)}
    <2>1. DOMAIN t = 1 .. Len(s) + 1 /\ DOMAIN s = 1 .. Len(s)
      BY <1>1
    <2>. QED BY <2>1 DEF ToSet
  <1>3. ASSUME NEW j \in 1 .. Len(s) + 1 PROVE t[j] \in ToSet(s) \cup {r}
    <2>1. CASE j < i
      <3>1. j \in 1 .. Len(s)
        BY <1>1, <2>1
      <3>. QED BY <1>1, <1>2, <2>1, <3>1
    <2>2. CASE j = i
      BY <1>1, <2>2
    <2>3. CASE j > i
      <3>1. j - 1 \in 1 .. Len(s) /\ ~(j < i) /\ j # i
        BY <1>1, <2>3
      <3>2. t[j] = s[j - 1]
        BY <1>1, <3>1
      <3>. QED BY <1>2, <3>1, <3>2
    <2>. QED BY <2>1, <2>2, <2>3
  <1>4. ASSUME NEW j \in 1 .. Len(s) PROVE s[j] \in ToSet(t)
    <2>1. CASE j < i
      <3>1. j \in 1 .. Len(s) + 1
        BY <1>1
      <3>. QED BY <1>1, <1>2, <2>1, <3>1
    <2>2. CASE j >= i
      <3>1. j + 1 \in 1 .. Len(s) + 1 /\ ~(j + 1 < i) /\ j + 1 # i /\ (j + 1) - 1 = j
        BY <1>1, <2>2
      <3>2. t[j + 1] = s[j]
        BY <1>1, <3>1
      <3>. QED BY <1>2, <3>1, <3>2
    <2>. QED BY <2>1, <2>2
  <1>5. r \in ToSet(t)
    <2>1. t[i] = r
      BY <1>1
    <2>. QED BY <1>2, <2>1
  <1>6. ToSet(t) = ToSet(s) \cup {r}
    BY <1>2, <1>3, <1>4, <1>5
  <1>. QED BY <1>0, <1>1, <1>6

\* Wherever it is inserted, a release is added and nothing is lost.
LEMMA InsertedElements ==
    ASSUME NEW s \in Seq(Releases), NEW r \in Releases, NEW c
    PROVE  /\ Inserted(c, s, r) \in Seq(Releases)
           /\ ToSet(Inserted(c, s, r)) = ToSet(s) \cup {r}
  <1>. DEFINE places == {i \in 1 .. Len(s) + 1 :
                            \A j \in i .. Len(s) : CandidateLess(c, r.channel, s[j].channel)}
  <1>1. Len(s) \in Nat
    OBVIOUS
  <1>2. Len(s) + 1 \in places
    BY <1>1
  <1>3. places \in SUBSET Nat /\ places \subseteq 1 .. Len(s) + 1
    BY <1>1
  <1>4. Min(places) \in 1 .. Len(s) + 1
    <2>. HIDE DEF places
    <2>. QED BY <1>2, <1>3, MinIn
  <1>5. Inserted(c, s, r) = InsertAt(s, Min(places), r)
    BY DEF Inserted
  <1>. HIDE DEF places
  <1>. QED BY <1>4, <1>5, InsertElements

\* The next channel is one of those found.
LEMMA NextReleaseIn ==
    ASSUME NEW s \in Seq(Releases), NEW c
    PROVE  /\ NextRelease(c, s) \in Seq(Releases)
           /\ ToSet(NextRelease(c, s)) \subseteq ToSet(s)
  <1>. DEFINE newer == {i \in 1 .. Len(s) : /\ SameFamily(c, s[i].channel)
                                            /\ Suffix[c] < Suffix[s[i].channel]}
  <1>1. \A i \in 1 .. Len(s) : /\ <<s[i]>> \in Seq(Releases)
                               /\ ToSet(<<s[i]>>) = {s[i]} /\ s[i] \in ToSet(s)
    BY DEF ToSet
  <1>2. CASE s = <<>>
    BY <1>2 DEF NextRelease
  <1>3. CASE s # <<>> /\ newer = {}
    <2>1. 1 \in 1 .. Len(s) /\ NextRelease(c, s) = <<s[1]>>
      BY <1>3 DEF NextRelease
    <2>. QED BY <2>1, <1>1
  <1>4. CASE s # <<>> /\ newer # {}
    <2>1. newer \in SUBSET Nat /\ newer \subseteq 1 .. Len(s)
      OBVIOUS
    <2>2. Min(newer) \in 1 .. Len(s)
      <3>. HIDE DEF newer
      <3>. QED BY <1>4, <2>1, MinIn
    <2>3. NextRelease(c, s) = <<s[Min(newer)]>>
      BY <1>4 DEF NextRelease
    <2>. QED
      <3>. HIDE DEF newer
      <3>. QED BY <2>2, <2>3, <1>1
  <1>. QED BY <1>2, <1>3, <1>4

\* Only one bundle is the greatest.
LEMMA GreatestUnique ==
    ASSUME NEW p \in Package, NEW heads \in SUBSET Bundles, NEW a, NEW b,
           Greatest(p, heads, a), Greatest(p, heads, b)
    PROVE  a = b
  <1>1. p.version \in [Bundles -> Nat]
    BY VersionsAssumption DEF Package
  <1>2. a \in Bundles /\ b \in Bundles /\ a \in Nat /\ b \in Nat
    BY NamesAssumption DEF Greatest
  <1>3. SUFFICES ASSUME a # b PROVE FALSE
    OBVIOUS
  <1>4. BundleLess(p, a, b) /\ BundleLess(p, b, a)
    BY <1>3 DEF Greatest
  <1>5. p.version[a] \in Nat /\ p.version[b] \in Nat
    BY <1>1, <1>2
  <1>. QED BY <1>2, <1>3, <1>4, <1>5 DEF BundleLess

-----------------------------------------------------------------------------
(* The inductive invariant *)

\* The service is answering a request.
AboutVersions == mode \in {"direct", "reachable"}
AboutChannels == mode \in {"next", "all"}

\* The installed bundle of the request.
RequestOK ==
    pc \in {"versions", "channels", "heads", "answered"} =>
        /\ current \in Bundles /\ Installed(pkg, at, current)
        /\ pc = "versions" => AboutVersions /\ graph = at.channel
        /\ pc \in {"channels", "heads"} => AboutChannels
        /\ pc = "answered" => AboutVersions \/ AboutChannels
        /\ pc = "heads" => /\ graph \in Channels \ (pkg.retired \cup {at.channel})
                           /\ graph \notin todo
        /\ pc \in {"channels", "heads"} => todo \subseteq Channels \ (pkg.retired \cup {at.channel})

\* The client means an entry of its channel.
PositionOK == Meant(pkg, at) # {}

\* The search for versions is on its way: what it has seen is reached, it has found
\* the versions of just that, and what is not in the queue has been expanded.
VersionSearch ==
    pc = "versions" \/ (pc = "answered" /\ AboutVersions) =>
        /\ current \in seen
        /\ found = {pkg.version[current]} \cup
                   {pkg.version[b] : b \in seen \ (pkg.deprecated \cup {current})}
        /\ seen \subseteq Reach(pkg, at.channel, {current})
        /\ queue \subseteq seen
        /\ pc = "answered" => queue = {}
        /\ mode = "reachable" => \A b \in seen \ queue : Successors(pkg, at.channel, b) \subseteq seen
        /\ mode = "direct" =>
              \/ queue = {current} /\ seen = {current}
              \/ queue = {} /\ seen = {current} \cup Successors(pkg, at.channel, current)

\* So is the search for the heads of a channel.
HeadSearch ==
    pc = "heads" =>
        LET start == Entered(pkg, graph, current) IN
        /\ seen \cup queue \subseteq Reach(pkg, graph, start)
        /\ start \subseteq seen \cup queue
        /\ \A b \in seen : Successors(pkg, graph, b) \subseteq seen \cup queue
        /\ found = {b \in seen \ pkg.deprecated : Successors(pkg, graph, b) = {}}

\* The channels with a greatest head.
Offered == {r \in Releases : /\ r.channel \notin pkg.retired \cup {at.channel}
                            /\ Greatest(pkg, Heads(pkg, r.channel, current), r.bundle)}

\* The releases that have been found are those of the channels looked at.
ReleasesSoFar ==
    /\ pc = "ready" => out = <<>>
    /\ pc \in {"channels", "heads"} =>
          ToSet(out) = {r \in Offered : r.channel \notin todo /\ (pc = "heads" => r.channel # graph)}
    /\ pc = "answered" /\ AboutChannels => ToSet(out) \subseteq Offered
    /\ pc = "answered" /\ mode = "all" => ToSet(out) = Offered

\* Whatever the position of the client may mean is reached from its home.
OnPath == \A b \in Bundles : Installed(pkg, at, b) => b \in Reach(pkg, at.channel, {home})

\* A refused client had given a version.
Refused == /\ pc # "no path"
           /\ pc = "ambiguous" => at.bundle = None

\* The inductive invariant.
IInv == /\ TypeOK /\ RequestOK /\ PositionOK /\ VersionSearch /\ HeadSearch /\ ReleasesSoFar
        /\ OnPath /\ Refused

-----------------------------------------------------------------------------
(* The steps of a search *)

\* What a search starts from.
LEMMA Setting ==
    ASSUME TypeOK
    PROVE  pkg \in Package /\ at.channel \in Channels
  BY PackagesAssumption DEF TypeOK, Position

\* A step that leaves the package and the client alone leaves them their relation.
LEMMA PositionKept ==
    ASSUME PositionOK, OnPath, pkg' = pkg, at' = at, home' = home
    PROVE  PositionOK' /\ OnPath'
  BY DEF PositionOK, OnPath

LEMMA AskVersionsKeeps ==
    ASSUME IInv, NEW m \in {"direct", "reachable"}, AskVersions(m)
    PROVE  IInv'
  <1>1. pkg \in Package /\ at.channel \in Channels
    BY Setting DEF IInv
  <1>2. PICK b \in Bundles : /\ Installed(pkg, at, b) /\ current' = b
                             /\ queue' = {b} /\ seen' = {b} /\ found' = {pkg.version[b]}
    BY DEF AskVersions
  <1>3. /\ mode' = m /\ graph' = at.channel /\ pc' = "versions"
        /\ pkg' = pkg /\ at' = at /\ home' = home /\ todo' = todo /\ out' = out
    BY DEF AskVersions
  <1>4. pkg.version[b] \in Versions
    BY <1>1 DEF Package
  <1>5. TypeOK'
    BY <1>1, <1>2, <1>3, <1>4 DEF IInv, TypeOK, Modes
  <1>6. RequestOK'
    BY <1>2, <1>3 DEF RequestOK, AboutVersions, AboutChannels
  <1>7. PositionOK' /\ OnPath'
    BY <1>3, PositionKept DEF IInv
  <1>8. VersionSearch'
    <2>1. {b} \subseteq Reach(pkg, at.channel, {b})
      BY <1>1, ReachClosed
    <2>. QED BY <1>2, <1>3, <2>1 DEF VersionSearch, AboutVersions
  <1>9. HeadSearch' /\ ReleasesSoFar' /\ Refused'
    BY <1>3 DEF HeadSearch, ReleasesSoFar, Refused
  <1>. QED BY <1>5, <1>6, <1>7, <1>8, <1>9 DEF IInv

LEMMA VisitBundleKeeps ==
    ASSUME IInv, NEW b \in Bundles, VisitBundle(b)
    PROVE  IInv'
  <1>. DEFINE next == Successors(pkg, at.channel, b) \ seen
  <1>1. pkg \in Package /\ at.channel \in Channels
    BY Setting DEF IInv
  <1>2. pc = "versions" /\ b \in queue /\ graph = at.channel /\ AboutVersions
    BY DEF VisitBundle, IInv, RequestOK
  <1>3. /\ seen' = seen \cup next
        /\ found' = found \cup {pkg.version[s] : s \in next \ pkg.deprecated}
        /\ queue' = IF mode = "reachable" THEN (queue \ {b}) \cup next ELSE {}
        /\ pkg' = pkg /\ at' = at /\ home' = home /\ pc' = pc /\ mode' = mode
        /\ current' = current /\ graph' = graph /\ todo' = todo /\ out' = out
    BY <1>2 DEF VisitBundle
  <1>4. Successors(pkg, at.channel, b) \subseteq Bundles
    BY <1>1, SuccessorsListed
  <1>5. \A s \in Bundles : pkg.version[s] \in Versions
    BY <1>1 DEF Package
  <1>6. TypeOK'
    BY <1>2, <1>3, <1>4, <1>5 DEF IInv, TypeOK
  <1>7. RequestOK'
    BY <1>2, <1>3 DEF IInv, RequestOK, AboutVersions, AboutChannels
  <1>8. PositionOK' /\ OnPath'
    BY <1>3, PositionKept DEF IInv
  <1>9. VersionSearch'
    <2>1. /\ current \in seen /\ queue \subseteq seen
          /\ found = {pkg.version[current]} \cup
                     {pkg.version[s] : s \in seen \ (pkg.deprecated \cup {current})}
          /\ seen \subseteq Reach(pkg, at.channel, {current})
          /\ mode = "reachable" => \A s \in seen \ queue : Successors(pkg, at.channel, s) \subseteq seen
          /\ mode = "direct" => queue = {current} /\ seen = {current}
      BY <1>2 DEF IInv, VersionSearch
    <2>2. seen' \subseteq Reach(pkg, at.channel, {current})
      <3>1. current \in Bundles
        BY <1>2 DEF IInv, RequestOK
      <3>2. Closed(pkg, at.channel, Reach(pkg, at.channel, {current}))
        BY <1>1, <3>1, ReachClosed
      <3>. QED BY <1>2, <1>3, <2>1, <3>2 DEF Closed
    <2>3. found' = {pkg.version[current]} \cup
                   {pkg.version[s] : s \in seen' \ (pkg.deprecated \cup {current})}
      BY <1>3, <2>1
    <2>4. /\ mode = "reachable" => /\ queue' \subseteq seen'
                                   /\ \A s \in seen' \ queue' : Successors(pkg, at.channel, s) \subseteq seen'
      BY <1>2, <1>3, <2>1
    <2>5. mode = "direct" => queue' = {} /\ seen' = {current} \cup Successors(pkg, at.channel, current)
      BY <1>2, <1>3, <2>1
    <2>6. mode \in {"direct", "reachable"} /\ current' \in seen' /\ queue' \subseteq seen'
      BY <1>2, <1>3, <2>1, <2>4, <2>5 DEF AboutVersions
    <2>7. /\ found' = ({pkg.version[current]} \cup
                        {pkg.version[s] : s \in seen \ (pkg.deprecated \cup {current})})'
          /\ (seen \subseteq Reach(pkg, at.channel, {current}))'
      BY <1>3, <2>2, <2>3
    <2>8. /\ mode' = "reachable" =>
                \A s \in seen' \ queue' : Successors(pkg', at'.channel, s) \subseteq seen'
          /\ mode' = "direct" =>
                queue' = {} /\ seen' = {current'} \cup Successors(pkg', at'.channel, current')
      BY <1>3, <2>4, <2>5
    <2>. QED BY <1>2, <1>3, <2>6, <2>7, <2>8 DEF VersionSearch
  <1>10. HeadSearch' /\ ReleasesSoFar' /\ Refused'
    BY <1>2, <1>3 DEF HeadSearch, ReleasesSoFar, Refused
  <1>. QED BY <1>6, <1>7, <1>8, <1>9, <1>10 DEF IInv

LEMMA AnswerVersionsKeeps ==
    ASSUME IInv, AnswerVersions
    PROVE  IInv'
  <1>1. /\ pc = "versions" /\ queue = {} /\ pc' = "answered"
        /\ pkg' = pkg /\ at' = at /\ home' = home /\ mode' = mode /\ current' = current
        /\ graph' = graph /\ queue' = queue /\ seen' = seen /\ found' = found
        /\ todo' = todo /\ out' = out
    BY DEF AnswerVersions, search
  <1>2. AboutVersions
    BY <1>1 DEF IInv, RequestOK
  <1>3. TypeOK'
    BY <1>1 DEF IInv, TypeOK
  <1>4. RequestOK'
    BY <1>1, <1>2 DEF IInv, RequestOK, AboutVersions, AboutChannels
  <1>5. PositionOK' /\ OnPath'
    BY <1>1, PositionKept DEF IInv
  <1>6. VersionSearch'
    BY <1>1, <1>2 DEF IInv, VersionSearch, AboutVersions
  <1>7. HeadSearch' /\ ReleasesSoFar' /\ Refused'
    BY <1>1, <1>2 DEF HeadSearch, ReleasesSoFar, Refused, AboutVersions, AboutChannels
  <1>. QED BY <1>3, <1>4, <1>5, <1>6, <1>7 DEF IInv

LEMMA AskChannelsKeeps ==
    ASSUME IInv, NEW m \in {"next", "all"}, AskChannels(m)
    PROVE  IInv'
  <1>1. PICK b \in Bundles : Installed(pkg, at, b) /\ current' = b
    BY DEF AskChannels
  <1>2. /\ pc = "ready" /\ mode' = m /\ pc' = "channels"
        /\ todo' = Channels \ (pkg.retired \cup {at.channel})
        /\ pkg' = pkg /\ at' = at /\ home' = home /\ graph' = graph
        /\ queue' = queue /\ seen' = seen /\ found' = found /\ out' = out
    BY DEF AskChannels
  <1>3. TypeOK'
    BY <1>1, <1>2 DEF IInv, TypeOK, Modes
  <1>4. RequestOK'
    BY <1>1, <1>2 DEF RequestOK, AboutVersions, AboutChannels
  <1>5. PositionOK' /\ OnPath'
    BY <1>2, PositionKept DEF IInv
  <1>6. VersionSearch' /\ HeadSearch' /\ Refused'
    BY <1>2 DEF VersionSearch, HeadSearch, Refused
  <1>7. ReleasesSoFar'
    <2>1. out' = <<>>
      BY <1>2 DEF IInv, ReleasesSoFar
    <2>2. ToSet(out') = {}
      BY <2>1 DEF ToSet
    <2>3. \A r \in Offered' : r.channel \in todo'
      BY <1>2 DEF Offered, Releases
    <2>. QED BY <1>2, <2>2, <2>3 DEF ReleasesSoFar
  <1>. QED BY <1>3, <1>4, <1>5, <1>6, <1>7 DEF IInv

LEMMA VisitChannelKeeps ==
    ASSUME IInv, NEW c \in Channels, VisitChannel(c)
    PROVE  IInv'
  <1>1. /\ pc = "channels" /\ c \in todo /\ pc' = "heads"
        /\ todo' = todo \ {c} /\ graph' = c /\ queue' = Entered(pkg, c, current)
        /\ seen' = {} /\ found' = {}
        /\ pkg' = pkg /\ at' = at /\ home' = home /\ mode' = mode
        /\ current' = current /\ out' = out
    BY DEF VisitChannel
  <1>2. pkg \in Package /\ current \in Bundles
    BY <1>1, Setting DEF IInv, RequestOK
  <1>3. Entered(pkg, c, current) \in SUBSET Bundles
    BY <1>2, SuccessorsListed
  <1>4. TypeOK'
    BY <1>1, <1>3 DEF IInv, TypeOK
  <1>5. RequestOK'
    BY <1>1 DEF IInv, RequestOK, AboutVersions, AboutChannels
  <1>6. PositionOK' /\ OnPath'
    BY <1>1, PositionKept DEF IInv
  <1>7. HeadSearch'
    <2>1. queue' \subseteq Reach(pkg, c, Entered(pkg, c, current))
      BY <1>1, <1>2, <1>3, ReachClosed
    <2>. QED BY <1>1, <2>1 DEF HeadSearch
  <1>8. ReleasesSoFar'
    <2>1. Offered' = Offered
      BY <1>1 DEF Offered
    <2>2. ToSet(out) = {r \in Offered : r.channel \notin todo}
      BY <1>1 DEF IInv, ReleasesSoFar
    <2>3. ToSet(out') = {r \in Offered' : r.channel \notin todo' /\ r.channel # graph'}
      BY <1>1, <2>1, <2>2
    <2>. QED BY <1>1, <2>3 DEF ReleasesSoFar
  <1>9. VersionSearch' /\ Refused'
    BY <1>1 DEF VersionSearch, Refused
  <1>. QED BY <1>4, <1>5, <1>6, <1>7, <1>8, <1>9 DEF IInv

LEMMA FollowPathKeeps ==
    ASSUME IInv, NEW b \in Bundles, FollowPath(b)
    PROVE  IInv'
  <1>. DEFINE next == Successors(pkg, graph, b)
              start == Entered(pkg, graph, current)
  <1>1. /\ pc = "heads" /\ b \in queue
        /\ pkg' = pkg /\ at' = at /\ home' = home /\ pc' = pc /\ mode' = mode
        /\ current' = current /\ graph' = graph /\ todo' = todo /\ out' = out
    BY DEF FollowPath
  <1>2. pkg \in Package /\ current \in Bundles /\ graph \in Channels
    BY <1>1, Setting DEF IInv, RequestOK
  <1>3. \/ b \in seen /\ queue' = queue \ {b} /\ seen' = seen /\ found' = found
        \/ /\ b \notin seen /\ seen' = seen \cup {b} /\ queue' = (queue \ {b}) \cup next
           /\ found' = IF next = {} THEN found \cup ({b} \ pkg.deprecated) ELSE found
    BY DEF FollowPath
  <1>4. next \subseteq Bundles
    BY <1>2, SuccessorsListed
  <1>5. TypeOK'
    BY <1>1, <1>3, <1>4 DEF IInv, TypeOK
  <1>6. RequestOK'
    BY <1>1 DEF IInv, RequestOK, AboutVersions, AboutChannels
  <1>7. PositionOK' /\ OnPath'
    BY <1>1, PositionKept DEF IInv
  <1>8. HeadSearch'
    <2>1. /\ seen \cup queue \subseteq Reach(pkg, graph, start)
          /\ start \subseteq seen \cup queue
          /\ \A x \in seen : Successors(pkg, graph, x) \subseteq seen \cup queue
          /\ found = {x \in seen \ pkg.deprecated : Successors(pkg, graph, x) = {}}
      BY <1>1 DEF IInv, HeadSearch
    <2>2. Closed(pkg, graph, Reach(pkg, graph, start))
      <3>1. start \in SUBSET Bundles
        BY <1>2, SuccessorsListed
      <3>. QED BY <1>2, <3>1, ReachClosed
    <2>3. next \subseteq Reach(pkg, graph, start)
      BY <1>1, <2>1, <2>2 DEF Closed
    <2>4. /\ seen' \cup queue' \subseteq Reach(pkg, graph, start)
          /\ start \subseteq seen' \cup queue'
          /\ \A x \in seen' : Successors(pkg, graph, x) \subseteq seen' \cup queue'
      BY <1>1, <1>3, <2>1, <2>3
    <2>5. found' = {x \in seen' \ pkg.deprecated : Successors(pkg, graph, x) = {}}
      BY <1>3, <2>1
    <2>. QED BY <1>1, <2>4, <2>5 DEF HeadSearch
  <1>9. ReleasesSoFar'
    <2>1. Offered' = Offered
      BY <1>1 DEF Offered
    <2>. QED BY <1>1, <2>1 DEF IInv, ReleasesSoFar
  <1>10. VersionSearch' /\ Refused'
    BY <1>1 DEF VersionSearch, Refused
  <1>. QED BY <1>5, <1>6, <1>7, <1>8, <1>9, <1>10 DEF IInv

\* When the queue is empty, all the heads have been found.
LEMMA AllHeadsFound ==
    ASSUME IInv, pc = "heads", queue = {}
    PROVE  found = Heads(pkg, graph, current)
  <1>. DEFINE start == Entered(pkg, graph, current)
  <1>1. pkg \in Package /\ current \in Bundles /\ graph \in Channels /\ seen \in SUBSET Bundles
    BY Setting DEF IInv, RequestOK, TypeOK
  <1>2. /\ seen \subseteq Reach(pkg, graph, start) /\ start \subseteq seen
        /\ \A x \in seen : Successors(pkg, graph, x) \subseteq seen
        /\ found = {x \in seen \ pkg.deprecated : Successors(pkg, graph, x) = {}}
    BY DEF IInv, HeadSearch
  <1>3. Closed(pkg, graph, seen)
    BY <1>2 DEF Closed
  <1>4. Reach(pkg, graph, start) \subseteq seen
    BY <1>1, <1>2, <1>3, ReachLeast
  <1>. QED BY <1>2, <1>4 DEF Heads

LEMMA EndChannelKeeps ==
    ASSUME IInv, EndChannel
    PROVE  IInv'
  <1>1. /\ pc = "heads" /\ queue = {} /\ pc' = "channels"
        /\ graph' = None /\ seen' = {} /\ found' = {} /\ queue' = queue
        /\ pkg' = pkg /\ at' = at /\ home' = home /\ mode' = mode
        /\ current' = current /\ todo' = todo
    BY DEF EndChannel
  <1>2. /\ pkg \in Package /\ current \in Bundles /\ out \in Seq(Releases)
        /\ graph \in Channels \ (pkg.retired \cup {at.channel}) /\ graph \notin todo
    BY <1>1, Setting DEF IInv, RequestOK, TypeOK
  <1>3. found = Heads(pkg, graph, current) /\ found \in SUBSET Bundles
    BY <1>1, AllHeadsFound DEF IInv, TypeOK
  <1>4. ToSet(out) = {r \in Offered : r.channel \notin todo /\ r.channel # graph}
    BY <1>1 DEF IInv, ReleasesSoFar
  <1>5. /\ out' \in Seq(Releases)
        /\ ToSet(out') = {r \in Offered : r.channel \notin todo}
    <2>1. CASE found = {} /\ out' = out
      <3>1. \A r \in Offered : r.channel # graph
        BY <1>3, <2>1 DEF Offered, Greatest
      <3>. QED BY <1>2, <1>4, <2>1, <3>1
    <2>2. CASE \E h \in Bundles : /\ Greatest(pkg, found, h)
                                  /\ out' = Inserted(at.channel, out, [channel |-> graph, bundle |-> h])
      <3>1. PICK h \in Bundles : /\ Greatest(pkg, found, h)
                                 /\ out' = Inserted(at.channel, out, [channel |-> graph, bundle |-> h])
        BY <2>2
      <3>. DEFINE new == [channel |-> graph, bundle |-> h]
      <3>2. new \in Releases
        BY <1>2 DEF Releases
      <3>3. out' \in Seq(Releases) /\ ToSet(out') = ToSet(out) \cup {new}
        BY <1>2, <3>1, <3>2, InsertedElements
      <3>4. new \in Offered
        BY <1>2, <1>3, <3>1, <3>2 DEF Offered
      <3>5. \A r \in Offered : r.channel = graph => r = new
        <4>1. TAKE r \in Offered
        <4>2. HAVE r.channel = graph
        <4>3. r.bundle \in Bundles /\ Greatest(pkg, found, r.bundle)
          BY <1>3, <4>2 DEF Offered, Releases
        <4>4. r.bundle = h
          BY <1>2, <1>3, <3>1, <4>3, GreatestUnique
        <4>. QED BY <4>2, <4>4 DEF Offered, Releases
      <3>. QED BY <1>2, <1>4, <3>3, <3>4, <3>5
    <2>. QED BY <2>1, <2>2 DEF EndChannel
  <1>6. TypeOK'
    BY <1>1, <1>5 DEF IInv, TypeOK
  <1>7. RequestOK'
    BY <1>1 DEF IInv, RequestOK, AboutVersions, AboutChannels
  <1>8. PositionOK' /\ OnPath'
    BY <1>1, PositionKept DEF IInv
  <1>9. ReleasesSoFar'
    <2>1. Offered' = Offered
      BY <1>1 DEF Offered
    <2>. QED BY <1>1, <1>5, <2>1 DEF ReleasesSoFar
  <1>10. HeadSearch' /\ VersionSearch' /\ Refused'
    BY <1>1 DEF HeadSearch, VersionSearch, Refused
  <1>. QED BY <1>6, <1>7, <1>8, <1>9, <1>10 DEF IInv

LEMMA AnswerChannelsKeeps ==
    ASSUME IInv, AnswerChannels
    PROVE  IInv'
  <1>1. /\ pc = "channels" /\ todo = {} /\ pc' = "answered"
        /\ out' = IF mode = "next" THEN NextRelease(at.channel, out) ELSE out
        /\ pkg' = pkg /\ at' = at /\ home' = home /\ mode' = mode /\ current' = current
        /\ graph' = graph /\ queue' = queue /\ seen' = seen /\ found' = found /\ todo' = todo
    BY DEF AnswerChannels
  <1>2. AboutChannels /\ out \in Seq(Releases)
    BY <1>1 DEF IInv, RequestOK, TypeOK
  <1>3. /\ NextRelease(at.channel, out) \in Seq(Releases)
        /\ ToSet(NextRelease(at.channel, out)) \subseteq ToSet(out)
    BY <1>2, NextReleaseIn
  <1>4. TypeOK'
    BY <1>1, <1>2, <1>3 DEF IInv, TypeOK
  <1>5. RequestOK'
    BY <1>1, <1>2 DEF IInv, RequestOK, AboutVersions, AboutChannels
  <1>6. PositionOK' /\ OnPath'
    BY <1>1, PositionKept DEF IInv
  <1>7. ReleasesSoFar'
    <2>1. Offered' = Offered
      BY <1>1 DEF Offered
    <2>2. ToSet(out) = Offered
      BY <1>1 DEF IInv, ReleasesSoFar
    <2>3. ToSet(out') \subseteq Offered' /\ (mode' = "all" => ToSet(out') = Offered')
      BY <1>1, <1>3, <2>1, <2>2
    <2>. QED BY <1>1, <2>3 DEF ReleasesSoFar
  <1>8. HeadSearch' /\ VersionSearch' /\ Refused'
    BY <1>1, <1>2 DEF HeadSearch, VersionSearch, Refused, AboutVersions, AboutChannels
  <1>. QED BY <1>4, <1>5, <1>6, <1>7, <1>8 DEF IInv

-----------------------------------------------------------------------------
(* The steps of the client *)

LEMMA RefuseKeeps ==
    ASSUME IInv, Refuse
    PROVE  IInv'
  <1>1. /\ pc = "ready" /\ \A b \in Bundles : ~Installed(pkg, at, b)
        /\ pc' = IF Meant(pkg, at) = {} THEN "no path" ELSE "ambiguous"
        /\ pkg' = pkg /\ at' = at /\ home' = home /\ mode' = mode /\ current' = current
        /\ graph' = graph /\ queue' = queue /\ seen' = seen /\ found' = found
        /\ todo' = todo /\ out' = out
    BY DEF Refuse, search
  <1>2. pc' = "ambiguous"
    BY <1>1 DEF IInv, PositionOK
  <1>3. at.bundle = None
    <2>1. SUFFICES ASSUME at.bundle # None PROVE FALSE
      OBVIOUS
    <2>2. PICK e \in Meant(pkg, at) : TRUE
      BY DEF IInv, PositionOK
    <2>3. e.name = at.bundle /\ at.bundle \in Bundles
      BY <2>1, <2>2 DEF Meant, IInv, TypeOK, Position
    <2>4. Installed(pkg, at, at.bundle)
      BY <2>1, <2>2, <2>3 DEF Installed
    <2>. QED BY <1>1, <2>3, <2>4
  <1>4. TypeOK'
    BY <1>1, <1>2 DEF IInv, TypeOK
  <1>5. PositionOK' /\ OnPath'
    BY <1>1, PositionKept DEF IInv
  <1>6. RequestOK' /\ VersionSearch' /\ HeadSearch' /\ ReleasesSoFar' /\ Refused'
    BY <1>1, <1>2, <1>3 DEF RequestOK, VersionSearch, HeadSearch, ReleasesSoFar, Refused
  <1>. QED BY <1>4, <1>5, <1>6 DEF IInv

\* When the service is idle only the position of the client matters.
LEMMA IdleAgain ==
    ASSUME IInv, NoSearch, pc' = "ready", pkg' = pkg,
           at' \in Position, home' \in Bundles, PositionOK', OnPath'
    PROVE  IInv'
  <1>1. TypeOK'
    <2>1. <<>> \in Seq(Releases)
      OBVIOUS
    <2>. QED BY <2>1 DEF NoSearch, IInv, TypeOK
  <1>2. RequestOK' /\ VersionSearch' /\ HeadSearch' /\ ReleasesSoFar' /\ Refused'
    BY DEF NoSearch, RequestOK, VersionSearch, HeadSearch, ReleasesSoFar, Refused
  <1>. QED BY <1>1, <1>2 DEF IInv

\* The version that it takes is that of a bundle on its path.  If only one entry has
\* that version, the client will be taken to have that bundle.
LEMMA TakeVersionKeeps ==
    ASSUME IInv, NEW v \in Versions, TakeVersion(v)
    PROVE  IInv'
  <1>1. /\ pc = "answered" /\ mode \in {"direct", "reachable"} /\ v \in found
        /\ at' = [at EXCEPT !.bundle = None, !.version = v]
        /\ NoSearch /\ pc' = "ready" /\ pkg' = pkg /\ home' = home
    BY DEF TakeVersion
  <1>2. /\ pkg \in Package /\ at.channel \in Channels /\ at \in Position
        /\ current \in Bundles /\ Installed(pkg, at, current) /\ home \in Bundles
    BY <1>1, Setting DEF IInv, RequestOK, TypeOK
  <1>3. /\ found = {pkg.version[current]} \cup
                   {pkg.version[b] : b \in seen \ (pkg.deprecated \cup {current})}
        /\ current \in seen /\ seen \subseteq Reach(pkg, at.channel, {current})
    BY <1>1 DEF IInv, VersionSearch, AboutVersions
  <1>4. PICK x \in seen : pkg.version[x] = v
    BY <1>1, <1>3
  <1>5. /\ at'.channel = at.channel /\ at'.bundle = None /\ at'.version = v
        /\ at' \in Position
    BY <1>1, <1>2 DEF Position
  <1>6. PICK e \in pkg.channels[at.channel] : e.name = x
    <2>1. {current} \subseteq Listed(pkg, at.channel)
      BY <1>2 DEF Installed, Meant, Listed
    <2>2. x \in Listed(pkg, at.channel)
      BY <1>2, <1>3, <1>4, <2>1, ReachListed
    <2>. QED BY <2>2 DEF Listed
  <1>7. e \in Meant(pkg, at')
    BY <1>4, <1>5, <1>6 DEF Meant
  <1>8. PositionOK'
    BY <1>1, <1>7 DEF PositionOK
  <1>9. OnPath'
    <2>1. x \in Reach(pkg, at.channel, {home})
      <3>1. {current} \subseteq Reach(pkg, at.channel, {home})
        BY <1>2 DEF IInv, OnPath
      <3>. QED BY <1>2, <1>3, <1>4, <3>1, ReachTransitive
    <2>2. \A b \in Bundles : Installed(pkg, at', b) => b = x
      BY <1>5, <1>6, <1>7 DEF Installed
    <2>3. \A b \in Bundles : Installed(pkg, at', b) => b \in Reach(pkg, at'.channel, {home})
      BY <1>5, <2>1, <2>2
    <2>. QED BY <1>1, <2>3 DEF OnPath
  <1>. QED BY <1>1, <1>2, <1>5, <1>8, <1>9, IdleAgain

\* The bundle that it takes is listed in the channel that it takes.
LEMMA TakeChannelKeeps ==
    ASSUME IInv, NEW r \in Releases, TakeChannel(r)
    PROVE  IInv'
  <1>1. /\ pc = "answered" /\ mode \in {"next", "all"} /\ r \in ToSet(out)
        /\ at' = [channel |-> r.channel, bundle |-> r.bundle, version |-> None]
        /\ home' = r.bundle /\ NoSearch /\ pc' = "ready" /\ pkg' = pkg
    BY DEF TakeChannel
  <1>2. /\ pkg \in Package /\ current \in Bundles
        /\ r.channel \in Channels /\ r.bundle \in Bundles /\ r.bundle # None
    BY <1>1, Setting, NoneAssumption DEF IInv, RequestOK, Releases
  <1>3. at' \in Position /\ home' \in Bundles
    BY <1>1, <1>2 DEF Position
  <1>4. r.bundle \in Heads(pkg, r.channel, current)
    BY <1>1 DEF IInv, ReleasesSoFar, AboutChannels, Offered, Greatest
  <1>5. PICK e \in pkg.channels[r.channel] : e.name = r.bundle
    <2>1. Entered(pkg, r.channel, current) \in SUBSET Listed(pkg, r.channel)
      BY <1>2, SuccessorsListed
    <2>2. r.bundle \in Reach(pkg, r.channel, Entered(pkg, r.channel, current))
      BY <1>4 DEF Heads
    <2>3. r.bundle \in Listed(pkg, r.channel)
      BY <1>2, <2>1, <2>2, ReachListed
    <2>. QED BY <2>3 DEF Listed
  <1>6. PositionOK'
    BY <1>1, <1>2, <1>5 DEF PositionOK, Meant
  <1>7. OnPath'
    <2>1. \A b \in Bundles : Installed(pkg, at', b) => b = r.bundle
      BY <1>1, <1>2 DEF Installed, Meant
    <2>2. r.bundle \in Reach(pkg, r.channel, {r.bundle})
      BY <1>2, ReachClosed
    <2>3. at'.channel = r.channel
      BY <1>1
    <2>. QED BY <1>1, <2>1, <2>2, <2>3 DEF OnPath
  <1>. QED BY <1>1, <1>3, <1>6, <1>7, IdleAgain

LEMMA StayKeeps ==
    ASSUME IInv, Stay
    PROVE  IInv'
  <1>1. NoSearch /\ pc' = "ready" /\ pkg' = pkg /\ at' = at /\ home' = home
    BY DEF Stay
  <1>2. PositionOK' /\ OnPath'
    BY <1>1, PositionKept DEF IInv
  <1>3. at' \in Position /\ home' \in Bundles
    BY <1>1 DEF IInv, TypeOK
  <1>. QED BY <1>1, <1>2, <1>3, IdleAgain

-----------------------------------------------------------------------------
(* Invariance *)

LEMMA IInvInit == Init => IInv
  <1>1. SUFFICES ASSUME Init PROVE IInv
    OBVIOUS
  <1>2. PICK c \in Channels : \E b \in Listed(pkg, c) :
           /\ home = b
           /\ at \in {[channel |-> c, bundle |-> b, version |-> None],
                      [channel |-> c, bundle |-> None, version |-> pkg.version[b]]}
    BY <1>1 DEF Init
  <1>. DEFINE b == home
  <1>3. pkg \in Packages /\ pkg \in Package
    BY <1>1, PackagesAssumption DEF Init
  <1>4. b \in Bundles /\ b # None /\ pkg.version[b] \in Versions
    <2>1. Listed(pkg, c) \subseteq Bundles
      BY <1>3 DEF Listed, Package, Entry
    <2>. QED BY <1>2, <1>3, <2>1, NoneAssumption DEF Package
  <1>5. at \in Position /\ at.channel = c
    BY <1>2, <1>4 DEF Position
  <1>6. TypeOK
    <2>1. <<>> \in Seq(Releases)
      OBVIOUS
    <2>. QED BY <1>1, <1>2, <1>3, <1>4, <1>5, <2>1 DEF Init, TypeOK
  <1>7. PICK e \in pkg.channels[c] : e.name = b
    BY <1>2 DEF Listed
  <1>8. e \in Meant(pkg, at)
    BY <1>2, <1>4, <1>7 DEF Meant
  <1>9. PositionOK
    BY <1>8 DEF PositionOK
  <1>10. OnPath
    <2>1. \A x \in Bundles : Installed(pkg, at, x) => x = b
      <3>1. CASE at.bundle = None
        BY <1>7, <1>8, <3>1 DEF Installed
      <3>2. CASE at.bundle # None
        BY <1>2, <1>4, <3>2 DEF Installed, Meant
      <3>. QED BY <3>1, <3>2
    <2>2. b \in Reach(pkg, c, {b})
      BY <1>3, <1>4, ReachClosed
    <2>. QED BY <1>2, <1>5, <2>1, <2>2 DEF OnPath
  <1>11. RequestOK /\ VersionSearch /\ HeadSearch /\ ReleasesSoFar /\ Refused
    BY <1>1 DEF Init, RequestOK, VersionSearch, HeadSearch, ReleasesSoFar, Refused
  <1>. QED BY <1>6, <1>9, <1>10, <1>11 DEF IInv

LEMMA IInvNext == IInv /\ [Next]_vars => IInv'
  <1>1. SUFFICES ASSUME IInv, [Next]_vars PROVE IInv'
    OBVIOUS
  <1>2. ASSUME NEW m \in {"direct", "reachable"}, AskVersions(m) PROVE IInv'
    BY <1>1, <1>2, AskVersionsKeeps
  <1>3. ASSUME NEW m \in {"next", "all"}, AskChannels(m) PROVE IInv'
    BY <1>1, <1>3, AskChannelsKeeps
  <1>4. ASSUME NEW b \in Bundles, VisitBundle(b) PROVE IInv'
    BY <1>1, <1>4, VisitBundleKeeps
  <1>5. ASSUME NEW b \in Bundles, FollowPath(b) PROVE IInv'
    BY <1>1, <1>5, FollowPathKeeps
  <1>6. ASSUME NEW c \in Channels, VisitChannel(c) PROVE IInv'
    BY <1>1, <1>6, VisitChannelKeeps
  <1>7. ASSUME NEW v \in Versions, TakeVersion(v) PROVE IInv'
    BY <1>1, <1>7, TakeVersionKeeps
  <1>8. ASSUME NEW r \in Releases, TakeChannel(r) PROVE IInv'
    BY <1>1, <1>8, TakeChannelKeeps
  <1>9. CASE AnswerVersions
    BY <1>1, <1>9, AnswerVersionsKeeps
  <1>10. CASE EndChannel
    BY <1>1, <1>10, EndChannelKeeps
  <1>11. CASE AnswerChannels
    BY <1>1, <1>11, AnswerChannelsKeeps
  <1>12. CASE Refuse
    BY <1>1, <1>12, RefuseKeeps
  <1>13. CASE Stay
    BY <1>1, <1>13, StayKeeps
  <1>14. CASE UNCHANGED vars
    <2>1. /\ pkg' = pkg /\ at' = at /\ home' = home /\ pc' = pc /\ mode' = mode
          /\ current' = current /\ graph' = graph /\ queue' = queue /\ seen' = seen
          /\ found' = found /\ todo' = todo /\ out' = out
      BY <1>14 DEF vars, search
    <2>2. TypeOK'
      BY <1>1, <2>1 DEF IInv, TypeOK
    <2>3. RequestOK' /\ Refused'
      BY <1>1, <2>1 DEF IInv, RequestOK, Refused, AboutVersions, AboutChannels
    <2>4. PositionOK' /\ OnPath'
      BY <1>1, <2>1, PositionKept DEF IInv
    <2>5. VersionSearch'
      BY <1>1, <2>1 DEF IInv, VersionSearch, AboutVersions
    <2>6. HeadSearch'
      BY <1>1, <2>1 DEF IInv, HeadSearch
    <2>7. ReleasesSoFar'
      <3>1. Offered' = Offered
        BY <2>1 DEF Offered
      <3>. QED BY <1>1, <2>1, <3>1 DEF IInv, ReleasesSoFar, AboutChannels
    <2>. QED BY <2>2, <2>3, <2>4, <2>5, <2>6, <2>7 DEF IInv
  <1>. QED BY <1>1, <1>2, <1>3, <1>4, <1>5, <1>6, <1>7, <1>8, <1>9, <1>10, <1>11, <1>12,
           <1>13, <1>14 DEF Next

-----------------------------------------------------------------------------
(* The next channel *)

\* The releases of the family of channel c come first, by their suffixes.
FamilyFirst(c, s) ==
    \A i, j \in 1 .. Len(s) :
        i < j /\ SameFamily(c, s[j].channel) =>
            SameFamily(c, s[i].channel) /\ Suffix[s[i].channel] <= Suffix[s[j].channel]

\* Every channel that has been looked at and has a head is in the list.
NoneMissed ==
    pc \in {"channels", "heads"} =>
        \A c \in Channels \ (pkg.retired \cup {at.channel} \cup todo) :
            (pc = "heads" => c # graph) /\ Heads(pkg, c, current) # {} =>
                \E r \in ToSet(out) : r.channel = c

\* The invariant from which the choice of the next channel follows.
Choosing ==
    /\ pc \in {"channels", "heads"} => FamilyFirst(at.channel, out)
    /\ NoneMissed
    /\ NextPrefersNewer

\* A release that is inserted keeps that order, although the order of all channels
\* is not transitive: it is among those of the family of c.
LEMMA InsertedFamilyFirst ==
    ASSUME NEW s \in Seq(Releases), NEW r \in Releases, NEW c \in Channels, FamilyFirst(c, s)
    PROVE  FamilyFirst(c, Inserted(c, s, r))
  <1>. DEFINE Before(j) == CandidateLess(c, r.channel, s[j].channel)
              places == {i \in 1 .. Len(s) + 1 : \A j \in i .. Len(s) : Before(j)}
  <1>1. /\ Len(s) \in Nat /\ r.channel \in Channels /\ \A j \in 1 .. Len(s) : s[j].channel \in Channels
        /\ \A x \in Channels : Suffix[x] \in Nat
    <2>1. Len(s) \in Nat /\ \A j \in 1 .. Len(s) : s[j] \in Releases
      OBVIOUS
    <2>. QED BY <2>1, SuffixAssumption DEF Releases
  <1>2. /\ Min(places) \in places /\ Min(places) \in 1 .. Len(s) + 1
        /\ \A i \in places : Min(places) <= i
    <2>1. Len(s) + 1 \in places /\ places \in SUBSET Nat /\ places \subseteq 1 .. Len(s) + 1
      BY <1>1
    <2>. HIDE DEF places
    <2>. QED BY <2>1, MinIn
  <1>3. PICK p : p = Min(places)
    OBVIOUS
  <1>4. p \in 1 .. Len(s) + 1 /\ (\A j \in p .. Len(s) : Before(j)) /\ \A i \in places : p <= i
    <2>1. p \in places
      BY <1>2, <1>3
    <2>. QED BY <1>2, <1>3, <2>1
  <1>5. p > 1 => ~Before(p - 1)
    <2>1. SUFFICES ASSUME p > 1, Before(p - 1) PROVE FALSE
      OBVIOUS
    <2>2. p - 1 \in 1 .. Len(s) + 1 /\ ~(p <= p - 1)
      BY <1>1, <1>4, <2>1
    <2>3. ASSUME NEW j \in (p - 1) .. Len(s) PROVE Before(j)
      <3>1. j = p - 1 \/ j \in p .. Len(s)
        BY <1>1, <1>4
      <3>. HIDE DEF Before
      <3>. QED BY <1>4, <2>1, <3>1
    <2>4. p - 1 \in places
      BY <2>2, <2>3
    <2>. QED BY <1>4, <2>2, <2>4
  <1>. DEFINE t == Inserted(c, s, r)
  <1>6. t = InsertAt(s, p, r)
    BY <1>3 DEF Inserted
  <1>7. /\ Len(t) = Len(s) + 1
        /\ \A j \in 1 .. Len(s) + 1 : t[j] = IF j < p THEN s[j] ELSE IF j = p THEN r ELSE s[j - 1]
    BY <1>4, <1>6, InsertPlaces
  <1>. DEFINE In(x)    == SameFamily(c, x.channel)
              After(x) == Suffix[x.channel]
  <1>8. \A i, j \in 1 .. Len(s) : i < j /\ In(s[j]) => In(s[i]) /\ After(s[i]) <= After(s[j])
    BY DEF FamilyFirst
  <1>9. ASSUME NEW j \in p .. Len(s), In(s[j]) PROVE In(r) /\ After(r) <= After(s[j])
    <2>1. Before(j) /\ j \in 1 .. Len(s)
      BY <1>1, <1>4
    <2>2. In(r)
      BY <1>9, <2>1 DEF CandidateLess
    <2>3. SameFamily(r.channel, s[j].channel)
      BY <1>9, <2>2 DEF SameFamily
    <2>4. After(r) < After(s[j])
      BY <1>9, <2>1, <2>2, <2>3 DEF CandidateLess, ChannelLess
    <2>. QED BY <1>1, <2>1, <2>2, <2>4
  <1>10. ASSUME NEW i \in 1 .. p - 1, In(r) PROVE In(s[i]) /\ After(s[i]) <= After(r)
    <2>1. p - 1 \in 1 .. Len(s) /\ p > 1 /\ i \in 1 .. Len(s)
      BY <1>1, <1>4
    <2>2. In(s[p - 1]) /\ After(s[p - 1]) <= After(r)
      <3>1. ~Before(p - 1)
        BY <1>5, <2>1
      <3>2. In(s[p - 1])
        BY <1>10, <3>1 DEF CandidateLess
      <3>3. SameFamily(r.channel, s[p - 1].channel)
        BY <1>10, <3>2 DEF SameFamily
      <3>4. ~(After(r) < After(s[p - 1]))
        BY <1>10, <3>1, <3>2, <3>3 DEF CandidateLess, ChannelLess
      <3>. QED BY <1>1, <2>1, <3>2, <3>4
    <2>3. CASE i = p - 1
      BY <2>2, <2>3
    <2>4. CASE i < p - 1
      <3>1. In(s[i]) /\ After(s[i]) <= After(s[p - 1])
        BY <1>8, <2>1, <2>2, <2>4
      <3>. QED BY <1>1, <2>1, <2>2, <3>1
    <2>. QED BY <1>4, <2>3, <2>4
  <1>11. ASSUME NEW i \in 1 .. Len(s) + 1, NEW j \in 1 .. Len(s) + 1, i < j, In(t[j])
         PROVE  In(t[i]) /\ After(t[i]) <= After(t[j])
    <2>. HIDE DEF In, After, Before, t
    <2>1. CASE j < p
      <3>1. i \in 1 .. Len(s) /\ j \in 1 .. Len(s) /\ i < p
        BY <1>1, <1>4, <1>11, <2>1
      <3>2. t[i] = s[i] /\ t[j] = s[j]
        BY <1>7, <2>1, <3>1
      <3>. QED BY <1>8, <1>11, <3>1, <3>2
    <2>2. CASE j = p
      <3>1. i \in 1 .. p - 1 /\ i < p
        BY <1>1, <1>4, <1>11, <2>2
      <3>2. t[i] = s[i] /\ t[j] = r
        BY <1>7, <2>2, <3>1
      <3>. QED BY <1>10, <1>11, <3>1, <3>2
    <2>3. CASE j > p
      <3>1. j - 1 \in p .. Len(s) /\ j - 1 \in 1 .. Len(s) /\ ~(j < p) /\ j # p
        BY <1>1, <1>4, <2>3
      <3>2. t[j] = s[j - 1] /\ In(s[j - 1])
        BY <1>7, <1>11, <3>1
      <3>3. CASE i < p
        <4>1. i \in 1 .. Len(s) /\ i < j - 1
          BY <1>1, <1>4, <2>3, <3>3
        <4>2. t[i] = s[i]
          BY <1>7, <3>3
        <4>. QED BY <1>8, <3>1, <3>2, <4>1, <4>2
      <3>4. CASE i = p
        <4>1. t[i] = r
          BY <1>7, <3>4
        <4>. QED BY <1>9, <3>1, <3>2, <4>1
      <3>5. CASE i > p
        <4>1. i - 1 \in 1 .. Len(s) /\ i - 1 < j - 1 /\ ~(i < p) /\ i # p
          BY <1>1, <1>4, <1>11, <3>5
        <4>2. t[i] = s[i - 1]
          BY <1>7, <4>1
        <4>. QED BY <1>8, <3>1, <3>2, <4>1, <4>2
      <3>. QED BY <1>4, <3>3, <3>4, <3>5
    <2>. QED BY <1>4, <2>1, <2>2, <2>3
  <1>. QED BY <1>7, <1>11 DEF FamilyFirst

\* In a list of that order the first newer channel of the family is the oldest.
LEMMA NextReleaseOldest ==
    ASSUME NEW s \in Seq(Releases), NEW c \in Channels, FamilyFirst(c, s),
           NEW n \in 1 .. Len(s), SameFamily(c, s[n].channel), Suffix[c] < Suffix[s[n].channel]
    PROVE  /\ Len(NextRelease(c, s)) = 1
           /\ NextRelease(c, s)[1] \in ToSet(s)
           /\ LET x == NextRelease(c, s)[1].channel IN
                 /\ SameFamily(c, x) /\ Suffix[c] < Suffix[x]
                 /\ \A i \in 1 .. Len(s) :
                       SameFamily(c, s[i].channel) /\ Suffix[c] < Suffix[s[i].channel]
                           => Suffix[x] <= Suffix[s[i].channel]
  <1>. DEFINE newer == {i \in 1 .. Len(s) : /\ SameFamily(c, s[i].channel)
                                            /\ Suffix[c] < Suffix[s[i].channel]}
  <1>1. PICK m : m = Min(newer)
    OBVIOUS
  <1>2. m \in newer /\ \A i \in newer : m <= i
    <2>1. n \in newer /\ newer \in SUBSET Nat
      OBVIOUS
    <2>. HIDE DEF newer
    <2>. QED BY <1>1, <2>1, MinIn
  <1>3. NextRelease(c, s) = <<s[m]>>
    <2>1. s # <<>> /\ newer # {}
      BY <1>2
    <2>. QED BY <1>1, <2>1 DEF NextRelease
  <1>4. m \in 1 .. Len(s) /\ SameFamily(c, s[m].channel) /\ Suffix[c] < Suffix[s[m].channel]
    BY <1>2
  <1>5. ASSUME NEW i \in 1 .. Len(s), SameFamily(c, s[i].channel), Suffix[c] < Suffix[s[i].channel]
        PROVE  Suffix[s[m].channel] <= Suffix[s[i].channel]
    <2>1. m <= i
      BY <1>2, <1>5
    <2>2. CASE m < i
      BY <1>4, <1>5, <2>2 DEF FamilyFirst
    <2>3. CASE m = i
      <3>1. Suffix[s[i].channel] \in Nat
        <4>1. s[i] \in Releases
          OBVIOUS
        <4>. QED BY <4>1, SuffixAssumption DEF Releases
      <3>. QED BY <2>3, <3>1
    <2>. QED BY <1>4, <2>1, <2>2, <2>3
  <1>6. s[m] \in ToSet(s)
    BY <1>4 DEF ToSet
  <1>. HIDE DEF newer
  <1>. QED BY <1>3, <1>4, <1>5, <1>6

LEMMA ChoosingInit == Init => Choosing
  BY DEF Init, Choosing, NoneMissed, NextPrefersNewer

LEMMA EndChannelChooses ==
    ASSUME IInv, Choosing, EndChannel
    PROVE  Choosing'
  <1>1. /\ pc = "heads" /\ queue = {} /\ pc' = "channels"
        /\ pkg' = pkg /\ at' = at /\ current' = current /\ todo' = todo
    BY DEF EndChannel
  <1>2. /\ at.channel \in Channels /\ out \in Seq(Releases) /\ graph \in Channels
        /\ FamilyFirst(at.channel, out)
    BY <1>1, Setting DEF IInv, RequestOK, TypeOK, Choosing
  <1>3. found = Heads(pkg, graph, current)
    BY <1>1, AllHeadsFound
  <1>4. /\ FamilyFirst(at.channel, out') /\ ToSet(out) \subseteq ToSet(out')
        /\ found # {} => \E r \in ToSet(out') : r.channel = graph
    <2>1. CASE found = {} /\ out' = out
      BY <1>2, <2>1
    <2>2. CASE \E h \in Bundles : /\ Greatest(pkg, found, h)
                                  /\ out' = Inserted(at.channel, out, [channel |-> graph, bundle |-> h])
      <3>1. PICK h \in Bundles : out' = Inserted(at.channel, out, [channel |-> graph, bundle |-> h])
        BY <2>2
      <3>. DEFINE new == [channel |-> graph, bundle |-> h]
      <3>2. new \in Releases /\ new.channel = graph
        BY <1>2 DEF Releases
      <3>. HIDE DEF new
      <3>3. out' = Inserted(at.channel, out, new)
        BY <3>1 DEF new
      <3>4. FamilyFirst(at.channel, out') /\ ToSet(out') = ToSet(out) \cup {new}
        BY <1>2, <3>2, <3>3, InsertedElements, InsertedFamilyFirst
      <3>. QED BY <3>2, <3>4
    <2>. QED BY <2>1, <2>2 DEF EndChannel
  <1>5. NoneMissed'
    <2>1. ASSUME NEW c \in Channels \ (pkg.retired \cup {at.channel} \cup todo), Heads(pkg, c, current) # {}
          PROVE  \E r \in ToSet(out') : r.channel = c
      <3>1. CASE c = graph
        BY <1>3, <1>4, <2>1, <3>1
      <3>2. CASE c # graph
        <4>1. \E r \in ToSet(out) : r.channel = c
          BY <1>1, <2>1, <3>2 DEF Choosing, NoneMissed
        <4>. QED BY <1>4, <4>1
      <3>. QED BY <3>1, <3>2
    <2>. QED BY <1>1, <2>1 DEF NoneMissed
  <1>6. FamilyFirst(at.channel, out)'
    BY <1>1, <1>4 DEF FamilyFirst
  <1>. QED BY <1>1, <1>5, <1>6 DEF Choosing, NextPrefersNewer

LEMMA AnswerChannelsChooses ==
    ASSUME IInv, Choosing, AnswerChannels
    PROVE  Choosing'
  <1>1. /\ pc = "channels" /\ todo = {} /\ pc' = "answered"
        /\ out' = IF mode = "next" THEN NextRelease(at.channel, out) ELSE out
        /\ pkg' = pkg /\ at' = at /\ mode' = mode /\ current' = current
    BY DEF AnswerChannels
  <1>2. /\ at.channel \in Channels /\ out \in Seq(Releases) /\ FamilyFirst(at.channel, out)
        /\ ToSet(out) \subseteq Offered
    BY <1>1, Setting DEF IInv, TypeOK, ReleasesSoFar, Choosing
  <1>. DEFINE Newer(c) == SameFamily(at.channel, c) /\ Suffix[at.channel] < Suffix[c]
              newer == {c \in Channels \ pkg.retired : Newer(c) /\ Heads(pkg, c, current) # {}}
  <1>3. ASSUME NEW c \in newer
        PROVE  \E i \in 1 .. Len(out) : out[i].channel = c
    <2>1. c # at.channel
      <3>1. Suffix[at.channel] \in Nat
        BY <1>2, SuffixAssumption
      <3>. QED BY <3>1
    <2>2. PICK r \in ToSet(out) : r.channel = c
      BY <1>1, <2>1 DEF Choosing, NoneMissed
    <2>. QED BY <1>2, <2>2 DEF ToSet
  <1>4. ASSUME mode = "next", newer # {}
        PROVE  /\ Len(out') = 1 /\ out'[1].channel \in newer
               /\ \A c \in newer : Suffix[out'[1].channel] <= Suffix[c]
    <2>1. PICK n \in 1 .. Len(out) : out[n].channel \in newer
      BY <1>3, <1>4
    <2>2. SameFamily(at.channel, out[n].channel) /\ Suffix[at.channel] < Suffix[out[n].channel]
      BY <2>1
    <2>. DEFINE x == out'[1].channel
    <2>3. /\ Len(out') = 1 /\ out'[1] \in ToSet(out)
          /\ SameFamily(at.channel, x) /\ Suffix[at.channel] < Suffix[x]
          /\ \A i \in 1 .. Len(out) :
                SameFamily(at.channel, out[i].channel) /\ Suffix[at.channel] < Suffix[out[i].channel]
                    => Suffix[x] <= Suffix[out[i].channel]
      BY <1>1, <1>2, <1>4, <2>2, NextReleaseOldest
    <2>4. x \in Channels \ pkg.retired /\ Heads(pkg, x, current) # {}
      BY <1>2, <2>3 DEF Offered, Releases, Greatest
    <2>5. ASSUME NEW c \in newer PROVE Suffix[x] <= Suffix[c]
      BY <1>3, <2>3, <2>5
    <2>. QED BY <2>3, <2>4, <2>5
  <1>5. NextPrefersNewer'
    <2>1. \A c \in Channels : Suffix[c] > Suffix[at.channel] <=> Suffix[at.channel] < Suffix[c]
      BY <1>2, SuffixAssumption
    <2>2. newer = {c \in Channels \ pkg.retired :
                     /\ SameFamily(at.channel, c) /\ Suffix[c] > Suffix[at.channel]
                     /\ Heads(pkg, c, current) # {}}
      BY <2>1
    <2>. HIDE DEF newer
    <2>. QED BY <1>1, <1>4, <2>2 DEF NextPrefersNewer
  <1>. QED BY <1>1, <1>5 DEF Choosing, NoneMissed

\* No other step answers a request for channels or ends the search of a channel.
LEMMA ChoosingNext == IInv /\ Choosing /\ [Next]_vars => Choosing'
  <1>1. SUFFICES ASSUME IInv, Choosing, [Next]_vars PROVE Choosing'
    OBVIOUS
  <1>2. ASSUME NEW m \in {"direct", "reachable"}, AskVersions(m) PROVE Choosing'
    BY <1>2 DEF AskVersions, Choosing, NoneMissed, NextPrefersNewer
  <1>3. ASSUME NEW m \in {"next", "all"}, AskChannels(m) PROVE Choosing'
    <2>1. /\ pc' = "channels" /\ at' = at /\ pkg' = pkg /\ out' = <<>>
          /\ todo' = Channels \ (pkg.retired \cup {at.channel})
      BY <1>1, <1>3 DEF AskChannels, IInv, ReleasesSoFar
    <2>2. FamilyFirst(at.channel, out)' /\ NoneMissed' /\ NextPrefersNewer'
      BY <2>1 DEF FamilyFirst, NoneMissed, NextPrefersNewer
    <2>. QED BY <2>2 DEF Choosing
  <1>4. ASSUME NEW b \in Bundles, VisitBundle(b) PROVE Choosing'
    BY <1>4 DEF VisitBundle, Choosing, NoneMissed, NextPrefersNewer
  <1>5. ASSUME NEW b \in Bundles, FollowPath(b) PROVE Choosing'
    <2>1. /\ pc = "heads" /\ pc' = "heads" /\ at' = at /\ pkg' = pkg /\ out' = out
          /\ todo' = todo /\ graph' = graph /\ current' = current
      BY <1>5 DEF FollowPath
    <2>. QED BY <1>1, <2>1 DEF Choosing, FamilyFirst, NoneMissed, NextPrefersNewer
  <1>6. ASSUME NEW c \in Channels, VisitChannel(c) PROVE Choosing'
    <2>1. /\ pc = "channels" /\ pc' = "heads" /\ at' = at /\ pkg' = pkg /\ out' = out
          /\ todo' = todo \ {c} /\ graph' = c /\ current' = current
      BY <1>6 DEF VisitChannel
    <2>. QED BY <1>1, <2>1 DEF Choosing, FamilyFirst, NoneMissed, NextPrefersNewer
  <1>7. ASSUME pc' \in {"ready", "no path", "ambiguous"} PROVE Choosing'
    BY <1>7 DEF Choosing, NoneMissed, NextPrefersNewer
  <1>8. CASE AnswerVersions
    <2>1. pc = "versions" /\ pc' = "answered" /\ mode' = mode
      BY <1>8 DEF AnswerVersions, search
    <2>2. mode # "next"
      BY <1>1, <2>1 DEF IInv, RequestOK, AboutVersions
    <2>. QED BY <2>1, <2>2 DEF Choosing, NoneMissed, NextPrefersNewer
  <1>9. CASE EndChannel
    BY <1>1, <1>9, EndChannelChooses
  <1>10. CASE AnswerChannels
    BY <1>1, <1>10, AnswerChannelsChooses
  <1>11. CASE UNCHANGED vars
    <2>1. /\ pkg' = pkg /\ at' = at /\ pc' = pc /\ mode' = mode
          /\ current' = current /\ graph' = graph /\ todo' = todo /\ out' = out
      BY <1>11 DEF vars, search
    <2>. QED BY <1>1, <2>1 DEF Choosing, FamilyFirst, NoneMissed, NextPrefersNewer
  <1>12. ASSUME \/ \E v \in Versions : TakeVersion(v)
                \/ \E r \in Releases : TakeChannel(r)
                \/ Refuse \/ Stay
         PROVE  Choosing'
    BY <1>7, <1>12 DEF TakeVersion, TakeChannel, Refuse, Stay
  <1>. QED BY <1>1, <1>2, <1>3, <1>4, <1>5, <1>6, <1>8, <1>9, <1>10, <1>11, <1>12 DEF Next

-----------------------------------------------------------------------------
(* Theorems *)

\* The inductive invariant holds in every state.
THEOREM Invariance == Spec => []IInv
  BY IInvInit, IInvNext, PTL DEF Spec

\* The variables have their types.
THEOREM TypeCorrect == Spec => []TypeOK
  <1>1. IInv => TypeOK
    BY DEF IInv
  <1>. QED BY <1>1, Invariance, PTL

\* VersionUpdates offers what the edges of the channel lead to, all of it and nothing
\* else, in every update graph.
THEOREM Offers == Spec => []OffersExact
  <1>1. IInv => OffersExact
    <2>1. SUFFICES ASSUME IInv, pc = "answered", mode \in {"direct", "reachable"}
                   PROVE  LET next == Successors(pkg, at.channel, current)
                              path == IF mode = "direct" THEN next ELSE Reach(pkg, at.channel, next)
                          IN  found = {pkg.version[current]} \cup
                                {pkg.version[b] : b \in path \ (pkg.deprecated \cup {current})}
      BY DEF OffersExact
    <2>. DEFINE next == Successors(pkg, at.channel, current)
    <2>2. pkg \in Package /\ at.channel \in Channels /\ current \in Bundles /\ seen \in SUBSET Bundles
      BY <2>1, Setting DEF IInv, RequestOK, TypeOK
    <2>3. /\ current \in seen /\ queue = {}
          /\ found = {pkg.version[current]} \cup
                     {pkg.version[b] : b \in seen \ (pkg.deprecated \cup {current})}
          /\ seen \subseteq Reach(pkg, at.channel, {current})
          /\ mode = "reachable" => \A b \in seen : Successors(pkg, at.channel, b) \subseteq seen
          /\ mode = "direct" => seen = {current} \cup next
      BY <2>1 DEF IInv, VersionSearch, AboutVersions
    <2>4. CASE mode = "direct"
      BY <2>3, <2>4
    <2>5. CASE mode = "reachable"
      <3>1. Closed(pkg, at.channel, seen)
        BY <2>3, <2>5 DEF Closed
      <3>2. seen = Reach(pkg, at.channel, {current})
        BY <2>2, <2>3, <3>1, ReachLeast
      <3>3. seen = {current} \cup Reach(pkg, at.channel, next)
        BY <2>2, <3>2, ReachFromOne
      <3>. QED BY <2>3, <2>5, <3>3
    <2>. QED BY <2>1, <2>4, <2>5
  <1>. QED BY <1>1, Invariance, PTL

\* ChannelReleases offers the channels that lead to a supported head, each with the
\* greatest, in every update graph and whatever the order of the search.
THEOREM ChannelOffers == Spec => []ReleasesExact
  <1>1. IInv => ReleasesExact
    BY DEF IInv, ReleasesSoFar, AboutChannels, Offered, ReleasesExact
  <1>. QED BY <1>1, Invariance, PTL

\* A client that takes what it was offered is not lost.
THEOREM NotLost == Spec => []NeverLost
  <1>1. IInv => NeverLost
    BY DEF IInv, Refused, NeverLost
  <1>. QED BY <1>1, Invariance, PTL

\* A client that remembers only its version stays on the paths of its bundle.
THEOREM OnTrack == Spec => []StaysOnPath
  <1>1. IInv => StaysOnPath
    <2>1. SUFFICES ASSUME IInv, pc = "answered", mode \in {"direct", "reachable"}
                   PROVE  found \subseteq {pkg.version[b] : b \in Reach(pkg, at.channel, {home})}
      BY DEF StaysOnPath
    <2>2. /\ pkg \in Package /\ at.channel \in Channels /\ home \in Bundles
          /\ current \in Bundles /\ Installed(pkg, at, current)
      BY <2>1, Setting DEF IInv, RequestOK, TypeOK
    <2>3. {current} \subseteq Reach(pkg, at.channel, {home})
      BY <2>1, <2>2 DEF IInv, OnPath
    <2>4. Reach(pkg, at.channel, {current}) \subseteq Reach(pkg, at.channel, {home})
      BY <2>2, <2>3, ReachTransitive
    <2>5. /\ found = {pkg.version[current]} \cup
                     {pkg.version[b] : b \in seen \ (pkg.deprecated \cup {current})}
          /\ seen \subseteq Reach(pkg, at.channel, {current})
      BY <2>1 DEF IInv, VersionSearch, AboutVersions
    <2>. QED BY <2>3, <2>4, <2>5
  <1>. QED BY <1>1, Invariance, PTL

\* Of the newer channels of the family the oldest is the next one, wherever the others
\* are in a list that no transitive order has sorted.
THEOREM NextIsNewer == Spec => []NextPrefersNewer
  <1>1. Spec => []Choosing
    BY ChoosingInit, ChoosingNext, Invariance, PTL DEF Spec
  <1>2. Choosing => NextPrefersNewer
    BY DEF Choosing
  <1>. QED BY <1>1, <1>2, PTL
=============================================================================

------------------------ MODULE ReleaseUpdatesProofs ------------------------
(***************************************************************************)
(* Theorems about ReleaseUpdates for all graphs, streams and requests.     *)
(***************************************************************************)
EXTENDS ReleaseUpdates, FiniteSetTheorems, WellFoundedInduction, TLAPS

-----------------------------------------------------------------------------
(* The newest of a set of versions *)

\* The later of two versions has fewer newer ones.
LEMMA NewerFewer ==
    ASSUME NEW S \in SUBSET Versions, NEW t \in Versions, NEW u \in Versions, t <= u
    PROVE  /\ Cardinality(Newer(S, t)) \in Nat /\ Cardinality(Newer(S, u)) \in Nat
           /\ Cardinality(Newer(S, u)) <= Cardinality(Newer(S, t))
           /\ u \in S /\ t < u => Cardinality(Newer(S, u)) < Cardinality(Newer(S, t))
  <1>1. S \subseteq Nat /\ IsFiniteSet(S) /\ t \in Nat /\ u \in Nat
    <2>1. IsFiniteSet(Versions)
      BY VersionsAssumption
    <2>2. IsFiniteSet(S)
      BY <2>1, FS_Subset
    <2>3. S \subseteq Nat /\ t \in Nat /\ u \in Nat
      BY VersionsAssumption
    <2>. QED BY <2>2, <2>3
  <1>2. Newer(S, t) \subseteq S /\ Newer(S, u) \subseteq Newer(S, t)
    <2>1. ASSUME NEW x \in Newer(S, u) PROVE x \in Newer(S, t)
      <3>1. x \in S /\ x > u /\ x \in Nat
        BY <1>1 DEF Newer
      <3>2. x > t
        BY ONLY <1>1, <3>1, t <= u
      <3>. QED BY <3>1, <3>2 DEF Newer
    <2>2. Newer(S, t) \subseteq S
      BY DEF Newer
    <2>. QED BY <2>1, <2>2
  <1>3. IsFiniteSet(Newer(S, t))
    BY <1>1, <1>2, FS_Subset
  <1>4. IsFiniteSet(Newer(S, u)) /\ Cardinality(Newer(S, u)) <= Cardinality(Newer(S, t))
        /\ (Cardinality(Newer(S, t)) = Cardinality(Newer(S, u)) => Newer(S, t) = Newer(S, u))
    BY <1>2, <1>3, FS_Subset
  <1>5. Cardinality(Newer(S, t)) \in Nat /\ Cardinality(Newer(S, u)) \in Nat
    BY <1>3, <1>4, FS_CardinalityType
  <1>6. u \in S /\ t < u => Newer(S, t) # Newer(S, u)
    BY <1>1 DEF Newer
  <1>. QED BY <1>4, <1>5, <1>6

\* A set of versions has a newest one: the one with the fewest newer ones.
LEMMA MaxIn ==
    ASSUME NEW S \in SUBSET Versions, S # {}
    PROVE  Max(S) \in S /\ \A v \in S : v <= Max(S)
  <1>. DEFINE below  == OpToRel(<, Nat)
              counts == {Cardinality(Newer(S, v)) : v \in S}
  <1>1. S \in SUBSET Nat
    BY VersionsAssumption
  <1>2. counts \subseteq Nat /\ counts # {}
    <2>1. ASSUME NEW v \in S PROVE Cardinality(Newer(S, v)) \in Nat
      <3>1. v \in Versions /\ v <= v
        BY <1>1
      <3>. QED BY <3>1, NewerFewer
    <2>. QED BY <2>1
  <1>3. PICK n \in counts : \A k \in counts : ~ (<<k, n>> \in below)
    <2>. HIDE DEF below, counts
    <2>1. IsWellFoundedOn(below, Nat)
      BY NatLessThanWellFounded DEF below
    <2>. QED BY <1>2, <2>1, WFMin
  <1>4. \A k \in counts : ~(k < n)
    BY <1>2, <1>3 DEF OpToRel
  <1>5. PICK m \in S : n = Cardinality(Newer(S, m))
    OBVIOUS
  <1>6. ASSUME NEW v \in S PROVE v <= m
    <2>1. SUFFICES ASSUME m < v PROVE FALSE
      BY <1>1
    <2>2. m \in Versions /\ v \in Versions /\ m <= v
      BY <1>1, <2>1
    <2>3. Cardinality(Newer(S, v)) < n
      BY <1>5, <2>1, <2>2, NewerFewer
    <2>4. Cardinality(Newer(S, v)) \in counts
      OBVIOUS
    <2>. QED BY <1>4, <2>3, <2>4
  <1>. QED BY <1>1, <1>6 DEF Max

-----------------------------------------------------------------------------
(* Sums *)

\* A set of natural numbers that has members has a least one.
LEMMA LeastIn ==
    ASSUME NEW T, T \subseteq Nat, T # {}
    PROVE  \E m \in T : \A k \in T : ~(k < m)
  <1>. DEFINE below == OpToRel(<, Nat)
  <1>1. PICK m \in T : \A k \in T : ~ (<<k, m>> \in below)
    <2>. HIDE DEF below
    <2>1. IsWellFoundedOn(below, Nat)
      BY NatLessThanWellFounded DEF below
    <2>. QED BY <2>1, WFMin
  <1>2. \A k \in T : ~(k < m)
    BY <1>1 DEF OpToRel
  <1>. QED BY <1>2

\* Of a family of subsets of a finite set one has the fewest members.
LEMMA SmallestIn ==
    ASSUME NEW S, IsFiniteSet(S), NEW D, D \subseteq SUBSET S, D # {}
    PROVE  \E s \in D : \A t \in D : ~(Cardinality(t) < Cardinality(s))
  <1>. DEFINE sizes == {Cardinality(s) : s \in D}
  <1>1. sizes \subseteq Nat /\ sizes # {}
    <2>1. ASSUME NEW s \in D PROVE Cardinality(s) \in Nat
      <3>1. s \in SUBSET S
        OBVIOUS
      <3>. QED BY <3>1, FS_Subset, FS_CardinalityType
    <2>. QED BY <2>1
  <1>2. PICK m \in sizes : \A k \in sizes : ~(k < m)
    <2>. HIDE DEF sizes
    <2>. QED BY <1>1, LeastIn
  <1>3. PICK s \in D : m = Cardinality(s)
    OBVIOUS
  <1>. QED BY <1>2, <1>3

\* Without one of its members a finite set is smaller.
LEMMA OneLess ==
    ASSUME NEW s, IsFiniteSet(s), NEW x \in s
    PROVE  /\ IsFiniteSet(s \ {x})
           /\ Cardinality(s) \in Nat /\ Cardinality(s \ {x}) = Cardinality(s) - 1
           /\ Cardinality(s \ {x}) \in Nat /\ Cardinality(s \ {x}) < Cardinality(s)
  <1>1. IsFiniteSet(s \ {x}) /\ Cardinality(s \ {x}) = Cardinality(s) - 1
    BY FS_RemoveElement
  <1>2. Cardinality(s) \in Nat /\ Cardinality(s \ {x}) \in Nat
    BY <1>1, FS_CardinalityType
  <1>. QED BY <1>1, <1>2

\* The sum of c over S, and the member of a set that is added to it last.
SumOf(c, S) == MapThenSumSet(LAMBDA v : c[v], S)
Last(s)     == CHOOSE x \in s : TRUE

\* What one turn of the fold computes from the sums of smaller sets.
Turn(c, g, s) == IF s = {} THEN 0 ELSE c[Last(s)] + g[s \ {Last(s)}]

\* The member that is added last is one.
LEMMA LastIn ==
    ASSUME NEW s, s # {}
    PROVE  Last(s) \in s
  BY DEF Last

\* There is a function that gives the sums of all subsets: built up by the size of the
\* subsets, whose least size without such a function would follow one with it.
LEMMA SumsExist ==
    ASSUME NEW S, IsFiniteSet(S), NEW c, \A v \in S : c[v] \in Nat
    PROVE  \E g \in [SUBSET S -> Nat] : \A s \in SUBSET S : g[s] = Turn(c, g, s)
  <1>. DEFINE Good(n) == \E g \in [SUBSET S -> Nat] :
                            \A s \in SUBSET S : Cardinality(s) <= n => g[s] = Turn(c, g, s)
              bad     == {n \in Nat : ~Good(n)}
  <1>1. \A s \in SUBSET S : IsFiniteSet(s) /\ Cardinality(s) \in Nat
    BY FS_Subset, FS_CardinalityType
  <1>2. Good(0)
    <2>. DEFINE g == [s \in SUBSET S |-> 0]
    <2>1. g \in [SUBSET S -> Nat]
      OBVIOUS
    <2>2. ASSUME NEW s \in SUBSET S, Cardinality(s) <= 0
          PROVE  g[s] = Turn(c, g, s)
      <3>1. s = {}
        <4>1. Cardinality(s) = 0
          BY <1>1, <2>2
        <4>. QED BY <1>1, <4>1, FS_EmptySet
      <3>. QED BY <3>1 DEF Turn
    <2>. QED BY <2>1, <2>2
  <1>3. ASSUME NEW n \in Nat, Good(n)
        PROVE  Good(n + 1)
    <2>1. PICK g \in [SUBSET S -> Nat] :
             \A s \in SUBSET S : Cardinality(s) <= n => g[s] = Turn(c, g, s)
      BY <1>3
    <2>. DEFINE h == [s \in SUBSET S |-> Turn(c, g, s)]
    <2>2. h \in [SUBSET S -> Nat]
      <3>1. ASSUME NEW s \in SUBSET S PROVE Turn(c, g, s) \in Nat
        <4>1. CASE s = {}
          BY <4>1 DEF Turn
        <4>2. CASE s # {}
          <5>1. Last(s) \in s /\ s \ {Last(s)} \in SUBSET S
            BY <4>2, LastIn
          <5>2. c[Last(s)] \in Nat /\ g[s \ {Last(s)}] \in Nat
            BY <5>1
          <5>. QED BY <4>2, <5>2 DEF Turn
        <4>. QED BY <4>1, <4>2
      <3>. QED BY <3>1
    <2>3. ASSUME NEW s \in SUBSET S, Cardinality(s) <= n + 1
          PROVE  h[s] = Turn(c, h, s)
      <3>1. CASE s = {}
        BY <3>1 DEF Turn
      <3>2. CASE s # {}
        <4>. DEFINE rest == s \ {Last(s)}
        <4>1. Last(s) \in s /\ IsFiniteSet(s) /\ rest \in SUBSET S
          BY <1>1, <3>2, LastIn
        <4>2. Cardinality(rest) <= n
          <5>1. Cardinality(s) \in Nat /\ Cardinality(rest) = Cardinality(s) - 1
            BY <4>1, OneLess
          <5>. QED BY <2>3, <5>1
        <4>3. h[rest] = g[rest]
          BY <2>1, <4>1, <4>2
        <4>. QED BY <3>2, <4>1, <4>3 DEF Turn
      <3>. QED BY <3>1, <3>2
    <2>. HIDE DEF h
    <2>. QED BY <2>2, <2>3
  <1>4. bad = {}
    <2>1. SUFFICES ASSUME bad # {} PROVE FALSE
      OBVIOUS
    <2>2. PICK m \in bad : \A k \in bad : ~(k < m)
      <3>1. bad \subseteq Nat
        OBVIOUS
      <3>. HIDE DEF bad
      <3>. QED BY <2>1, <3>1, LeastIn
    <2>3. m \in Nat /\ ~Good(m)
      OBVIOUS
    <2>. HIDE DEF Good
    <2>4. m # 0
      BY <1>2, <2>3
    <2>5. m - 1 \in Nat /\ m - 1 < m
      BY <2>3, <2>4
    <2>6. Good(m - 1)
      BY <2>2, <2>5
    <2>7. Good((m - 1) + 1)
      BY <1>3, <2>5, <2>6
    <2>. QED BY <2>3, <2>7
  <1>5. Good(Cardinality(S))
    <2>1. Cardinality(S) \in Nat
      BY <1>1
    <2>. HIDE DEF Good
    <2>. QED BY <1>4, <2>1
  <1>6. \A s \in SUBSET S : Cardinality(s) <= Cardinality(S)
    BY FS_Subset
  <1>. QED BY <1>5, <1>6

\* And only one, whatever sets it gives the sums of.
LEMMA SumsUnique ==
    ASSUME NEW S, IsFiniteSet(S), NEW T, S \subseteq T, NEW c, NEW g, NEW h,
           \A s \in SUBSET S : g[s] = Turn(c, g, s),
           \A s \in SUBSET T : h[s] = Turn(c, h, s)
    PROVE  g[S] = h[S]
  <1>. DEFINE differ == {s \in SUBSET S : g[s] # h[s]}
  <1>1. SUFFICES ASSUME differ # {} PROVE FALSE
    OBVIOUS
  <1>2. PICK s \in differ : \A t \in differ : ~(Cardinality(t) < Cardinality(s))
    <2>1. differ \subseteq SUBSET S
      OBVIOUS
    <2>. HIDE DEF differ
    <2>. QED BY <1>1, <2>1, SmallestIn
  <1>3. s \in SUBSET S /\ s \in SUBSET T /\ g[s] # h[s]
    OBVIOUS
  <1>4. g[s] = Turn(c, g, s) /\ h[s] = Turn(c, h, s)
    BY <1>3
  <1>5. s # {}
    BY <1>3, <1>4 DEF Turn
  <1>. DEFINE rest == s \ {Last(s)}
  <1>6. rest \in SUBSET S /\ Cardinality(rest) < Cardinality(s)
    <2>1. Last(s) \in s /\ IsFiniteSet(s)
      BY <1>3, <1>5, LastIn, FS_Subset
    <2>. QED BY <1>3, <2>1, OneLess
  <1>7. g[rest] = h[rest]
    BY <1>2, <1>6
  <1>. QED BY <1>3, <1>4, <1>5, <1>7 DEF Turn

\* The sum over S is what such a function gives.
LEMMA SumIsFold ==
    ASSUME NEW S, IsFiniteSet(S), NEW c, \A v \in S : c[v] \in Nat,
           NEW T, S \subseteq T, NEW g, \A s \in SUBSET T : g[s] = Turn(c, g, s)
    PROVE  SumOf(c, S) = g[S]
  <1>. DEFINE iter == CHOOSE f : f = [s \in SUBSET S |-> Turn(c, f, s)]
  <1>1. SumOf(c, S) = iter[S]
    BY DEF SumOf, MapThenSumSet, MapThenFoldSet, Turn, Last
  <1>2. \E f : f = [s \in SUBSET S |-> Turn(c, f, s)]
    <2>1. PICK f \in [SUBSET S -> Nat] : \A s \in SUBSET S : f[s] = Turn(c, f, s)
      BY ONLY SumsExist, IsFiniteSet(S), \A v \in S : c[v] \in Nat
    <2>2. f = [s \in SUBSET S |-> Turn(c, f, s)]
      BY <2>1
    <2>. QED BY <2>2
  <1>3. iter = [s \in SUBSET S |-> Turn(c, iter, s)]
    BY <1>2
  <1>4. \A s \in SUBSET S : iter[s] = Turn(c, iter, s)
    <2>. HIDE DEF iter
    <2>. QED BY <1>3
  <1>. HIDE DEF iter
  <1>5. iter[S] = g[S]
    BY <1>4, SumsUnique
  <1>. QED BY <1>1, <1>5

\* Nothing adds up to zero.
LEMMA SumEmpty ==
    ASSUME NEW c
    PROVE  SumOf(c, {}) = 0
  <1>1. IsFiniteSet({})
    BY FS_EmptySet
  <1>2. PICK g \in [SUBSET {} -> Nat] : \A s \in SUBSET {} : g[s] = Turn(c, g, s)
    BY <1>1, SumsExist
  <1>3. g[{}] = 0
    BY <1>2 DEF Turn
  <1>4. SumOf(c, {}) = g[{}]
    <2>1. \A v \in {} : c[v] \in Nat
      OBVIOUS
    <2>2. \A T : {} \subseteq T /\ (\A s \in SUBSET T : g[s] = Turn(c, g, s)) => SumOf(c, {}) = g[{}]
      BY ONLY <1>1, <2>1, SumIsFold
    <2>. QED BY <1>2, <2>2
  <1>. QED BY <1>3, <1>4

\* The sum over a set is that without its last member, and the last member.
LEMMA SumLast ==
    ASSUME NEW S, IsFiniteSet(S), S # {}, NEW c, \A v \in S : c[v] \in Nat
    PROVE  /\ SumOf(c, S) \in Nat /\ SumOf(c, S \ {Last(S)}) \in Nat
           /\ SumOf(c, S) = c[Last(S)] + SumOf(c, S \ {Last(S)})
  <1>. DEFINE rest == S \ {Last(S)}
  <1>1. PICK g \in [SUBSET S -> Nat] : \A s \in SUBSET S : g[s] = Turn(c, g, s)
    BY SumsExist
  <1>2. g[S] = c[Last(S)] + g[rest]
    BY <1>1 DEF Turn
  <1>3. rest \subseteq S /\ IsFiniteSet(rest)
    BY FS_Subset
  <1>4. SumOf(c, S) = g[S]
    BY <1>1, SumIsFold
  <1>5. SumOf(c, rest) = g[rest]
    <2>. HIDE DEF rest
    <2>. QED BY <1>1, <1>3, SumIsFold
  <1>. QED BY <1>1, <1>2, <1>3, <1>4, <1>5

\* Any member can be the one that is added last.
LEMMA SumOne ==
    ASSUME NEW S, IsFiniteSet(S), NEW x \in S, NEW c, \A v \in S : c[v] \in Nat
    PROVE  /\ SumOf(c, S) \in Nat /\ SumOf(c, S \ {x}) \in Nat
           /\ SumOf(c, S) = c[x] + SumOf(c, S \ {x})
  <1>. DEFINE Adds(s) == \A y \in s : SumOf(c, s) = c[y] + SumOf(c, s \ {y})
              wrong   == {s \in SUBSET S : ~Adds(s)}
  <1>1. ASSUME NEW s \in SUBSET S PROVE SumOf(c, s) \in Nat /\ IsFiniteSet(s)
    <2>1. IsFiniteSet(s)
      BY FS_Subset
    <2>2. CASE s = {}
      BY <2>1, <2>2, SumEmpty
    <2>3. CASE s # {}
      BY <2>1, <2>3, SumLast
    <2>. QED BY <2>1, <2>2, <2>3
  <1>2. wrong = {}
    <2>1. SUFFICES ASSUME wrong # {} PROVE FALSE
      OBVIOUS
    <2>2. PICK s \in wrong : \A t \in wrong : ~(Cardinality(t) < Cardinality(s))
      <3>1. wrong \subseteq SUBSET S
        OBVIOUS
      <3>. HIDE DEF wrong
      <3>. QED BY <2>1, <3>1, SmallestIn
    <2>3. s \in SUBSET S /\ ~Adds(s)
      OBVIOUS
    <2>4. PICK y \in s : SumOf(c, s) # c[y] + SumOf(c, s \ {y})
      BY <2>3
    <2>. DEFINE l == Last(s)
    <2>5. l \in s /\ IsFiniteSet(s) /\ SumOf(c, s) = c[l] + SumOf(c, s \ {l})
      BY <1>1, <2>3, <2>4, LastIn, SumLast
    <2>6. l # y
      BY <2>4, <2>5
    <2>. HIDE DEF l
    <2>7. ASSUME NEW z \in s PROVE Adds(s \ {z})
      <3>1. s \ {z} \in SUBSET S /\ Cardinality(s \ {z}) < Cardinality(s)
        BY <2>3, <2>5, OneLess
      <3>. HIDE DEF Adds
      <3>. QED BY <2>2, <3>1
    <2>8. /\ SumOf(c, s \ {l}) = c[y] + SumOf(c, (s \ {l}) \ {y})
          /\ SumOf(c, s \ {y}) = c[l] + SumOf(c, (s \ {y}) \ {l})
      BY <2>5, <2>6, <2>7
    <2>9. SumOf(c, (s \ {l}) \ {y}) = SumOf(c, (s \ {y}) \ {l})
      <3>1. (s \ {l}) \ {y} = (s \ {y}) \ {l}
        OBVIOUS
      <3>. QED BY <3>1
    <2>10. c[l] \in Nat /\ c[y] \in Nat /\ SumOf(c, (s \ {l}) \ {y}) \in Nat
      BY <1>1, <2>3, <2>5
    <2>. DEFINE rest == SumOf(c, (s \ {l}) \ {y})
    <2>11. SumOf(c, s) = c[l] + (c[y] + rest) /\ SumOf(c, s \ {y}) = c[l] + rest /\ rest \in Nat
      BY <2>5, <2>8, <2>9, <2>10
    <2>. HIDE DEF rest
    <2>12. SumOf(c, s) = c[y] + SumOf(c, s \ {y})
      BY <2>10, <2>11
    <2>. QED BY <2>4, <2>12
  <1>3. Adds(S)
    BY <1>2
  <1>. QED BY <1>1, <1>3

\* What adds nothing may be left out.
LEMMA SumCompare ==
    ASSUME NEW B, IsFiniteSet(B), NEW A, A \subseteq B, NEW c, NEW d,
           \A v \in B : c[v] \in Nat, \A v \in A : d[v] = c[v], \A v \in B \ A : c[v] = 0
    PROVE  SumOf(d, A) = SumOf(c, B)
  <1>. DEFINE wrong == {s \in SUBSET B : SumOf(d, s \cap A) # SumOf(c, s)}
  <1>1. wrong = {}
    <2>1. SUFFICES ASSUME wrong # {} PROVE FALSE
      OBVIOUS
    <2>2. PICK s \in wrong : \A t \in wrong : ~(Cardinality(t) < Cardinality(s))
      <3>1. wrong \subseteq SUBSET B
        OBVIOUS
      <3>. HIDE DEF wrong
      <3>. QED BY <2>1, <3>1, SmallestIn
    <2>3. s \in SUBSET B /\ SumOf(d, s \cap A) # SumOf(c, s)
      OBVIOUS
    <2>4. s # {}
      <3>1. {} \cap A = {}
        OBVIOUS
      <3>. QED BY <2>3, <3>1, SumEmpty
    <2>5. PICK x \in s : TRUE
      BY <2>4
    <2>. DEFINE rest == s \ {x}
    <2>6. IsFiniteSet(s) /\ rest \in SUBSET B /\ Cardinality(rest) < Cardinality(s)
      <3>1. IsFiniteSet(s)
        BY <2>3, FS_Subset
      <3>. QED BY <2>3, <3>1, OneLess
    <2>7. SumOf(d, rest \cap A) = SumOf(c, rest)
      BY <2>2, <2>6
    <2>8. /\ SumOf(c, s) = c[x] + SumOf(c, rest)
          /\ SumOf(c, rest) \in Nat
      BY <2>3, <2>6, SumOne
    <2>9. CASE x \in A
      <3>1. IsFiniteSet(s \cap A) /\ x \in s \cap A /\ \A v \in s \cap A : d[v] \in Nat
        BY <2>3, <2>6, <2>9, FS_Intersection
      <3>2. SumOf(d, s \cap A) = d[x] + SumOf(d, (s \cap A) \ {x})
        BY <3>1, SumOne
      <3>3. (s \cap A) \ {x} = rest \cap A
        OBVIOUS
      <3>. QED BY <2>3, <2>7, <2>8, <2>9, <3>2, <3>3
    <2>10. CASE x \notin A
      <3>1. s \cap A = rest \cap A
        BY <2>10
      <3>2. c[x] = 0
        BY <2>3, <2>10
      <3>3. SumOf(d, s \cap A) = SumOf(c, rest)
        BY <2>7, <3>1
      <3>. QED BY <2>3, <2>8, <3>2, <3>3
    <2>. QED BY <2>9, <2>10
  <1>2. B \cap A = A
    OBVIOUS
  <1>. QED BY <1>1, <1>2

-----------------------------------------------------------------------------
(* The inductive invariant *)

\* What has been read of the graph.
GraphRead ==
    /\ pc = "graph" => req \in Requests
    /\ pc \in {"graph", "stream"} => tags = None /\ deprecated = {}
    /\ pc \in {"stream", "enrich", "fit", "answered"} =>
          /\ req \in Requests /\ graph \in Graphs
          /\ candidates = {req.current} \cup Updates(graph, req)

\* What has been read of the stream.
StreamRead ==
    pc \in {"enrich", "fit", "answered"} =>
        \/ /\ tags = None /\ deprecated = {}
           /\ Updates(graph, req) = {} \/ ~req.streamKnown
        \/ /\ tags \in Streams
           /\ deprecated = {v \in Accepted(tags) : req.current < v /\ v <= Max(candidates)} \ candidates

\* The inductive invariant.
IInv == TypeOK /\ GraphRead /\ StreamRead

LEMMA IInvInit == Init => IInv
  BY SizesAssumption DEF Init, IInv, TypeOK, GraphRead, StreamRead, Blank

\* The step that answers nothing new.
LEMMA StepsKeepReads ==
    ASSUME IInv, req' = req, graph' = graph, tags' = tags,
           candidates' = candidates, deprecated' = deprecated,
           pc' \in {"fit", "answered"}, pc \in {"enrich", "fit"}
    PROVE  GraphRead' /\ StreamRead'
  <1>1. GraphRead'
    BY DEF IInv, GraphRead
  <1>2. StreamRead'
    BY DEF IInv, StreamRead
  <1>. QED BY <1>1, <1>2

LEMMA AskKeeps ==
    ASSUME IInv, NEW r \in Requests, Ask(r)
    PROVE  IInv'
  <1>1. TypeOK'
    BY SizesAssumption DEF IInv, TypeOK, Ask, Blank
  <1>2. GraphRead' /\ StreamRead'
    BY DEF Ask, GraphRead, StreamRead
  <1>. QED BY <1>1, <1>2 DEF IInv

LEMMA ReceiveGraphKeeps ==
    ASSUME IInv, NEW g \in Graphs, ReceiveGraph(g)
    PROVE  IInv'
  <1>1. /\ req \in Requests /\ req' = req /\ graph' = g /\ tags' = None /\ deprecated' = {}
        /\ candidates' = {req.current} \cup Updates(g, req)
        /\ pc' = IF Updates(g, req) # {} /\ req.streamKnown THEN "stream" ELSE "enrich"
    BY DEF ReceiveGraph, IInv, GraphRead
  <1>2. req.current \in Versions /\ Updates(g, req) \subseteq Versions /\ req.streamKnown \in BOOLEAN
    BY <1>1, InputsAssumption DEF Request, Updates, Successors
  <1>3. TypeOK'
    BY <1>1, <1>2 DEF ReceiveGraph, IInv, TypeOK
  <1>4. GraphRead'
    BY <1>1 DEF GraphRead
  <1>5. StreamRead'
    BY <1>1 DEF StreamRead
  <1>. QED BY <1>3, <1>4, <1>5 DEF IInv

LEMMA ReceiveTagsKeeps ==
    ASSUME IInv, NEW t \in Streams, ReceiveTags(t)
    PROVE  IInv'
  <1>1. TypeOK'
    BY DEF ReceiveTags, IInv, TypeOK, Accepted
  <1>2. GraphRead'
    BY DEF ReceiveTags, IInv, GraphRead
  <1>3. StreamRead'
    BY DEF ReceiveTags, StreamRead
  <1>. QED BY <1>1, <1>2, <1>3 DEF IInv

LEMMA EnrichKeeps ==
    ASSUME IInv, Enrich
    PROVE  IInv'
  <1>1. content' \in [Versions -> Nat] /\ fetched' \in [Versions -> Nat]
    <2>1. Sizes \cup {0} \subseteq Nat
      BY SizesAssumption
    <2>2. content' \in [Versions -> Sizes \cup {0}] /\ fetched' = content'
      BY DEF Enrich
    <2>. QED BY <2>1, <2>2
  <1>2. candidates \subseteq Versions /\ deprecated \subseteq Versions /\ unfitted' \subseteq Listed
    BY DEF Enrich, IInv, TypeOK
  <1>3. TypeOK'
    BY <1>1, <1>2 DEF Enrich, IInv, TypeOK, Listed
  <1>4. GraphRead' /\ StreamRead'
    BY StepsKeepReads DEF Enrich
  <1>. QED BY <1>3, <1>4 DEF IInv

\* What becomes of one text: it is taken off what remains only if that is enough.
LEMMA FitOne ==
    ASSUME NEW v \in Versions, content \in [Versions -> Nat], remaining \in Nat,
           \/ content[v] <= remaining /\ Keep(v)
           \/ Summary <= remaining /\ Summarise(v)
           \/ Drop(v)
    PROVE  content' \in [Versions -> Nat] /\ remaining' \in Nat
  <1>1. content[v] \in Nat /\ Summary \in Nat
    BY SizesAssumption
  <1>2. CASE content[v] <= remaining /\ Keep(v)
    BY <1>1, <1>2 DEF Keep
  <1>3. CASE Summary <= remaining /\ Summarise(v)
    <2>1. content' \in [Versions -> Nat]
      BY <1>1, <1>3 DEF Summarise
    <2>2. remaining' \in Nat
      BY <1>1, <1>3 DEF Summarise
    <2>. QED BY <2>1, <2>2
  <1>4. CASE Drop(v)
    <2>1. content' \in [Versions -> Nat]
      BY <1>4 DEF Drop
    <2>2. remaining' \in Nat
      BY <1>4 DEF Drop
    <2>. QED BY <2>1, <2>2
  <1>. QED BY <1>2, <1>3, <1>4

LEMMA FitKeeps ==
    ASSUME IInv, Fit
    PROVE  IInv'
  <1>. DEFINE v == Max(unfitted)
  <1>1. v \in Versions
    BY MaxIn DEF Fit, IInv, TypeOK
  <1>2. content \in [Versions -> Nat] /\ remaining \in Nat
    BY DEF IInv, TypeOK
  <1>3. content' \in [Versions -> Nat] /\ remaining' \in Nat
    <2>1. \/ content[v] <= remaining /\ Keep(v)
          \/ Summary <= remaining /\ Summarise(v)
          \/ Drop(v)
      BY DEF Fit
    <2>. HIDE DEF v
    <2>. QED BY <1>1, <1>2, <2>1, FitOne
  <1>4. TypeOK'
    BY <1>3 DEF Fit, IInv, TypeOK
  <1>5. GraphRead' /\ StreamRead'
    BY StepsKeepReads DEF Fit
  <1>. QED BY <1>4, <1>5 DEF IInv

LEMMA AnswerKeeps ==
    ASSUME IInv, Answer
    PROVE  IInv'
  <1>1. TypeOK'
    BY DEF Answer, IInv, TypeOK
  <1>2. GraphRead' /\ StreamRead'
    BY StepsKeepReads DEF Answer
  <1>. QED BY <1>1, <1>2 DEF IInv

LEMMA FailuresKeep ==
    ASSUME IInv, GraphFails \/ StreamFails
    PROVE  IInv'
  <1>1. TypeOK'
    BY DEF GraphFails, StreamFails, IInv, TypeOK
  <1>2. GraphRead' /\ StreamRead'
    BY DEF GraphFails, StreamFails, GraphRead, StreamRead
  <1>. QED BY <1>1, <1>2 DEF IInv

LEMMA IInvNext == IInv /\ [Next]_vars => IInv'
  <1>1. SUFFICES ASSUME IInv, [Next]_vars PROVE IInv'
    OBVIOUS
  <1>2. ASSUME NEW r \in Requests, Ask(r) PROVE IInv'
    BY <1>1, <1>2, AskKeeps
  <1>3. ASSUME NEW g \in Graphs, ReceiveGraph(g) PROVE IInv'
    BY <1>1, <1>3, ReceiveGraphKeeps
  <1>4. ASSUME NEW t \in Streams, ReceiveTags(t) PROVE IInv'
    BY <1>1, <1>4, ReceiveTagsKeeps
  <1>5. CASE GraphFails \/ StreamFails
    BY <1>1, <1>5, FailuresKeep
  <1>6. CASE Enrich
    BY <1>1, <1>6, EnrichKeeps
  <1>7. CASE Fit
    BY <1>1, <1>7, FitKeeps
  <1>8. CASE Answer
    BY <1>1, <1>8, AnswerKeeps
  <1>9. CASE UNCHANGED vars
    <2>1. TypeOK'
      BY <1>1, <1>9 DEF vars, IInv, TypeOK
    <2>2. GraphRead' /\ StreamRead'
      BY <1>1, <1>9 DEF vars, IInv, GraphRead, StreamRead
    <2>. QED BY <2>1, <2>2 DEF IInv
  <1>. QED BY <1>1, <1>2, <1>3, <1>4, <1>5, <1>6, <1>7, <1>8, <1>9 DEF Next

-----------------------------------------------------------------------------
(* The budget of texts *)

\* The releases whose texts have been dealt with.
Fitted == Listed \ unfitted

\* Why the text of v is what it is, seen from the texts of the newer releases.
Justified(v) ==
    LET before == Total(Newer(Listed, v)) IN
    \/ content[v] = fetched[v]
    \/ content[v] = Summary /\ before + fetched[v] > MaxBytes
    \/ content[v] = 0 /\ before + fetched[v] > MaxBytes /\ before + Summary > MaxBytes

\* What remains is what the texts that have been dealt with have left; a text that
\* has not is as it was fetched; one that has is newer than all others or was empty.
Fitting ==
    /\ pc \in {"graph", "stream", "enrich"} => remaining = MaxBytes
    /\ pc = "answered" => unfitted = {}
    /\ pc \in {"fit", "answered"} =>
          /\ unfitted \subseteq Listed
          /\ \A u \in unfitted : content[u] = fetched[u]
          /\ remaining + Total(Fitted) = MaxBytes
          /\ \A w \in Fitted : \/ content[w] = 0 /\ fetched[w] = 0
                               \/ \A u \in unfitted : u < w
          /\ \A w \in Fitted : Justified(w)

\* The total of texts is a sum.
LEMMA TotalIsSum ==
    ASSUME NEW S
    PROVE  Total(S) = SumOf(content, S)
  BY DEF Total, SumOf

\* The lists of releases are finite sets of numbers, and the texts have sizes.
LEMMA Sizable ==
    ASSUME IInv
    PROVE  /\ Listed \subseteq Versions /\ Listed \subseteq Nat
           /\ \A S \in SUBSET Listed :
                 /\ IsFiniteSet(S) /\ \A u \in S : content[u] \in Nat
                 /\ SumOf(content, S) \in Nat
           /\ MaxBytes \in Nat /\ Summary \in Nat /\ remaining \in Nat
  <1>1. Listed \subseteq Versions /\ content \in [Versions -> Nat] /\ remaining \in Nat
    BY DEF IInv, TypeOK, Listed
  <1>2. ASSUME NEW S \in SUBSET Listed
        PROVE  IsFiniteSet(S) /\ (\A u \in S : content[u] \in Nat) /\ SumOf(content, S) \in Nat
    <2>1. S \in SUBSET Versions
      BY <1>1
    <2>2. IsFiniteSet(S) /\ \A u \in S : content[u] \in Nat
      BY <1>1, <2>1, VersionsAssumption, FS_Subset
    <2>3. CASE S = {}
      BY <2>2, <2>3, SumEmpty
    <2>4. CASE S # {}
      BY <2>2, <2>4, SumLast
    <2>. QED BY <2>2, <2>3, <2>4
  <1>. QED BY <1>1, <1>2, VersionsAssumption, SizesAssumption

\* What becomes of one text and of what remains.
LEMMA FitTakes ==
    ASSUME NEW v \in Versions, content \in [Versions -> Nat], remaining \in Nat,
           \/ content[v] <= remaining /\ Keep(v)
           \/ content[v] > remaining /\ Summary <= remaining /\ Summarise(v)
           \/ content[v] > remaining /\ Summary > remaining /\ Drop(v)
    PROVE  /\ \A w \in Versions \ {v} : content'[w] = content[w]
           /\ content'[v] \in Nat /\ content'[v] + remaining' = remaining
           /\ \/ content'[v] = content[v]
              \/ content'[v] = Summary /\ content[v] > remaining
              \/ content'[v] = 0 /\ content[v] > remaining /\ Summary > remaining
  <1>1. content[v] \in Nat /\ Summary \in Nat
    BY SizesAssumption
  <1>2. CASE content[v] <= remaining /\ Keep(v)
    BY <1>1, <1>2 DEF Keep
  <1>3. CASE content[v] > remaining /\ Summary <= remaining /\ Summarise(v)
    BY <1>1, <1>3 DEF Summarise
  <1>4. CASE content[v] > remaining /\ Summary > remaining /\ Drop(v)
    BY <1>1, <1>4 DEF Drop
  <1>. QED BY <1>2, <1>3, <1>4

LEMMA FitKeepsFitting ==
    ASSUME IInv, IInv', Fitting, Fit
    PROVE  Fitting'
  <1>0. PICK v : v = Max(unfitted)
    OBVIOUS
  <1>1. /\ v \in unfitted /\ \A u \in unfitted : u <= v
        /\ v \in Listed /\ v \in Versions /\ v \notin Fitted
        /\ unfitted \subseteq Listed
    <2>1. unfitted # {} /\ unfitted \in SUBSET Versions /\ unfitted \subseteq Listed
      BY DEF Fit, Fitting, IInv, TypeOK
    <2>. QED BY <1>0, <2>1, MaxIn DEF Fitted
  <1>2. /\ pc = "fit" /\ pc' = "fit" /\ unfitted' = unfitted \ {v}
        /\ fetched' = fetched /\ Listed' = Listed
    BY <1>0 DEF Fit, Listed
  <1>3. /\ \A w \in Versions \ {v} : content'[w] = content[w]
        /\ content'[v] \in Nat /\ content'[v] + remaining' = remaining
        /\ \/ content'[v] = content[v]
           \/ content'[v] = Summary /\ content[v] > remaining
           \/ content'[v] = 0 /\ content[v] > remaining /\ Summary > remaining
    <2>1. content \in [Versions -> Nat] /\ remaining \in Nat
      BY DEF IInv, TypeOK
    <2>2. \/ content[v] <= remaining /\ Keep(v)
          \/ content[v] > remaining /\ Summary <= remaining /\ Summarise(v)
          \/ content[v] > remaining /\ Summary > remaining /\ Drop(v)
      BY <1>0 DEF Fit
    <2>. QED BY <1>1, <2>1, <2>2, FitTakes
  <1>4. /\ \A u \in unfitted : content[u] = fetched[u]
        /\ remaining + SumOf(content, Fitted) = MaxBytes
        /\ \A w \in Fitted : (content[w] = 0 /\ fetched[w] = 0) \/ \A u \in unfitted : u < w
        /\ \A w \in Fitted : Justified(w)
    BY <1>2, TotalIsSum DEF Fitting
  <1>5. Fitted' = Fitted \cup {v} /\ Fitted \subseteq Listed
    BY <1>1, <1>2 DEF Fitted
  <1>6. /\ Listed \subseteq Versions /\ Listed \subseteq Nat
        /\ \A S \in SUBSET Listed : /\ IsFiniteSet(S) /\ \A u \in S : content[u] \in Nat
                                    /\ SumOf(content, S) \in Nat
        /\ MaxBytes \in Nat /\ Summary \in Nat /\ remaining \in Nat /\ remaining' \in Nat
    BY Sizable DEF IInv, TypeOK
  <1>7. ASSUME NEW S \in SUBSET Listed, v \notin S
        PROVE  SumOf(content', S) = SumOf(content, S)
    <2>1. \A w \in S : content'[w] = content[w]
      BY <1>3, <1>6, <1>7
    <2>2. S \subseteq S /\ IsFiniteSet(S) /\ (\A w \in S : content[w] \in Nat) /\ \A w \in S \ S : content[w] = 0
      BY <1>6
    <2>. QED BY ONLY <2>1, <2>2, SumCompare
  <1>8. remaining' + Total(Fitted)' = MaxBytes
    <2>1. /\ IsFiniteSet(Fitted') /\ v \in Fitted'
          /\ \A w \in Fitted' : content'[w] \in Nat
      <3>1. Fitted' \in SUBSET Listed
        BY <1>1, <1>5
      <3>. QED BY <1>3, <1>5, <1>6, <3>1
    <2>2. SumOf(content', Fitted') = content'[v] + SumOf(content', Fitted' \ {v})
      BY ONLY <2>1, SumOne
    <2>3. Fitted' \ {v} = Fitted
      BY <1>1, <1>5
    <2>4. SumOf(content', Fitted) = SumOf(content, Fitted)
      BY <1>1, <1>5, <1>7
    <2>5. Total(Fitted)' = SumOf(content', Fitted')
      BY DEF Total, SumOf, MapThenSumSet, MapThenFoldSet
    <2>6. SumOf(content, Fitted) \in Nat
      BY <1>5, <1>6
    <2>7. Total(Fitted)' = content'[v] + SumOf(content, Fitted)
      BY <2>2, <2>3, <2>4, <2>5
    <2>. QED BY <1>3, <1>4, <1>6, <2>6, <2>7
  <1>9. Justified(v)'
    <2>. DEFINE newer == Newer(Listed, v)
    <2>1. newer \subseteq Fitted
      <3>1. ASSUME NEW u \in Listed, u > v PROVE u \in Fitted
        <4>1. u \in Nat /\ v \in Nat
          BY <1>1, <1>6
        <4>2. ~(u <= v)
          BY <3>1, <4>1
        <4>. QED BY <1>1, <4>2 DEF Fitted
      <3>. QED BY <3>1 DEF Newer
    <2>2. \A w \in Fitted \ newer : content[w] = 0
      <3>1. ASSUME NEW w \in Fitted \ newer PROVE content[w] = 0
        <4>1. w \in Nat /\ v \in Nat /\ w \in Listed
          BY <1>1, <1>5, <1>6
        <4>2. ~(v < w)
          BY <3>1, <4>1 DEF Newer
        <4>. QED BY <1>1, <1>4, <4>2
      <3>. QED BY <3>1
    <2>3. IsFiniteSet(Fitted) /\ (\A w \in Fitted : content[w] \in Nat) /\ \A w \in newer : content[w] = content[w]
      BY <1>5, <1>6
    <2>. HIDE DEF newer
    <2>4. SumOf(content, newer) = SumOf(content, Fitted)
      BY ONLY <2>1, <2>2, <2>3, SumCompare
    <2>5. newer \in SUBSET Listed /\ v \notin newer
      BY <1>1, <1>5, <2>1
    <2>6. SumOf(content', newer) = SumOf(content, Fitted)
      BY <1>7, <2>4, <2>5
    <2>7. Total(Newer(Listed, v))' = SumOf(content, Fitted)
      <3>1. Newer(Listed, v)' = newer
        BY <1>2 DEF newer, Newer
      <3>2. Total(Newer(Listed, v))' = SumOf(content', Newer(Listed, v)')
        BY DEF Total, SumOf, MapThenSumSet, MapThenFoldSet
      <3>. QED BY <2>6, <3>1, <3>2
    <2>8. content[v] = fetched[v] /\ content[v] \in Nat /\ SumOf(content, Fitted) \in Nat
      BY <1>1, <1>4, <1>5, <1>6
    <2>. QED BY <1>2, <1>3, <1>4, <1>6, <2>7, <2>8 DEF Justified
  <1>10. ASSUME NEW w \in Fitted PROVE Justified(w)'
    <2>1. w \in Listed /\ w # v /\ w \in Versions /\ content'[w] = content[w]
      BY <1>1, <1>3, <1>5, <1>6
    <2>2. CASE content[w] = 0 /\ fetched[w] = 0
      BY <1>2, <2>1, <2>2 DEF Justified
    <2>3. CASE v < w
      <3>. DEFINE newer == Newer(Listed, w)
      <3>1. newer \in SUBSET Listed /\ v \notin newer
        <4>1. v \in Nat /\ w \in Nat
          BY <1>1, <1>6, <2>1
        <4>. QED BY <2>3, <4>1 DEF Newer
      <3>. HIDE DEF newer
      <3>2. SumOf(content', newer) = SumOf(content, newer)
        BY <1>7, <3>1
      <3>3. Total(Newer(Listed, w))' = Total(Newer(Listed, w))
        <4>1. Newer(Listed, w)' = newer
          BY <1>2 DEF newer, Newer
        <4>2. Total(Newer(Listed, w))' = SumOf(content', Newer(Listed, w)')
          BY DEF Total, SumOf, MapThenSumSet, MapThenFoldSet
        <4>. QED BY <3>2, <4>1, <4>2, TotalIsSum DEF newer
      <3>4. Justified(w)
        BY <1>4
      <3>. QED BY <1>2, <2>1, <3>3, <3>4 DEF Justified
    <2>. QED BY <1>1, <1>4, <2>2, <2>3
  <1>11. ASSUME NEW w \in Fitted'
         PROVE  (content'[w] = 0 /\ fetched'[w] = 0) \/ \A u \in unfitted' : u < w
    <2>1. CASE w = v
      <3>1. ASSUME NEW u \in unfitted' PROVE u < v
        <4>1. u \in Nat /\ v \in Nat /\ u <= v /\ u # v
          BY <1>1, <1>2, <1>6
        <4>. QED BY <4>1
      <3>. QED BY <2>1, <3>1
    <2>2. CASE w # v
      <3>1. w \in Fitted /\ content'[w] = content[w]
        BY <1>3, <1>5, <1>6, <2>2
      <3>. QED BY <1>2, <1>4, <3>1
    <2>. QED BY <2>1, <2>2
  <1>12. /\ unfitted' \subseteq Listed'
         /\ \A u \in unfitted' : content'[u] = fetched'[u]
    BY <1>1, <1>2, <1>3, <1>4, <1>6
  <1>13. \A w \in Fitted' : Justified(w)'
    BY <1>5, <1>9, <1>10
  <1>. QED BY <1>2, <1>8, <1>11, <1>12, <1>13 DEF Fitting

LEMMA EnrichStartsFitting ==
    ASSUME IInv, IInv', Fitting, Enrich
    PROVE  Fitting'
  <1>. DEFINE enriched == Listed \ {Min(Listed)}
  <1>1. /\ pc = "enrich" /\ pc' = "fit" /\ Listed' = Listed /\ unfitted' = enriched
        /\ fetched' = content' /\ remaining' = MaxBytes
        /\ \A v \in Versions : content'[v] # 0 => v \in enriched
    BY DEF Enrich, Listed, Fitting
  <1>2. ASSUME NEW w \in Fitted' PROVE content'[w] = 0 /\ fetched'[w] = 0
    <2>1. w \in Versions /\ w \notin enriched
      BY <1>1, Sizable DEF Fitted
    <2>. QED BY <1>1, <2>1
  <1>3. Total(Fitted)' = 0
    <2>1. /\ IsFiniteSet(Fitted') /\ {} \subseteq Fitted'
          /\ (\A v \in Fitted' : content'[v] \in Nat) /\ (\A v \in {} : content'[v] = content'[v])
          /\ \A v \in Fitted' \ {} : content'[v] = 0
      <3>1. Fitted' \in SUBSET Listed
        BY <1>1 DEF Fitted
      <3>. QED BY <1>2, <3>1, Sizable
    <2>2. SumOf(content', {}) = SumOf(content', Fitted')
      BY ONLY <2>1, SumCompare
    <2>3. Total(Fitted)' = SumOf(content', Fitted')
      BY DEF Total, SumOf, MapThenSumSet, MapThenFoldSet
    <2>. QED BY <2>2, <2>3, SumEmpty
  <1>4. remaining' + Total(Fitted)' = MaxBytes
    BY <1>1, <1>3, SizesAssumption
  <1>5. \A w \in Fitted' : Justified(w)'
    BY <1>2 DEF Justified
  <1>. QED BY <1>1, <1>2, <1>4, <1>5 DEF Fitting

\* The steps that do not touch the texts once they are being fitted in.
LEMMA OthersKeepFitting ==
    ASSUME IInv, Fitting,
           \/ \E r \in Requests : Ask(r)
           \/ \E g \in Graphs : ReceiveGraph(g)
           \/ \E t \in Streams : ReceiveTags(t)
           \/ GraphFails \/ StreamFails
    PROVE  Fitting'
  <1>1. pc' \notin {"fit", "answered"}
    BY DEF Ask, ReceiveGraph, ReceiveTags, GraphFails, StreamFails
  <1>2. pc' \in {"graph", "stream", "enrich"} => remaining' = MaxBytes
    BY DEF Ask, ReceiveGraph, ReceiveTags, GraphFails, StreamFails, Fitting
  <1>. QED BY <1>1, <1>2 DEF Fitting

LEMMA AnswerKeepsFitting ==
    ASSUME Fitting, Answer \/ UNCHANGED vars
    PROVE  Fitting'
  <1>1. /\ Listed' = Listed /\ Fitted' = Fitted
        /\ UNCHANGED <<content, fetched, unfitted, remaining>>
    BY DEF Answer, vars, Listed, Fitted
  <1>2. \A w \in Fitted : Justified(w)' <=> Justified(w)
    BY <1>1 DEF Justified, Total, Newer, MapThenSumSet, MapThenFoldSet
  <1>3. Total(Fitted)' = Total(Fitted)
    BY <1>1 DEF Total, MapThenSumSet, MapThenFoldSet
  <1>4. CASE Answer
    <2>1. pc = "fit" /\ pc' = "answered" /\ unfitted' = {}
      BY <1>4 DEF Answer
    <2>. QED BY <1>1, <1>2, <1>3, <2>1 DEF Fitting
  <1>5. CASE UNCHANGED vars
    <2>1. pc' = pc
      BY <1>5 DEF vars
    <2>. QED BY <1>1, <1>2, <1>3, <2>1 DEF Fitting
  <1>. QED BY <1>4, <1>5

LEMMA FittingInit == Init => Fitting
  BY DEF Init, Fitting

LEMMA FittingNext == IInv /\ IInv' /\ Fitting /\ [Next]_vars => Fitting'
  <1>1. SUFFICES ASSUME IInv, IInv', Fitting, [Next]_vars PROVE Fitting'
    OBVIOUS
  <1>2. CASE Enrich
    BY <1>1, <1>2, EnrichStartsFitting
  <1>3. CASE Fit
    BY <1>1, <1>3, FitKeepsFitting
  <1>4. CASE Answer \/ UNCHANGED vars
    BY <1>1, <1>4, AnswerKeepsFitting
  <1>. QED BY <1>1, <1>2, <1>3, <1>4, OthersKeepFitting DEF Next

-----------------------------------------------------------------------------
(* Theorems *)

\* The inductive invariant holds in every state.
THEOREM Invariance == Spec => []IInv
  BY IInvInit, IInvNext, PTL DEF Spec

\* The variables have their types; the budget for texts never falls below zero.
THEOREM TypeCorrect == Spec => []TypeOK
  <1>1. IInv => TypeOK
    BY DEF IInv
  <1>. QED BY <1>1, Invariance, PTL

\* What is known of an answer.
LEMMA Answered ==
    ASSUME IInv, pc = "answered"
    PROVE  /\ req.current \in Versions /\ req.lag \in Nat
           /\ Updates(graph, req) \subseteq Successors(graph, req.current)
           /\ Successors(graph, req.current) \subseteq Versions \ {req.current}
           /\ candidates = {req.current} \cup Updates(graph, req)
           /\ candidates # {} /\ candidates \subseteq Versions
  <1>1. req \in Request /\ candidates = {req.current} \cup Updates(graph, req)
    BY InputsAssumption DEF IInv, GraphRead
  <1>. QED BY <1>1 DEF Request, Updates, Successors, IInv, TypeOK

\* No release that the lag holds back is returned, whatever has been accepted.
THEOREM LagNotUndone == Spec => []WithheldHidden
  <1>1. IInv => WithheldHidden
    <2>1. SUFFICES ASSUME IInv, pc = "answered", NEW t \in Versions,
                          t \in Successors(graph, req.current) \ candidates,
                          t \in deprecated
                   PROVE  FALSE
      BY DEF WithheldHidden, Listed
    <2>. DEFINE targets == Successors(graph, req.current)
                m == Max(candidates)
    <2>2. /\ req.current \in Versions /\ req.lag \in Nat
          /\ targets \subseteq Versions
          /\ candidates = {req.current} \cup Updates(graph, req)
          /\ candidates # {} /\ candidates \subseteq Versions
      BY <2>1, Answered
    <2>3. m \in candidates /\ m \in Versions
      BY <2>2, MaxIn
    <2>4. req.current < t /\ t <= m
      BY <2>1 DEF IInv, StreamRead
    <2>5. m # req.current
      <3>1. req.current \in Nat /\ t \in Nat /\ m \in Nat
        BY <2>2, <2>3, VersionsAssumption
      <3>. HIDE DEF m
      <3>. QED BY <2>4, <3>1
    <2>6. Cardinality(Newer(targets, m)) >= req.lag
      BY <2>2, <2>3, <2>5 DEF Updates
    <2>7. ~(Cardinality(Newer(targets, t)) >= req.lag)
      BY <2>1, <2>2 DEF Updates
    <2>8. /\ Cardinality(Newer(targets, t)) \in Nat /\ Cardinality(Newer(targets, m)) \in Nat
          /\ Cardinality(Newer(targets, m)) <= Cardinality(Newer(targets, t))
      BY <2>1, <2>2, <2>3, <2>4, NewerFewer
    <2>. QED BY <2>2, <2>6, <2>7, <2>8
  <1>. QED BY <1>1, Invariance, PTL

\* Between the installed release and any update that is offered nothing that has been
\* accepted is missing, and nothing else is added.
THEOREM NoGaps == Spec => []RangeComplete
  <1>1. IInv => RangeComplete
    <2>1. SUFFICES ASSUME IInv, pc = "answered" PROVE RangeComplete
      BY DEF RangeComplete
    <2>. DEFINE m == Max(candidates)
    <2>2. /\ req.current \in Versions
          /\ candidates = {req.current} \cup Updates(graph, req)
          /\ candidates # {} /\ candidates \subseteq Versions
      BY <2>1, Answered
    <2>3. m \in candidates /\ m \in Nat /\ \A u \in candidates : u \in Nat /\ u <= m
      BY <2>2, MaxIn, VersionsAssumption
    <2>4. CASE tags = None /\ deprecated = {} /\ (Updates(graph, req) = {} \/ ~req.streamKnown)
      BY <2>1, <2>2, <2>4 DEF RangeComplete
    <2>5. CASE /\ tags \in Streams
               /\ deprecated = {v \in Accepted(tags) : req.current < v /\ v <= m} \ candidates
      <3>1. tags # None
        BY <2>5, InputsAssumption, NoneAssumption
      <3>2. Accepted(tags) \subseteq Nat
        BY VersionsAssumption DEF Accepted
      <3>3. ASSUME NEW u \in candidates
            PROVE  {v \in Accepted(tags) : req.current < v /\ v < u} \subseteq Listed
        BY <2>3, <2>5, <3>2 DEF Listed
      <3>4. ASSUME NEW v \in deprecated
            PROVE  v \in Accepted(tags) /\ req.current < v /\ \E u \in candidates : v < u
        <4>1. v \in Nat /\ v <= m /\ v # m
          BY <2>3, <2>5, <3>2
        <4>. QED BY <2>3, <2>5, <4>1
      <3>. QED BY <2>1, <2>5, <3>1, <3>3, <3>4 DEF RangeComplete
    <2>. QED BY <2>1, <2>4, <2>5 DEF IInv, StreamRead
  <1>. QED BY <1>1, Invariance, PTL

\* The budget holds in every state: what remains and the texts that have been fitted
\* in make up MaxBytes, and every text fitted in is there for a reason.
THEOREM BudgetKept == Spec => []Fitting
  BY FittingInit, FittingNext, Invariance, PTL DEF Spec

\* The texts of a response, whole ones and summaries, stay within MaxBytes.
THEOREM ResponseFits == Spec => []TextsFit
  <1>1. IInv /\ Fitting => TextsFit
    <2>1. SUFFICES ASSUME IInv, Fitting, pc = "answered" PROVE Total(Listed) <= MaxBytes
      BY DEF TextsFit
    <2>2. Fitted = Listed /\ remaining + Total(Fitted) = MaxBytes
      BY <2>1 DEF Fitting, Fitted
    <2>3. Total(Listed) \in Nat /\ remaining \in Nat /\ MaxBytes \in Nat
      BY <2>1, Sizable, TotalIsSum
    <2>. QED BY <2>2, <2>3
  <1>. QED BY <1>1, Invariance, BudgetKept, PTL

\* A text is left out or summarised only if it does not fit beside the newer ones.
THEOREM NothingLeftOutInVain == Spec => []NothingOmittedInVain
  <1>1. Fitting => NothingOmittedInVain
    <2>1. SUFFICES ASSUME Fitting, pc = "answered", NEW v \in Listed PROVE Justified(v)
      BY DEF NothingOmittedInVain, Justified
    <2>. QED BY <2>1 DEF Fitting, Fitted
  <1>. QED BY <1>1, BudgetKept, PTL

-----------------------------------------------------------------------------
(* How many are held back *)

\* A set of versions has an oldest one.
LEMMA MinIn ==
    ASSUME NEW S \in SUBSET Versions, S # {}
    PROVE  \E m \in S : \A u \in S \ {m} : m < u
  <1>1. S \subseteq Nat
    BY VersionsAssumption
  <1>2. PICK m \in S : \A u \in S : ~(u < m)
    BY <1>1, LeastIn
  <1>3. ASSUME NEW u \in S \ {m} PROVE m < u
    <2>1. u \in Nat /\ m \in Nat /\ ~(u < m) /\ u # m
      BY <1>1, <1>2
    <2>. QED BY <2>1
  <1>. QED BY <1>3

\* As many versions have fewer than k newer ones as k says, if there are that many:
\* by the size of the set, whose oldest member is newer than no other.
LEMMA NewestCount ==
    ASSUME NEW S \in SUBSET Versions, NEW k \in Nat
    PROVE  Cardinality({t \in S : Cardinality(Newer(S, t)) < k}) =
              IF k <= Cardinality(S) THEN k ELSE Cardinality(S)
  <1>. DEFINE Newest(s) == {t \in s : Cardinality(Newer(s, t)) < k}
              Counts(s) == Cardinality(Newest(s)) = IF k <= Cardinality(s) THEN k ELSE Cardinality(s)
              wrong     == {s \in SUBSET Versions : ~Counts(s)}
  <1>1. IsFiniteSet(Versions) /\ Versions \subseteq Nat
    BY VersionsAssumption
  <1>2. wrong = {}
    <2>1. SUFFICES ASSUME wrong # {} PROVE FALSE
      OBVIOUS
    <2>2. PICK s \in wrong : \A t \in wrong : ~(Cardinality(t) < Cardinality(s))
      <3>1. wrong \subseteq SUBSET Versions
        OBVIOUS
      <3>. HIDE DEF wrong
      <3>. QED BY <1>1, <2>1, <3>1, SmallestIn
    <2>3. s \in SUBSET Versions /\ ~Counts(s)
      OBVIOUS
    <2>4. s # {}
      <3>1. Newest({}) = {} /\ Cardinality({}) = 0
        BY FS_EmptySet
      <3>2. Counts({})
        <4>. HIDE DEF Newest
        <4>. QED BY <3>1
      <3>. QED BY <2>3, <3>2
    <2>5. PICK m \in s : \A u \in s \ {m} : m < u
      BY <2>3, <2>4, MinIn
    <2>. DEFINE rest == s \ {m}
    <2>6. /\ IsFiniteSet(s) /\ IsFiniteSet(rest) /\ rest \in SUBSET Versions
          /\ Cardinality(s) \in Nat /\ Cardinality(rest) \in Nat
          /\ Cardinality(rest) = Cardinality(s) - 1 /\ Cardinality(rest) < Cardinality(s)
      <3>1. IsFiniteSet(s)
        BY <1>1, <2>3, FS_Subset
      <3>. QED BY <2>3, <3>1, OneLess
    <2>7. Counts(rest)
      <3>. HIDE DEF Counts, rest
      <3>. QED BY <2>2, <2>6
    <2>8. Newer(s, m) = rest
      <3>1. ~(m > m)
        BY <1>1, <2>3
      <3>. QED BY <2>5, <3>1 DEF Newer
    <2>9. ASSUME NEW t \in rest PROVE Newer(s, t) = Newer(rest, t)
      <3>1. ~(m > t)
        BY <1>1, <2>3, <2>5
      <3>. QED BY <3>1 DEF Newer
    <2>10. CASE Cardinality(rest) < k
      <3>1. Newest(s) = Newest(rest) \cup {m}
        BY <2>8, <2>9, <2>10
      <3>2. IsFiniteSet(Newest(rest)) /\ m \notin Newest(rest)
        BY <2>6, FS_Subset
      <3>. HIDE DEF Newest, rest
      <3>3. Cardinality(Newest(s)) = Cardinality(Newest(rest)) + 1
        BY <3>1, <3>2, FS_AddElement
      <3>4. Cardinality(Newest(rest)) = Cardinality(rest)
        BY <2>6, <2>7, <2>10
      <3>. QED BY <2>3, <2>6, <2>10, <3>3, <3>4
    <2>11. CASE ~(Cardinality(rest) < k)
      <3>1. Newest(s) = Newest(rest)
        BY <2>8, <2>9, <2>11
      <3>. HIDE DEF Newest, rest
      <3>2. Cardinality(Newest(rest)) = k
        BY <2>6, <2>7, <2>11
      <3>3. k <= Cardinality(s)
        BY <2>6, <2>11
      <3>. QED BY <2>3, <3>1, <3>2, <3>3
    <2>. QED BY <2>10, <2>11
  <1>3. Counts(S)
    BY <1>2
  <1>. QED BY <1>3

\* The smaller of two numbers.
LEMMA MinOfTwo ==
    ASSUME NEW a \in Nat, NEW b \in Nat
    PROVE  Min({a, b}) = IF a <= b THEN a ELSE b
  <1>. DEFINE m == IF a <= b THEN a ELSE b
  <1>1. m \in {a, b} /\ (\A y \in {a, b} : m <= y) /\ \A x \in {a, b} : (\A y \in {a, b} : x <= y) => x = m
    OBVIOUS
  <1>. HIDE DEF m
  <1>2. Min({a, b}) \in {a, b} /\ \A y \in {a, b} : Min({a, b}) <= y
    BY <1>1 DEF Min
  <1>3. Min({a, b}) = m
    BY <1>1, <1>2
  <1>. QED BY <1>3 DEF m

\* The lag holds back just as many successors as it says, and the newest.
THEOREM LagIsExact == Spec => []LagExact
  <1>1. IInv => LagExact
    <2>1. SUFFICES ASSUME IInv, pc = "answered" PROVE LagExact
      BY DEF LagExact
    <2>. DEFINE targets == Successors(graph, req.current)
                omitted == targets \ candidates
    <2>2. /\ req.lag \in Nat /\ targets \in SUBSET Versions
          /\ req.current \notin targets
          /\ Updates(graph, req) \subseteq targets
          /\ candidates = {req.current} \cup Updates(graph, req)
      BY <2>1, Answered
    <2>3. IsFiniteSet(targets) /\ Cardinality(targets) \in Nat
      BY <2>2, VersionsAssumption, FS_Subset, FS_CardinalityType
    <2>4. \A t \in targets : Cardinality(Newer(targets, t)) \in Nat /\ t \in Nat
      <3>1. ASSUME NEW t \in targets PROVE Cardinality(Newer(targets, t)) \in Nat /\ t \in Nat
        <4>. HIDE DEF targets
        <4>1. t \in Versions /\ t \in Nat /\ t <= t
          <5>1. t \in Versions
            BY <2>2
          <5>. QED BY <5>1, VersionsAssumption
        <4>. QED BY <2>2, <4>1, NewerFewer
      <3>. QED BY <3>1
    <2>5. omitted = {t \in targets : Cardinality(Newer(targets, t)) < req.lag}
      <3>1. \A t \in targets : Cardinality(Newer(targets, t)) >= req.lag <=> ~(Cardinality(Newer(targets, t)) < req.lag)
        BY <2>2, <2>4
      <3>. QED BY <2>2, <3>1 DEF Updates
    <2>. HIDE DEF targets, omitted
    <2>6. Cardinality(omitted) = Min({req.lag, Cardinality(targets)})
      BY <2>2, <2>3, <2>5, NewestCount, MinOfTwo
    <2>7. ASSUME NEW t \in omitted, NEW u \in targets \cap candidates PROVE u < t
      <3>1. SUFFICES ASSUME ~(u < t) PROVE FALSE
        OBVIOUS
      <3>2. /\ t \in targets /\ t \in Nat /\ u \in Nat /\ u \in targets
            /\ Cardinality(Newer(targets, t)) < req.lag /\ u \notin omitted
        BY <2>4, <2>5, <2>7 DEF omitted
      <3>3. t <= u /\ t \in Versions /\ u \in Versions
        BY <2>2, <3>1, <3>2
      <3>4. Cardinality(Newer(targets, u)) <= Cardinality(Newer(targets, t))
        BY <2>2, <3>3, NewerFewer
      <3>5. Cardinality(Newer(targets, u)) < req.lag
        BY <2>2, <2>4, <3>2, <3>4
      <3>. QED BY <2>5, <3>2, <3>5
    <2>8. candidates \subseteq targets \cup {req.current} /\ req.current \in candidates
      BY <2>2
    <2>. QED BY <2>6, <2>7, <2>8 DEF LagExact, targets, omitted
  <1>. QED BY <1>1, Invariance, PTL
=============================================================================

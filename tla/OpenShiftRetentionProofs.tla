---------------------- MODULE OpenShiftRetentionProofs ----------------------
(***************************************************************************)
(* Theorems about OpenShiftRetention for every set of requests, upstreams  *)
(* and policies, any finite number of concurrent handlers and any          *)
(* capacity.                                                               *)
(***************************************************************************)
EXTENDS OpenShiftRetention, FiniteSetTheorems, TLAPS

-----------------------------------------------------------------------------
(* The inductive invariant *)

\* A busy handler has its locals and has not answered yet; once it has
\* registered it has a number.
LocalsOK ==
    \A l \in Lookups :
        /\ pc[l] # "idle" => local[l] \in Locals /\ answer[l] = None
        /\ pc[l] = "fetching" => local[l].attempt # 0

Types == TypeOK /\ LocalsOK

\* There is room for what is retained.
KeptBounded == IsFiniteSet(Kept) /\ Cardinality(Kept) <= Capacity

\* What is retained is the newest publication, of the upstream of now.
RetainedIsNewest ==
    \A r \in Requests : retained[r] # None =>
        /\ retained[r].attempt = newest[r]
        /\ retained[r].url = cfg.url
        /\ retained[r].epoch = generation

\* Attempts are numbered in the order in which lookups start.
AttemptsInOrder ==
    /\ \A r \in Requests : newest[r] <= attempt
    /\ \A l \in Lookups : pc[l] = "fetching" =>
          /\ local[l].attempt <= attempt
          /\ local[l].attempt # newest[local[l].req]
          /\ floor[l] <= newest[local[l].req]
          /\ floor[l] < local[l].attempt
    /\ \A l, m \in Lookups :
          pc[l] = "fetching" /\ pc[m] = "fetching" /\ local[l].attempt = local[m].attempt => l = m

\* As long as an overtaken lookup is under way, the order it lost is remembered,
\* whether or not the result that overtook it is still retained.
OrderRemembered ==
    \A l \in Lookups : pc[l] = "fetching" /\ local[l].attempt < newest[local[l].req] =>
        inFlight[local[l].req].latestSuccess >= newest[local[l].req]

\* The inductive invariant.
IInv ==
    Types /\ InFlightExact /\ KeptBounded /\ RetainedIsNewest /\ AttemptsInOrder
          /\ OrderRemembered /\ MonotonicAnswers

-----------------------------------------------------------------------------
(* Types *)

\* Only finitely many handlers fetch at the same time.
LEMMA FetchingFinite == \A r \in Requests : IsFiniteSet(Fetching(r))
  <1>. TAKE r \in Requests
  <1>1. Fetching(r) \subseteq Lookups
    BY DEF Fetching
  <1>. QED BY <1>1, LookupsAssumption, FS_Subset

\* A registered lookup is counted.
LEMMA Counted ==
    ASSUME Types, InFlightExact, NEW l \in Lookups, pc[l] = "fetching"
    PROVE  /\ local[l] \in Locals /\ local[l].req \in Requests
           /\ inFlight[local[l].req] \in Lookup
           /\ inFlight[local[l].req].pending = Cardinality(Fetching(local[l].req))
           /\ l \in Fetching(local[l].req)
           /\ inFlight[local[l].req].pending >= 1
  <1>1. local[l] \in Locals /\ local[l].req \in Requests
    BY DEF Types, LocalsOK, Locals
  <1>2. l \in Fetching(local[l].req)
    BY DEF Fetching
  <1>3. /\ inFlight[local[l].req] # None
        /\ inFlight[local[l].req].pending = Cardinality(Fetching(local[l].req))
    BY <1>1, <1>2 DEF InFlightExact
  <1>4. Cardinality(Fetching(local[l].req)) # 0
    BY <1>1, <1>2, FetchingFinite, FS_EmptySet
  <1>5. inFlight[local[l].req] \in Lookup
    BY <1>1, <1>3 DEF Types, TypeOK
  <1>. QED BY <1>1, <1>2, <1>3, <1>4, <1>5 DEF Lookup

\* The section that decides keeps the types of what it always writes.
LEMMA FinishTypes ==
    ASSUME Types, InFlightExact, NEW l \in Lookups, NEW success \in Nat,
           NEW result \in Entry \cup {None}, Finish(l, success, result)
    PROVE  /\ inFlight' \in [Requests -> Lookup \cup {None}]
           /\ pc' \in [Lookups -> {"idle", "start", "fetching"}]
           /\ local' \in [Lookups -> Locals \cup {None}]
           /\ answer' \in [Lookups -> Entry \cup {None}]
           /\ LocalsOK'
  <1>. DEFINE r == local[l].req
              old == inFlight[r]
              new == IF old.pending = 1 THEN None
                     ELSE [pending |-> old.pending - 1, latestSuccess |-> success]
  <1>1. r \in Requests /\ old \in Lookup /\ old.pending \in Nat /\ old.pending >= 1
    BY Counted DEF Finish, Lookup
  <1>2. new \in Lookup \cup {None}
    BY <1>1 DEF Lookup
  <1>3. inFlight' = [inFlight EXCEPT ![r] = new]
    BY DEF Finish
  <1>. HIDE DEF new
  <1>4. inFlight' \in [Requests -> Lookup \cup {None}]
    BY <1>1, <1>2, <1>3 DEF Types, TypeOK
  <1>. QED BY <1>4 DEF Finish, Types, TypeOK, LocalsOK

\* The service starts with empty maps and idle handlers.
THEOREM TypesInit == Init => Types
  <1>. SUFFICES ASSUME Init PROVE Types
    OBVIOUS
  <1>1. /\ cfg \in Configs
        /\ attempt \in Nat /\ generation \in Nat /\ now \in Nat /\ reloads \in Nat
    BY DEF Init
  <1>2. /\ retained \in [Requests -> Entry \cup {None}]
        /\ inFlight \in [Requests -> Lookup \cup {None}]
        /\ newest \in [Requests -> Nat]
    BY DEF Init
  <1>3. /\ pc \in [Lookups -> {"idle", "start", "fetching"}]
        /\ local \in [Lookups -> Locals \cup {None}]
        /\ answer \in [Lookups -> Entry \cup {None}]
        /\ floor \in [Lookups -> Nat]
    BY DEF Init
  <1>4. LocalsOK
    BY DEF Init, LocalsOK
  <1>. QED BY <1>1, <1>2, <1>3, <1>4 DEF Types, TypeOK

\* The entry that a lookup publishes.
EntryOf(l) == [attempt |-> local[l].attempt, generatedAt |-> now,
               url |-> local[l].url, epoch |-> local[l].generation]

\* What registering writes.
LEMMA RegisterDoes ==
    ASSUME Types, NEW l \in Lookups, Register(l)
    PROVE  /\ local[l] \in Locals /\ local[l].req \in Requests
           /\ local'[l] \in Locals /\ local'[l].attempt = attempt + 1
           /\ local'[l].req = local[l].req
           /\ \A m \in Lookups \ {l} : local'[m] = local[m]
           /\ local' \in [Lookups -> Locals \cup {None}]
  <1>1. PICK old \in Locals : old = local[l]
    BY DEF Register, Types, LocalsOK
  <1>2. PICK number \in Nat : number = attempt + 1
    BY DEF Types, TypeOK
  <1>3. PICK g \in Nat : g = generation
    BY DEF Types, TypeOK
  <1>4. PICK new : new = [old EXCEPT !.attempt = number, !.generation = g]
    OBVIOUS
  <1>5. /\ new \in Locals /\ new.attempt = number /\ new.req = old.req
        /\ old.req \in Requests
    BY ONLY old \in Locals, number \in Nat, g \in Nat, <1>4 DEF Locals
  <1>6. local' = [local EXCEPT ![l] = new]
    BY <1>1, <1>2, <1>3, <1>4 DEF Register
  <1>. QED BY <1>1, <1>2, <1>5, <1>6 DEF Types, TypeOK

\* What publishing writes: the entry replaces the result of its request, and at
\* most one other result, of a request that had one, is forgotten for it.
LEMMA PublishDoes ==
    ASSUME Types, NEW l \in Lookups, Publish(l)
    PROVE  /\ local[l] \in Locals /\ local[l].req \in Requests
           /\ EntryOf(l) \in Entry
           /\ Finish(l, local[l].attempt, EntryOf(l))
           /\ newest' = [newest EXCEPT ![local[l].req] = local[l].attempt]
           /\ \E forgotten \in Kept \cup {None} :
                 /\ forgotten = None => local[l].req \in Kept \/ Cardinality(Kept) < Capacity
                 /\ forgotten # None => local[l].req \notin Kept
                 /\ retained' = [k \in Requests |->
                                   IF k = local[l].req THEN EntryOf(l)
                                   ELSE IF k = forgotten THEN None ELSE retained[k]]
  <1>. DEFINE r == local[l].req
              entry == EntryOf(l)
  <1>1. local[l] \in Locals /\ local[l].attempt \in Nat \ {0} /\ r \in Requests
    BY DEF Publish, Types, LocalsOK, Locals
  <1>2. entry \in Entry
    BY <1>1 DEF EntryOf, Entry, Locals, Types, TypeOK
  <1>3. PICK rest \in MakeRoom(r) :
           retained' = [k \in Requests |-> IF k = r THEN entry
                                           ELSE IF k \in rest THEN retained[k] ELSE None]
    BY DEF Publish, EntryOf
  <1>4. Finish(l, local[l].attempt, entry) /\ newest' = [newest EXCEPT ![r] = local[l].attempt]
    BY DEF Publish, EntryOf
  <1>. HIDE DEF entry
  <1>5. CASE r \in Kept \/ Cardinality(Kept) < Capacity
    <2>1. rest = Kept
      BY <1>3, <1>5 DEF MakeRoom
    <2>2. \A k \in Requests : (IF k \in rest THEN retained[k] ELSE None)
                                = (IF k = None THEN None ELSE retained[k])
      BY <2>1, NoneAssumption DEF Kept
    <2>3. retained' = [k \in Requests |-> IF k = r THEN entry
                                          ELSE IF k = None THEN None ELSE retained[k]]
      BY <1>3, <2>2
    <2>. QED BY <1>1, <1>2, <1>4, <1>5, <2>3 DEF entry
  <1>6. CASE ~(r \in Kept \/ Cardinality(Kept) < Capacity)
    <2>1. PICK oldest \in Kept : rest = Kept \ {oldest}
      BY <1>3, <1>6 DEF MakeRoom
    <2>2. oldest \in Requests /\ oldest # None
      BY NoneAssumption DEF Kept
    <2>3. \A k \in Requests : (IF k \in rest THEN retained[k] ELSE None)
                                = (IF k = oldest THEN None ELSE retained[k])
      BY <2>1 DEF Kept
    <2>4. retained' = [k \in Requests |-> IF k = r THEN entry
                                          ELSE IF k = oldest THEN None ELSE retained[k]]
      BY <1>3, <2>3
    <2>. QED BY <1>1, <1>2, <1>4, <1>6, <2>2, <2>4 DEF entry
  <1>. QED BY <1>5, <1>6

\* Every step keeps the types.
LEMMA TypesNext == Types /\ InFlightExact /\ [Next]_vars => Types'
  <1>. SUFFICES ASSUME Types, InFlightExact, [Next]_vars
                PROVE  Types'
    OBVIOUS
  <1>1. ASSUME NEW l \in Lookups, NEW r \in Requests, Request(l, r)
        PROVE  Types'
    <2>. DEFINE new == [req |-> r, url |-> cfg.url, attempt |-> 0, generation |-> 0]
    <2>1. new \in Locals
      BY DEF Locals, Types, TypeOK, Configs
    <2>2. local' = [local EXCEPT ![l] = new]
      BY <1>1 DEF Request
    <2>. HIDE DEF new
    <2>. QED BY <1>1, <2>1, <2>2 DEF Request, Types, TypeOK, LocalsOK
  <1>2. ASSUME NEW l \in Lookups, Register(l)
        PROVE  Types'
    <2>. DEFINE r == local[l].req
                lookup == IF inFlight[r] = None THEN [pending |-> 0, latestSuccess |-> 0]
                          ELSE inFlight[r]
                counted == [lookup EXCEPT !.pending = @ + 1]
    <2>1. /\ r \in Requests /\ local'[l] \in Locals /\ local'[l].attempt = attempt + 1
          /\ \A m \in Lookups \ {l} : local'[m] = local[m]
          /\ local' \in [Lookups -> Locals \cup {None}]
      BY <1>2, RegisterDoes
    <2>2. lookup \in Lookup
      BY <2>1 DEF Lookup, Types, TypeOK
    <2>3. counted \in Lookup
      BY <2>2 DEF Lookup
    <2>4. inFlight' = [inFlight EXCEPT ![r] = counted]
      BY <1>2 DEF Register
    <2>5. /\ attempt' \in Nat /\ attempt + 1 # 0 /\ floor' \in [Lookups -> Nat]
          /\ pc' = [pc EXCEPT ![l] = "fetching"]
          /\ UNCHANGED <<cfg, retained, generation, now, reloads, answer, newest>>
      BY <1>2, <2>1 DEF Register, Types, TypeOK
    <2>. HIDE DEF counted, lookup, r
    <2>6. inFlight' \in [Requests -> Lookup \cup {None}]
      BY <2>1, <2>3, <2>4 DEF Types, TypeOK
    <2>7. pc[l] = "start"
      BY <1>2 DEF Register
    <2>8. LocalsOK'
      BY <2>1, <2>5, <2>7 DEF Types, TypeOK, LocalsOK
    <2>. QED BY <2>1, <2>5, <2>6, <2>8 DEF Types, TypeOK
  <1>3. ASSUME NEW l \in Lookups, Reject(l) \/ FallBack(l) \/ YieldToNewer(l)
        PROVE  Types'
    <2>. DEFINE success == inFlight[local[l].req].latestSuccess
    <2>1. local[l].req \in Requests /\ success \in Nat
      BY <1>3, Counted DEF Reject, FallBack, YieldToNewer, Lookup
    <2>2. PICK result \in Entry \cup {None} : Finish(l, success, result)
      BY <1>3, <2>1 DEF Reject, FallBack, YieldToNewer, Retained, Kept, Types, TypeOK
    <2>3. UNCHANGED <<cfg, retained, attempt, generation, now, reloads, newest, floor>>
      BY <1>3, <2>2 DEF Reject, FallBack, YieldToNewer, Finish
    <2>. HIDE DEF success
    <2>. QED BY <2>1, <2>2, <2>3, FinishTypes DEF Types, TypeOK
  <1>4. ASSUME NEW l \in Lookups, Publish(l)
        PROVE  Types'
    <2>1. PICK forgotten \in Kept \cup {None} :
             retained' = [k \in Requests |->
                            IF k = local[l].req THEN EntryOf(l)
                            ELSE IF k = forgotten THEN None ELSE retained[k]]
      BY <1>4, PublishDoes
    <2>2. /\ local[l] \in Locals /\ local[l].req \in Requests /\ EntryOf(l) \in Entry
          /\ Finish(l, local[l].attempt, EntryOf(l))
          /\ newest' = [newest EXCEPT ![local[l].req] = local[l].attempt]
      BY <1>4, PublishDoes
    <2>3. local[l].attempt \in Nat
      BY <2>2 DEF Locals
    <2>4. retained' \in [Requests -> Entry \cup {None}]
      BY <2>1, <2>2 DEF Types, TypeOK
    <2>5. newest' \in [Requests -> Nat]
      BY <2>2, <2>3 DEF Types, TypeOK
    <2>. HIDE DEF EntryOf
    <2>6. /\ inFlight' \in [Requests -> Lookup \cup {None}]
          /\ pc' \in [Lookups -> {"idle", "start", "fetching"}]
          /\ local' \in [Lookups -> Locals \cup {None}]
          /\ answer' \in [Lookups -> Entry \cup {None}]
          /\ LocalsOK'
      BY <2>2, <2>3, FinishTypes
    <2>. QED BY <2>2, <2>4, <2>5, <2>6 DEF Finish, Types, TypeOK
  <1>5. ASSUME NEW next \in Configs, Reload(next)
        PROVE  Types'
    <2>1. retained' \in [Requests -> Entry \cup {None}] /\ generation' \in Nat /\ reloads' \in Nat
      BY <1>5 DEF Reload, Types, TypeOK
    <2>. QED BY <1>5, <2>1 DEF Reload, Types, TypeOK, LocalsOK
  <1>6. CASE Tick \/ UNCHANGED vars
    BY <1>6 DEF Tick, vars, Types, TypeOK, LocalsOK
  <1>. QED BY <1>1, <1>2, <1>3, <1>4, <1>5, <1>6 DEF Next, Decide

-----------------------------------------------------------------------------
(* The lookups that are counted *)

\* However a lookup ends, it finishes, and only publishing touches newest.
LEMMA DecideFinishes ==
    ASSUME Types, InFlightExact, NEW l \in Lookups, Decide(l)
    PROVE  \E success \in Nat, result \in Entry \cup {None} :
             /\ Finish(l, success, result)
             /\ ~Publish(l) => /\ success = inFlight[local[l].req].latestSuccess
                               /\ UNCHANGED <<retained, newest>>
                               /\ result # None => result = retained[local[l].req]
             /\ Publish(l) => success = local[l].attempt /\ result = EntryOf(l)
  <1>. DEFINE r == local[l].req
              success == inFlight[r].latestSuccess
  <1>1. r \in Requests /\ success \in Nat
    BY Counted DEF Decide, Reject, FallBack, YieldToNewer, Publish, Lookup
  <1>2. CASE Publish(l)
    <2>1. /\ local[l].attempt \in Nat /\ EntryOf(l) \in Entry
          /\ Finish(l, local[l].attempt, EntryOf(l))
      BY <1>2, PublishDoes DEF Locals
    <2>. QED BY <1>2, <2>1
  <1>3. CASE ~Publish(l)
    <2>1. PICK result \in Entry \cup {None} :
             /\ Finish(l, success, result)
             /\ UNCHANGED <<retained, newest>>
             /\ result # None => result = retained[r]
      BY <1>1, <1>3 DEF Decide, Reject, FallBack, YieldToNewer, Retained, Kept, Types, TypeOK
    <2>. QED BY <1>1, <1>3, <2>1
  <1>. QED BY <1>2, <1>3

\* Finishing takes the lookup out of the set of its request, and its count down.
LEMMA FinishCounts ==
    ASSUME Types, InFlightExact, NEW l \in Lookups, NEW r \in Requests, r = local[l].req,
           NEW success \in Nat, NEW result, Finish(l, success, result)
    PROVE  /\ \A k \in Requests : Fetching(k)' = Fetching(k) \ {l}
           /\ \A k \in Requests \ {r} :
                 Fetching(k)' = Fetching(k) /\ inFlight'[k] = inFlight[k]
           /\ IF Fetching(r)' = {} THEN inFlight'[r] = None
              ELSE inFlight'[r] =
                     [pending |-> Cardinality(Fetching(r)'),
                      latestSuccess |-> success]
  <1>1. /\ l \in Fetching(r) /\ inFlight[r].pending = Cardinality(Fetching(r))
        /\ inFlight[r].pending >= 1
    BY Counted DEF Finish
  <1>2. \A k \in Requests : Fetching(k)' = Fetching(k) \ {l}
    BY DEF Finish, Fetching, Types, TypeOK
  <1>3. \A k \in Requests \ {r} : Fetching(k)' = Fetching(k) /\ inFlight'[k] = inFlight[k]
    BY <1>2 DEF Finish, Fetching, Types, TypeOK
  <1>4. IsFiniteSet(Fetching(r)) /\ Cardinality(Fetching(r)) \in Nat
    BY <1>1, FetchingFinite, FS_CardinalityType
  <1>5. /\ IsFiniteSet(Fetching(r)')
        /\ Cardinality(Fetching(r)') = Cardinality(Fetching(r)) - 1
        /\ Fetching(r)' = {} <=> Cardinality(Fetching(r)') = 0
    <2>. DEFINE rest == Fetching(r) \ {l}
    <2>1. IsFiniteSet(rest) /\ Cardinality(rest) = Cardinality(Fetching(r)) - 1
      BY <1>1, <1>4, FS_RemoveElement
    <2>2. rest = {} <=> Cardinality(rest) = 0
      BY <2>1, FS_EmptySet
    <2>. QED BY <1>2, <2>1, <2>2
  <1>6. inFlight'[r] = IF inFlight[r].pending = 1 THEN None
                       ELSE [pending |-> inFlight[r].pending - 1, latestSuccess |-> success]
    BY <1>1 DEF Finish, Types, TypeOK
  <1>. QED BY <1>1, <1>2, <1>3, <1>4, <1>5, <1>6

\* Registering adds the lookup to the set of its request, and counts it in.
LEMMA RegisterCounts ==
    ASSUME Types, InFlightExact, NEW l \in Lookups, NEW r \in Requests, r = local[l].req, Register(l)
    PROVE  /\ \A k \in Requests \ {r} :
                 Fetching(k)' = Fetching(k) /\ inFlight'[k] = inFlight[k]
           /\ l \in Fetching(r)'
           /\ inFlight'[r] # None
           /\ inFlight'[r].pending = Cardinality(Fetching(r)')
           /\ inFlight[r] # None =>
                 inFlight'[r].latestSuccess = inFlight[r].latestSuccess
  <1>1. /\ local[l].req \in Requests /\ local'[l].req = local[l].req
        /\ \A m \in Lookups \ {l} : local'[m] = local[m]
    BY RegisterDoes
  <1>2. pc[l] = "start" /\ pc' = [pc EXCEPT ![l] = "fetching"]
    BY DEF Register
  <1>. DEFINE lookup == IF inFlight[r] = None THEN [pending |-> 0, latestSuccess |-> 0]
                        ELSE inFlight[r]
              counted == [lookup EXCEPT !.pending = @ + 1]
  <1>3. \A k \in Requests \ {r} : Fetching(k)' = Fetching(k)
    BY <1>1, <1>2 DEF Fetching, Types, TypeOK
  <1>4. Fetching(r)' = Fetching(r) \cup {l} /\ l \notin Fetching(r)
    BY <1>1, <1>2 DEF Fetching, Types, TypeOK
  <1>5. inFlight' = [inFlight EXCEPT ![r] = counted]
    BY DEF Register
  <1>6. lookup \in Lookup /\ lookup.pending = Cardinality(Fetching(r))
    <2>1. CASE inFlight[r] = None
      <3>1. Fetching(r) = {}
        BY <1>1, <2>1 DEF InFlightExact
      <3>. QED BY <2>1, <3>1, FS_EmptySet DEF Lookup
    <2>2. CASE inFlight[r] # None
      BY <1>1, <2>2 DEF InFlightExact, Types, TypeOK
    <2>. QED BY <2>1, <2>2
  <1>7. /\ counted \in Lookup /\ counted.pending = lookup.pending + 1
        /\ counted.latestSuccess = lookup.latestSuccess
    BY <1>6 DEF Lookup
  <1>8. counted # None
    BY <1>7, NoneAssumption
  <1>9. inFlight[r] # None => lookup = inFlight[r]
    OBVIOUS
  <1>. HIDE DEF counted, lookup
  <1>10. Cardinality(Fetching(r)') = Cardinality(Fetching(r)) + 1
    BY <1>1, <1>4, FetchingFinite, FS_AddElement
  <1>11. inFlight'[r] = counted /\ \A k \in Requests \ {r} : inFlight'[k] = inFlight[k]
    BY <1>1, <1>5 DEF Types, TypeOK
  <1>. QED BY <1>3, <1>4, <1>6, <1>7, <1>8, <1>9, <1>10, <1>11

\* Every step keeps the count exact.
LEMMA InFlightExactNext == Types /\ InFlightExact /\ [Next]_vars => InFlightExact'
  <1>. SUFFICES ASSUME Types, InFlightExact, [Next]_vars
                PROVE  InFlightExact'
    OBVIOUS
  <1>1. ASSUME NEW l \in Lookups, NEW r \in Requests, Request(l, r)
        PROVE  InFlightExact'
    <2>1. \A k \in Requests : Fetching(k)' = Fetching(k) /\ inFlight'[k] = inFlight[k]
      BY <1>1 DEF Request, Fetching, Types, TypeOK
    <2>. QED BY <2>1 DEF InFlightExact
  <1>2. ASSUME NEW l \in Lookups, Register(l)
        PROVE  InFlightExact'
    <2>1. PICK r \in Requests : r = local[l].req
      BY <1>2, RegisterDoes
    <2>. QED BY <1>2, <2>1, RegisterCounts DEF InFlightExact
  <1>3. ASSUME NEW l \in Lookups, Decide(l)
        PROVE  InFlightExact'
    <2>1. PICK success \in Nat, result \in Entry \cup {None} : Finish(l, success, result)
      BY <1>3, DecideFinishes
    <2>3. PICK r \in Requests : r = local[l].req
      BY <2>1, Counted DEF Finish
    <2>4. /\ \A k \in Requests : Fetching(k)' = Fetching(k) \ {l}
          /\ \A k \in Requests \ {r} : Fetching(k)' = Fetching(k) /\ inFlight'[k] = inFlight[k]
          /\ IF Fetching(r)' = {} THEN inFlight'[r] = None
             ELSE inFlight'[r] = [pending |-> Cardinality(Fetching(r)'), latestSuccess |-> success]
      BY <2>1, <2>3, FinishCounts
    <2>2. ASSUME NEW k \in Requests
          PROVE  IF Fetching(k)' = {} THEN inFlight'[k] = None
                 ELSE inFlight'[k] # None /\ inFlight'[k].pending = Cardinality(Fetching(k)')
      <3>1. CASE k # r
        BY <2>4, <3>1 DEF InFlightExact
      <3>2. CASE k = r
        <4>. DEFINE count == Cardinality(Fetching(k)')
                    new == [pending |-> count, latestSuccess |-> success]
        <4>1. IF Fetching(k)' = {} THEN inFlight'[k] = None ELSE inFlight'[k] = new
          BY <2>4, <3>2
        <4>2. Fetching(k)' \subseteq Fetching(k)
          BY <2>4
        <4>3. count \in Nat
          BY <4>2, FetchingFinite, FS_Subset, FS_CardinalityType
        <4>4. new \in Lookup /\ new.pending = count
          <5>. HIDE DEF count
          <5>. QED BY <4>3 DEF Lookup
        <4>5. new # None
          BY <4>4, NoneAssumption
        <4>. HIDE DEF new
        <4>. QED BY <4>1, <4>4, <4>5
      <3>. QED BY <3>1, <3>2
    <2>. QED BY <2>2 DEF InFlightExact
  <1>4. CASE (\E next \in Configs : Reload(next)) \/ Tick \/ UNCHANGED vars
    <2>1. UNCHANGED <<inFlight, pc, local>>
      BY <1>4 DEF Reload, Tick, vars
    <2>. QED BY <2>1 DEF InFlightExact, Fetching
  <1>. QED BY <1>1, <1>2, <1>3, <1>4 DEF Next

-----------------------------------------------------------------------------
(* What is retained *)

\* No step leaves more results retained than there is room for.
LEMMA KeptBoundedNext == Types /\ InFlightExact /\ KeptBounded /\ [Next]_vars => KeptBounded'
  <1>. SUFFICES ASSUME Types, InFlightExact, KeptBounded, [Next]_vars
                PROVE  KeptBounded'
    OBVIOUS
  <1>1. ASSUME NEW l \in Lookups, Publish(l)
        PROVE  KeptBounded'
    <2>1. PICK r \in Requests : r = local[l].req
      BY <1>1, PublishDoes
    <2>2. PICK forgotten \in Kept \cup {None} :
             /\ forgotten = None => r \in Kept \/ Cardinality(Kept) < Capacity
             /\ forgotten # None => r \notin Kept
             /\ retained' = [k \in Requests |-> IF k = r THEN EntryOf(l)
                                               ELSE IF k = forgotten THEN None ELSE retained[k]]
      BY <1>1, <2>1, PublishDoes
    <2>3. EntryOf(l) # None /\ None \notin Kept
      BY <1>1, PublishDoes, NoneAssumption DEF Kept
    <2>4. Kept' = (Kept \ {forgotten}) \cup {r}
      BY <2>2, <2>3 DEF Kept
    <2>. DEFINE rest == Kept \ {forgotten}
    <2>5. IsFiniteSet(Kept) /\ Cardinality(Kept) \in Nat /\ Cardinality(Kept) <= Capacity
      BY FS_CardinalityType DEF KeptBounded
    <2>6. /\ IsFiniteSet(rest)
          /\ Cardinality(rest) = IF forgotten \in Kept THEN Cardinality(Kept) - 1
                                 ELSE Cardinality(Kept)
      BY <2>5, FS_RemoveElement
    <2>7. /\ IsFiniteSet(rest \cup {r})
          /\ Cardinality(rest \cup {r}) = IF r \in rest THEN Cardinality(rest)
                                          ELSE Cardinality(rest) + 1
      BY <2>6, FS_AddElement
    <2>8. CASE forgotten = None
      <3>1. rest = Kept
        BY <2>3, <2>8
      <3>. QED BY <2>2, <2>4, <2>5, <2>7, <2>8, <3>1, CapacityAssumption DEF KeptBounded
    <2>9. CASE forgotten # None
      BY <2>2, <2>4, <2>5, <2>6, <2>7, <2>9, CapacityAssumption DEF KeptBounded
    <2>. QED BY <2>8, <2>9
  <1>2. ASSUME NEW next \in Configs, Reload(next)
        PROVE  KeptBounded'
    <2>1. Kept' = {} \/ Kept' = Kept
      BY <1>2 DEF Reload, Kept
    <2>2. IsFiniteSet({}) /\ Cardinality({}) = 0
      BY FS_EmptySet
    <2>. QED BY <2>1, <2>2, CapacityAssumption DEF KeptBounded
  <1>3. CASE UNCHANGED retained
    BY <1>3 DEF KeptBounded, Kept
  <1>4. \A l \in Lookups : Decide(l) => Publish(l) \/ UNCHANGED retained
    BY DecideFinishes
  <1>. QED BY <1>1, <1>2, <1>3, <1>4 DEF Next, Request, Register, Tick, vars

\* Every step keeps what is retained the newest, of the upstream of now.
LEMMA RetainedIsNewestNext ==
    Types /\ InFlightExact /\ RetainedIsNewest /\ [Next]_vars => RetainedIsNewest'
  <1>. SUFFICES ASSUME Types, InFlightExact, RetainedIsNewest, [Next]_vars
                PROVE  RetainedIsNewest'
    OBVIOUS
  <1>1. ASSUME NEW l \in Lookups, Publish(l)
        PROVE  RetainedIsNewest'
    <2>1. PICK r \in Requests : r = local[l].req
      BY <1>1, PublishDoes
    <2>2. PICK forgotten \in Kept \cup {None} :
             retained' = [k \in Requests |-> IF k = r THEN EntryOf(l)
                                            ELSE IF k = forgotten THEN None ELSE retained[k]]
      BY <1>1, <2>1, PublishDoes
    <2>3. newest' = [newest EXCEPT ![r] = local[l].attempt] /\ UNCHANGED <<cfg, generation>>
      BY <1>1, <2>1 DEF Publish, Finish
    <2>4. /\ EntryOf(l).attempt = local[l].attempt
          /\ EntryOf(l).url = cfg.url /\ EntryOf(l).epoch = generation
      BY <1>1 DEF Publish, Outdated, EntryOf
    <2>. HIDE DEF EntryOf
    <2>. QED BY <2>2, <2>3, <2>4 DEF RetainedIsNewest, Types, TypeOK
  <1>2. ASSUME NEW next \in Configs, Reload(next)
        PROVE  RetainedIsNewest'
    BY <1>2 DEF Reload, RetainedIsNewest
  <1>3. CASE UNCHANGED <<retained, newest, cfg, generation>>
    BY <1>3 DEF RetainedIsNewest
  <1>4. \A l \in Lookups : Decide(l) => Publish(l) \/ UNCHANGED <<retained, newest, cfg, generation>>
    BY DecideFinishes DEF Finish
  <1>. QED BY <1>1, <1>2, <1>3, <1>4 DEF Next, Request, Register, Tick, vars

-----------------------------------------------------------------------------
(* The order of lookups *)

\* A lookup that publishes was started after every one published before.
LEMMA PublishedLater ==
    ASSUME Types, InFlightExact, AttemptsInOrder, OrderRemembered,
           NEW l \in Lookups, Publish(l)
    PROVE  newest[local[l].req] < local[l].attempt
  <1>1. /\ local[l].req \in Requests /\ local[l].attempt \in Nat
        /\ inFlight[local[l].req].latestSuccess \in Nat
        /\ newest[local[l].req] \in Nat
    BY Counted DEF Publish, Locals, Lookup, Types, TypeOK
  <1>2. pc[l] = "fetching" /\ ~(inFlight[local[l].req].latestSuccess > local[l].attempt)
    BY DEF Publish, Overtaken
  <1>3. local[l].attempt # newest[local[l].req]
    BY <1>2 DEF AttemptsInOrder
  <1>4. ~(local[l].attempt < newest[local[l].req])
    BY <1>1, <1>2 DEF OrderRemembered
  <1>. QED BY <1>1, <1>3, <1>4

\* Every step keeps the numbers in order.
LEMMA AttemptsInOrderNext ==
    Types /\ InFlightExact /\ AttemptsInOrder /\ OrderRemembered /\ [Next]_vars
        => AttemptsInOrder'
  <1>. SUFFICES ASSUME Types, InFlightExact, AttemptsInOrder, OrderRemembered, [Next]_vars
                PROVE  AttemptsInOrder'
    OBVIOUS
  <1>1. ASSUME NEW l \in Lookups, NEW r \in Requests, Request(l, r)
        PROVE  AttemptsInOrder'
    <2>1. \A m \in Lookups : pc'[m] = "fetching" => pc[m] = "fetching" /\ local'[m] = local[m]
      BY <1>1 DEF Request, Types, TypeOK
    <2>2. UNCHANGED <<newest, attempt, floor>>
      BY <1>1 DEF Request
    <2>. QED BY <2>1, <2>2 DEF AttemptsInOrder
  <1>2. ASSUME NEW l \in Lookups, Register(l)
        PROVE  AttemptsInOrder'
    <2>1. /\ local'[l].attempt = attempt + 1 /\ local'[l].req = local[l].req
          /\ local[l].req \in Requests
          /\ \A m \in Lookups \ {l} : local'[m] = local[m]
      BY <1>2, RegisterDoes
    <2>2. /\ attempt' = attempt + 1 /\ attempt \in Nat /\ newest' = newest
          /\ pc' = [pc EXCEPT ![l] = "fetching"]
          /\ floor' = [floor EXCEPT ![l] = newest[local[l].req]]
          /\ newest \in [Requests -> Nat]
      BY <1>2 DEF Register, Types, TypeOK
    <2>3. \A m \in Lookups \ {l} : pc'[m] = "fetching" =>
             pc[m] = "fetching" /\ local'[m] = local[m] /\ floor'[m] = floor[m]
             /\ local[m].attempt \in Nat
      BY <2>1, <2>2 DEF Types, TypeOK, LocalsOK, Locals
    <2>4. floor'[l] = newest[local[l].req]
      BY <2>2 DEF Types, TypeOK
    <2>5. newest[local[l].req] \in Nat /\ newest[local[l].req] <= attempt
      BY <2>1, <2>2 DEF AttemptsInOrder
    <2>6. \A k \in Requests : newest'[k] <= attempt'
      BY <2>2 DEF AttemptsInOrder
    <2>7. ASSUME NEW m \in Lookups, pc'[m] = "fetching"
          PROVE  /\ local'[m].attempt <= attempt'
                 /\ local'[m].attempt # newest'[local'[m].req]
                 /\ floor'[m] <= newest'[local'[m].req]
                 /\ floor'[m] < local'[m].attempt
      <3>1. CASE m = l
        BY <2>1, <2>2, <2>4, <2>5, <3>1
      <3>2. CASE m # l
        BY <2>2, <2>3, <2>7, <3>2 DEF AttemptsInOrder
      <3>. QED BY <3>1, <3>2
    <2>8. ASSUME NEW m \in Lookups, NEW n \in Lookups, pc'[m] = "fetching", pc'[n] = "fetching",
                 local'[m].attempt = local'[n].attempt
          PROVE  m = n
      BY <2>1, <2>2, <2>3, <2>8 DEF AttemptsInOrder
    <2>. QED BY <2>6, <2>7, <2>8 DEF AttemptsInOrder
  <1>3. ASSUME NEW l \in Lookups, Decide(l)
        PROVE  AttemptsInOrder'
    <2>1. PICK success \in Nat, result \in Entry \cup {None} : Finish(l, success, result)
      BY <1>3, DecideFinishes
    <2>2. /\ UNCHANGED <<attempt, floor>>
          /\ \A m \in Lookups : pc'[m] = "fetching" =>
                pc[m] = "fetching" /\ local'[m] = local[m] /\ m # l
      BY <2>1 DEF Finish, Types, TypeOK
    <2>3. CASE ~Publish(l)
      <3>1. UNCHANGED newest
        BY <1>3, <2>3, DecideFinishes
      <3>. QED BY <2>2, <3>1 DEF AttemptsInOrder
    <2>4. CASE Publish(l)
      <3>1. PICK r \in Requests : r = local[l].req
        BY <2>4, PublishDoes
      <3>2. newest[r] < local[l].attempt /\ pc[l] = "fetching" /\ local[l].attempt \in Nat
        BY <2>4, <3>1, PublishedLater DEF Publish, Types, LocalsOK, Locals
      <3>3. /\ newest' = [newest EXCEPT ![r] = local[l].attempt]
            /\ newest \in [Requests -> Nat] /\ floor \in [Lookups -> Nat]
        BY <2>4, <3>1, PublishDoes DEF Types, TypeOK
      <3>4. local[l].attempt <= attempt
        BY <3>2 DEF AttemptsInOrder
      <3>5. \A k \in Requests : newest'[k] <= attempt'
        BY <2>2, <3>3, <3>4 DEF AttemptsInOrder
      <3>6. ASSUME NEW m \in Lookups, pc'[m] = "fetching"
            PROVE  /\ local'[m].attempt <= attempt'
                   /\ local'[m].attempt # newest'[local'[m].req]
                   /\ floor'[m] <= newest'[local'[m].req]
                   /\ floor'[m] < local'[m].attempt
        <4>1. /\ pc[m] = "fetching" /\ local'[m] = local[m] /\ m # l
              /\ local[m].req \in Requests /\ floor[m] \in Nat
          BY <2>2, <3>6 DEF Types, TypeOK, LocalsOK, Locals
        <4>2. /\ local[m].attempt <= attempt /\ local[m].attempt # newest[local[m].req]
              /\ floor[m] <= newest[local[m].req] /\ floor[m] < local[m].attempt
              /\ local[m].attempt # local[l].attempt
          BY <3>2, <4>1 DEF AttemptsInOrder
        <4>3. CASE local[m].req = r
          BY <2>2, <3>2, <3>3, <4>1, <4>2, <4>3
        <4>4. CASE local[m].req # r
          BY <2>2, <3>3, <4>1, <4>2, <4>4
        <4>. QED BY <4>3, <4>4
      <3>. QED BY <2>2, <3>5, <3>6 DEF AttemptsInOrder
    <2>. QED BY <2>3, <2>4
  <1>4. CASE (\E next \in Configs : Reload(next)) \/ Tick \/ UNCHANGED vars
    <2>1. UNCHANGED <<newest, attempt, floor, pc, local>>
      BY <1>4 DEF Reload, Tick, vars
    <2>. QED BY <2>1 DEF AttemptsInOrder
  <1>. QED BY <1>1, <1>2, <1>3, <1>4 DEF Next

\* Every step keeps in mind what overtook a lookup that is under way.
LEMMA OrderRememberedNext ==
    Types /\ InFlightExact /\ AttemptsInOrder /\ OrderRemembered /\ [Next]_vars
        => OrderRemembered'
  <1>. SUFFICES ASSUME Types, InFlightExact, AttemptsInOrder, OrderRemembered, [Next]_vars,
                       NEW m \in Lookups, pc'[m] = "fetching",
                       local'[m].attempt < newest'[local'[m].req]
                PROVE  inFlight'[local'[m].req].latestSuccess >= newest'[local'[m].req]
    BY DEF OrderRemembered
  <1>1. ASSUME NEW l \in Lookups, NEW r \in Requests, Request(l, r)
        PROVE  inFlight'[local'[m].req].latestSuccess >= newest'[local'[m].req]
    <2>1. pc[m] = "fetching" /\ local'[m] = local[m] /\ UNCHANGED <<newest, inFlight>>
      BY <1>1 DEF Request, Types, TypeOK
    <2>. QED BY <2>1 DEF OrderRemembered
  <1>2. ASSUME NEW l \in Lookups, Register(l)
        PROVE  inFlight'[local'[m].req].latestSuccess >= newest'[local'[m].req]
    <2>1. PICK r \in Requests : r = local[l].req
      BY <1>2, RegisterDoes
    <2>2. /\ local'[l].attempt = attempt + 1 /\ local'[l].req = r
          /\ \A n \in Lookups \ {l} : local'[n] = local[n]
      BY <1>2, <2>1, RegisterDoes
    <2>3. newest' = newest /\ pc' = [pc EXCEPT ![l] = "fetching"]
      BY <1>2 DEF Register
    <2>4. m # l
      <3>1. newest[r] <= attempt /\ newest[r] \in Nat /\ attempt \in Nat
        BY DEF AttemptsInOrder, Types, TypeOK
      <3>. QED BY <2>2, <2>3, <3>1
    <2>5. pc[m] = "fetching" /\ local'[m] = local[m] /\ local[m].req \in Requests
      BY <2>2, <2>3, <2>4 DEF Types, TypeOK, LocalsOK, Locals
    <2>6. inFlight[local[m].req].latestSuccess >= newest[local[m].req]
      BY <2>3, <2>5 DEF OrderRemembered
    <2>7. CASE local[m].req # r
      <3>1. inFlight'[local[m].req] = inFlight[local[m].req]
        BY <1>2, <2>1, <2>5, <2>7, RegisterCounts
      <3>. QED BY <2>3, <2>5, <2>6, <3>1
    <2>8. CASE local[m].req = r
      <3>1. inFlight[r] # None
        BY <2>5, <2>8 DEF InFlightExact, Fetching
      <3>2. inFlight'[r].latestSuccess = inFlight[r].latestSuccess
        BY <1>2, <2>1, <3>1, RegisterCounts
      <3>. QED BY <2>3, <2>5, <2>6, <2>8, <3>2
    <2>. QED BY <2>7, <2>8
  <1>3. ASSUME NEW l \in Lookups, Decide(l)
        PROVE  inFlight'[local'[m].req].latestSuccess >= newest'[local'[m].req]
    <2>1. PICK success \in Nat, result \in Entry \cup {None} :
             /\ Finish(l, success, result)
             /\ ~Publish(l) => /\ success = inFlight[local[l].req].latestSuccess
                               /\ UNCHANGED <<retained, newest>>
             /\ Publish(l) => success = local[l].attempt
      BY <1>3, DecideFinishes
    <2>2. PICK r \in Requests : r = local[l].req
      BY <2>1, Counted DEF Finish
    <2>3. pc[m] = "fetching" /\ local'[m] = local[m] /\ m # l /\ local[m].req \in Requests
      <3>1. m # l /\ pc[m] = "fetching"
        BY <2>1 DEF Finish, Types, TypeOK
      <3>2. local'[m] = local[m]
        BY <2>1, <3>1 DEF Finish, Types, TypeOK
      <3>. QED BY <3>1, <3>2 DEF Types, LocalsOK, Locals
    <2>4. CASE local[m].req # r
      <3>1. inFlight'[local[m].req] = inFlight[local[m].req]
        <4>1. result \in Entry \cup {None} /\ success \in Nat /\ Finish(l, success, result)
          BY <2>1
        <4>2. \A k \in Requests \ {r} : inFlight'[k] = inFlight[k]
          BY <2>2, <4>1, FinishCounts
        <4>. QED BY <2>3, <2>4, <4>2
      <3>2. newest'[local[m].req] = newest[local[m].req]
        BY <2>1, <2>2, <2>3, <2>4 DEF Publish, Types, TypeOK
      <3>. QED BY <2>3, <3>1, <3>2 DEF OrderRemembered
    <2>5. CASE local[m].req = r
      <3>1. m \in Fetching(r)'
        BY <2>3, <2>5 DEF Fetching
      <3>2. inFlight'[r].latestSuccess = success
        <4>1. inFlight'[r] = [pending |-> Cardinality(Fetching(r)'), latestSuccess |-> success]
          BY <2>1, <2>2, <3>1, FinishCounts
        <4>. QED BY <4>1
      <3>3. CASE Publish(l)
        <4>1. newest'[r] = local[l].attempt /\ local[l].attempt \in Nat
          BY <2>2, <3>3 DEF Publish, Types, TypeOK, LocalsOK, Locals
        <4>. QED BY <2>1, <2>3, <2>5, <3>2, <3>3, <4>1
      <3>4. CASE ~Publish(l)
        BY <2>1, <2>2, <2>3, <2>5, <3>2, <3>4 DEF OrderRemembered
      <3>. QED BY <3>3, <3>4
    <2>. QED BY <2>4, <2>5
  <1>4. CASE (\E next \in Configs : Reload(next)) \/ Tick \/ UNCHANGED vars
    <2>1. UNCHANGED <<newest, inFlight, pc, local>>
      BY <1>4 DEF Reload, Tick, vars
    <2>. QED BY <2>1 DEF OrderRemembered
  <1>. QED BY <1>1, <1>2, <1>3, <1>4 DEF Next

\* No lookup is answered with less than was published when it began.
LEMMA MonotonicAnswersNext ==
    Types /\ InFlightExact /\ RetainedIsNewest /\ AttemptsInOrder /\ MonotonicAnswers
          /\ [Next]_vars => MonotonicAnswers'
  <1>. SUFFICES ASSUME Types, InFlightExact, RetainedIsNewest, AttemptsInOrder,
                       MonotonicAnswers, [Next]_vars,
                       NEW m \in Lookups, answer'[m] # None
                PROVE  answer'[m].attempt >= floor'[m]
    BY DEF MonotonicAnswers
  <1>1. ASSUME NEW l \in Lookups, NEW r \in Requests, Request(l, r)
        PROVE  answer'[m].attempt >= floor'[m]
    BY <1>1 DEF Request, MonotonicAnswers, Types, TypeOK
  <1>2. ASSUME NEW l \in Lookups, Register(l)
        PROVE  answer'[m].attempt >= floor'[m]
    <2>1. m # l
      BY <1>2 DEF Register, Types, LocalsOK
    <2>. QED BY <1>2, <2>1 DEF Register, MonotonicAnswers, Types, TypeOK
  <1>3. ASSUME NEW l \in Lookups, Decide(l)
        PROVE  answer'[m].attempt >= floor'[m]
    <2>1. PICK success \in Nat, result \in Entry \cup {None} :
             /\ Finish(l, success, result)
             /\ ~Publish(l) /\ result # None => result = retained[local[l].req]
             /\ Publish(l) => result = EntryOf(l)
      BY <1>3, DecideFinishes
    <2>2. answer' = [answer EXCEPT ![l] = result] /\ floor' = floor
      BY <2>1 DEF Finish
    <2>3. CASE m # l
      BY <2>2, <2>3 DEF MonotonicAnswers, Types, TypeOK
    <2>4. CASE m = l
      <3>1. answer'[l] = result /\ result # None
        BY <2>2, <2>4 DEF Types, TypeOK
      <3>2. /\ pc[l] = "fetching" /\ local[l].req \in Requests /\ local[l].attempt \in Nat
            /\ newest[local[l].req] \in Nat /\ floor[l] \in Nat
        BY <2>1 DEF Finish, Types, TypeOK, LocalsOK, Locals
      <3>3. floor[l] <= newest[local[l].req] /\ floor[l] < local[l].attempt
        BY <3>2 DEF AttemptsInOrder
      <3>4. CASE Publish(l)
        BY <2>1, <2>2, <2>4, <3>1, <3>2, <3>3, <3>4 DEF EntryOf
      <3>5. CASE ~Publish(l)
        BY <2>1, <2>2, <2>4, <3>1, <3>2, <3>3, <3>5 DEF RetainedIsNewest
      <3>. QED BY <3>4, <3>5
    <2>. QED BY <2>3, <2>4
  <1>4. CASE (\E next \in Configs : Reload(next)) \/ Tick \/ UNCHANGED vars
    <2>1. UNCHANGED <<answer, floor>>
      BY <1>4 DEF Reload, Tick, vars
    <2>. QED BY <2>1 DEF MonotonicAnswers
  <1>. QED BY <1>1, <1>2, <1>3, <1>4 DEF Next

-----------------------------------------------------------------------------
(* The invariant *)

\* The service starts with nothing retained and nobody busy.
THEOREM IInvInit == Init => IInv
  <1>. SUFFICES ASSUME Init PROVE IInv
    OBVIOUS
  <1>1. Types
    BY TypesInit
  <1>2. \A r \in Requests : Fetching(r) = {} /\ inFlight[r] = None
    BY DEF Init, Fetching
  <1>3. InFlightExact
    BY <1>2 DEF InFlightExact
  <1>4. Kept = {}
    BY DEF Init, Kept
  <1>5. KeptBounded
    BY <1>4, FS_EmptySet, CapacityAssumption DEF KeptBounded
  <1>6. RetainedIsNewest /\ AttemptsInOrder /\ OrderRemembered /\ MonotonicAnswers
    BY DEF Init, RetainedIsNewest, AttemptsInOrder, OrderRemembered, MonotonicAnswers
  <1>. QED BY <1>1, <1>3, <1>5, <1>6 DEF IInv

\* Every step keeps the inductive invariant.
THEOREM IInvNext == IInv /\ [Next]_vars => IInv'
  BY TypesNext, InFlightExactNext, KeptBoundedNext, RetainedIsNewestNext,
     AttemptsInOrderNext, OrderRememberedNext, MonotonicAnswersNext DEF IInv

\* So it holds of every reachable state.
THEOREM Invariance == Spec => []IInv
  BY IInvInit, IInvNext, PTL DEF Spec

\* The variables keep their types.
THEOREM TypeCorrect == Spec => []TypeOK
  <1>1. IInv => TypeOK
    BY DEF IInv, Types
  <1>. QED BY <1>1, Invariance, PTL

\* Whatever clients ask for, no more than Capacity results are retained.
THEOREM Bounded == Spec => []RetentionBounded
  <1>1. IInv => RetentionBounded
    BY DEF IInv, KeptBounded, RetentionBounded
  <1>. QED BY <1>1, Invariance, PTL

\* The order of lookups is kept exactly as long as a lookup needs it.
THEOREM OrderKept == Spec => []InFlightExact
  <1>1. IInv => InFlightExact
    BY DEF IInv
  <1>. QED BY <1>1, Invariance, PTL

\* No lookup answers with less than was known when it began.
THEOREM Monotonic == Spec => []MonotonicAnswers
  <1>1. IInv => MonotonicAnswers
    BY DEF IInv
  <1>. QED BY <1>1, Invariance, PTL

-----------------------------------------------------------------------------
(* Steps *)

\* A lookup answers only with a result that is young enough now and that comes
\* from the upstream configured now.
THEOREM Acceptance == Spec => AnswersAcceptable
  <1>. DEFINE Fits(l) == /\ now - answer'[l].generatedAt <= cfg.maxAge
                         /\ answer'[l].url = cfg.url
                         /\ answer'[l].epoch = generation
              Answers(l) == pc[l] = "fetching" /\ pc'[l] = "idle" /\ answer'[l] # None
  <1>1. IInv /\ [Next]_vars => [\A l \in Lookups : Answers(l) => Fits(l)]_vars
    <2>. SUFFICES ASSUME IInv, Next, NEW l \in Lookups, Answers(l)
                  PROVE  Fits(l)
      OBVIOUS
    <2>1. Decide(l)
      <3>1. \A m \in Lookups, r \in Requests : ~Request(m, r)
        BY DEF Request, IInv, Types, TypeOK
      <3>2. \A m \in Lookups : ~Register(m)
        BY DEF Register, IInv, Types, TypeOK
      <3>3. ~Tick /\ \A next \in Configs : ~Reload(next)
        BY DEF Tick, Reload
      <3>4. PICK m \in Lookups : Decide(m)
        BY <3>1, <3>2, <3>3 DEF Next
      <3>5. pc' = [pc EXCEPT ![m] = "idle"]
        BY <3>4 DEF Decide, Reject, FallBack, YieldToNewer, Publish, Finish
      <3>. QED BY <3>4, <3>5 DEF IInv, Types, TypeOK
    <2>2. local[l].req \in Requests
      BY DEF IInv, Types, LocalsOK, Locals
    <2>3. CASE Publish(l)
      <3>1. answer'[l] = EntryOf(l) /\ ~Outdated(l)
        BY <2>3 DEF Publish, Finish, EntryOf, IInv, Types, TypeOK
      <3>2. now - now <= cfg.maxAge
        <4>1. cfg \in Configs /\ now \in Nat
          BY DEF IInv, Types, TypeOK
        <4>2. cfg.maxAge \in Nat
          BY <4>1, AgesAssumption DEF Configs
        <4>. QED BY <4>1, <4>2
      <3>. QED BY <3>1, <3>2 DEF EntryOf, Outdated
    <2>4. CASE ~Publish(l)
      <3>1. answer'[l] = Retained(local[l].req)
        BY <2>1, <2>4 DEF Decide, Reject, FallBack, YieldToNewer, Finish, IInv, Types, TypeOK
      <3>. QED BY <2>2, <3>1 DEF Retained, Kept, Acceptable, IInv, RetainedIsNewest
    <2>. QED BY <2>3, <2>4
  <1>. QED BY <1>1, Invariance, PTL DEF Spec, AnswersAcceptable

\* What the lookups retain between them is what LatestResults promises.
THEOREM Refinement == Spec => LatestImplemented
  <1>1. Init => Latest!LatestInit
    BY DEF Init, Configs, Latest!LatestInit, Results
  <1>2. IInv /\ [Next]_vars => [Latest!LatestNext]_<<cfg.url, generation, newest, Results>>
    <2>. SUFFICES ASSUME IInv, [Next]_vars
                  PROVE  Latest!LatestNext \/ UNCHANGED <<cfg.url, generation, newest, Results>>
      OBVIOUS
    <2>1. ASSUME NEW l \in Lookups, Publish(l)
          PROVE  Latest!LatestNext
      <3>1. PICK r \in Requests : r = local[l].req
        BY <2>1, PublishDoes DEF IInv
      <3>2. PICK forgotten \in Kept \cup {None} :
               retained' = [k \in Requests |-> IF k = r THEN EntryOf(l)
                                              ELSE IF k = forgotten THEN None ELSE retained[k]]
        BY <2>1, <3>1, PublishDoes DEF IInv
      <3>3. /\ EntryOf(l) # None /\ newest' = [newest EXCEPT ![r] = local[l].attempt]
            /\ UNCHANGED <<cfg, generation>>
        BY <2>1, <3>1, PublishDoes, NoneAssumption DEF Finish, IInv
      <3>4. newest[r] < local[l].attempt /\ local[l].attempt \in Nat
        BY <2>1, <3>1, PublishedLater DEF Publish, IInv, Types, LocalsOK, Locals
      <3>5. /\ EntryOf(l).attempt = local[l].attempt
            /\ EntryOf(l).url = cfg.url /\ EntryOf(l).epoch = generation
        BY <2>1 DEF Publish, Outdated, EntryOf
      <3>6. newest' \in [Requests -> Nat] /\ newest'[r] = local[l].attempt
            /\ \A k \in Requests \ {r} : newest'[k] = newest[k]
        BY <3>3, <3>4 DEF IInv, Types, TypeOK
      <3>. HIDE DEF EntryOf
      <3>7. Results' = [k \in Requests |->
                         IF k = r THEN [url |-> cfg.url, epoch |-> generation, attempt |-> newest'[r]]
                         ELSE IF k = forgotten THEN None ELSE Results[k]]
        BY <3>2, <3>3, <3>5, <3>6 DEF Results
      <3>8. forgotten \in Requests \cup {None}
        BY DEF Kept
      <3>9. Latest!Keep(r, forgotten)
        BY <3>3, <3>4, <3>6, <3>7 DEF Latest!Keep
      <3>. QED BY <3>8, <3>9 DEF Latest!LatestNext
    <2>2. ASSUME NEW next \in Configs, Reload(next)
          PROVE  Latest!LatestNext \/ UNCHANGED <<cfg.url, generation, newest, Results>>
      <3>1. CASE next.url # cfg.url
        <4>1. Results' = [r \in Requests |-> None]
          BY <2>2, <3>1 DEF Reload, Results
        <4>2. next.url \in URLs
          BY DEF Configs
        <4>3. Latest!Switch(next.url)
          BY <2>2, <3>1, <4>1 DEF Reload, Latest!Switch
        <4>. QED BY <4>2, <4>3 DEF Latest!LatestNext
      <3>2. CASE next.url = cfg.url
        BY <2>2, <3>2 DEF Reload, Results
      <3>. QED BY <3>1, <3>2
    <2>3. CASE UNCHANGED <<cfg, generation, newest, retained>>
      BY <2>3 DEF Results
    <2>4. \A l \in Lookups :
             Decide(l) => Publish(l) \/ UNCHANGED <<cfg, generation, newest, retained>>
      BY DecideFinishes DEF Finish, IInv
    <2>. QED BY <2>1, <2>2, <2>3, <2>4 DEF Next, Request, Register, Tick, vars
  <1>. QED BY <1>1, <1>2, Invariance, PTL
           DEF Spec, LatestImplemented, Latest!LatestSpec, Latest!latestVars
=============================================================================

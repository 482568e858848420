------------------------ MODULE ChangelogCacheProofs ------------------------
(***************************************************************************)
(* Theorems about ChangelogCache for every set of responses, releases and  *)
(* advisories and every time to live.                                      *)
(***************************************************************************)
EXTENDS ChangelogCache, TLAPS

-----------------------------------------------------------------------------
(* The inductive invariant *)

\* A goroutine has its locals until it is done; it runs for a response that has
\* begun, and leaves the result of a call only then; one that waits has a call
\* to wait for.
LocalsOK ==
    \A g \in Goroutines :
        /\ pc[g] # "done" => local[g] \in Locals /\ g[1] \in begun
        /\ results[g] # None => g[1] \in begun /\ pc[g] = "done"
        /\ pc[g] = "wait" => local[g].call \in Goroutines
        /\ pc[g] \in {"token", "clock", "lookup"} => ~local[g].fetched

Types == TypeOK /\ LocalsOK

\* Goroutine g makes the pending call for its advisory.
Leads(g) == pc[g] \in {"fetch", "publish"}

\* What a goroutine remembers of the cache while it makes a call is still there:
\* nobody else writes the entry.
LeadsOK(g) ==
    LET k == local[g].key IN
    /\ local[g].stale = entries[k]
    /\ floor[g] = Known(k)
    /\ entries[k] # None => local[g].now >= entries[k].fetchedAt + TTL
    /\ pc[g] = "fetch" => ~local[g].fetched
    /\ pc[g] = "publish" /\ local[g].fetched => local[g].text > Known(k) /\ local[g].text <= fetches
    /\ pc[g] = "publish" /\ ~local[g].fetched => local[g].text = Known(k)

\* All of them do.
LeadersRemember == \A g \in Goroutines : Leads(g) => LeadsOK(g)

\* Goroutine h still makes the call that g waits for, or has left a result that
\* is good enough for g.
Serves(h, g) ==
    \/ Leads(h) /\ local[h].key = local[g].key /\ floor[g] <= Known(local[g].key)
    \/ pc[h] = "done" /\ results[h] # None /\ results[h] >= floor[g]

\* Nobody waits for a call that will never be closed.
WaitersServed == \A g \in Goroutines : pc[g] = "wait" => Serves(local[g].call, g)

\* Texts are numbered in the order in which they were fetched.
TextsInOrder == \A k \in Advisories : Known(k) <= fetches

\* The inductive invariant.
IInv == Types /\ PendingExact /\ LeadersRemember /\ WaitersServed /\ TextsInOrder
              /\ AtLeastWhatWasKnown

-----------------------------------------------------------------------------
(* Types *)

\* The number of the text that the cache holds.
LEMMA KnownNat == TypeOK => \A k \in Advisories : Known(k) \in Nat /\ (entries[k] # None => Known(k) # 0)
  BY NoneAssumption DEF TypeOK, Known, Entry, Texts

\* The locals of a goroutine that has not ended.
LEMMA LocalFields ==
    ASSUME Types, NEW g \in Goroutines, pc[g] # "done"
    PROVE  /\ local[g] \in Locals /\ local[g].key \in Advisories /\ local[g].now \in Nat
           /\ local[g].stale \in Entry \cup {None} /\ local[g].text \in Nat
           /\ local[g].fetched \in BOOLEAN
  BY DEF Types, LocalsOK, Locals

\* The goroutines that a response starts have all their locals.
LEMMA BeginTypes == ASSUME Types, NEW r \in Responses, Begin(r) PROVE Types'
  <1>. PICK keys \in [Positions -> Advisories \cup {None}] :
          /\ pc' = [g \in Goroutines |->
                      IF g[1] = r /\ keys[g[2]] # None THEN "token" ELSE pc[g]]
          /\ local' = [g \in Goroutines |->
                         IF g[1] = r /\ keys[g[2]] # None
                         THEN [key |-> keys[g[2]], now |-> 0, stale |-> None, call |-> None,
                               text |-> 0, fetched |-> FALSE]
                         ELSE local[g]]
    BY DEF Begin
  <1>1. \A g \in Goroutines : g[2] \in Positions
    BY DEF Goroutines
  <1>2. \A k \in Advisories : [key |-> k, now |-> 0, stale |-> None, call |-> None,
                               text |-> 0, fetched |-> FALSE] \in Locals
    BY DEF Locals
  <1>3. \A g \in Goroutines : g[1] = r /\ keys[g[2]] # None =>
            [key |-> keys[g[2]], now |-> 0, stale |-> None, call |-> None,
             text |-> 0, fetched |-> FALSE] \in Locals
    BY <1>1, <1>2
  <1>4. local' \in [Goroutines -> Locals \cup {None}]
    BY <1>3 DEF Types, TypeOK
  <1>5. TypeOK'
    BY <1>4 DEF Begin, Types, TypeOK
  <1>6. LocalsOK'
    BY <1>3 DEF Begin, Types, TypeOK, LocalsOK
  <1>. QED BY <1>5, <1>6 DEF Types

\* A goroutine that ends leaves a number.
LEMMA ReturnTypes ==
    ASSUME Types, NEW g \in Goroutines, NEW text \in Nat, Return(g, text)
    PROVE  /\ contents' \in [Goroutines -> Nat]
           /\ local' \in [Goroutines -> Locals \cup {None}]
           /\ pc' \in [Goroutines -> {"token", "clock", "lookup", "wait", "fetch", "publish", "done"}]
           /\ \A h \in Goroutines :
                 /\ h # g => contents'[h] = contents[h] /\ local'[h] = local[h] /\ pc'[h] = pc[h]
                 /\ h = g => contents'[h] = text /\ local'[h] = None /\ pc'[h] = "done"
  BY DEF Return, Goto, Types, TypeOK

\* Goroutine g is at label now, with locals next, and no other one has moved.
Moved(g, next, label) ==
    /\ local' \in [Goroutines -> Locals \cup {None}]
    /\ pc' \in [Goroutines -> {"token", "clock", "lookup", "wait", "fetch", "publish", "done"}]
    /\ local'[g] = next /\ next \in Locals /\ pc'[g] = label
    /\ \A h \in Goroutines \ {g} : local'[h] = local[h] /\ pc'[h] = pc[h]

\* A goroutine that goes on with other locals moves alone.
LEMMA GoesOnTypes ==
    ASSUME Types, NEW g \in Goroutines, NEW next \in Locals,
           local' = [local EXCEPT ![g] = next],
           NEW label \in {"token", "clock", "lookup", "wait", "fetch", "publish"}, Goto(g, label)
    PROVE  Moved(g, next, label)
  BY DEF Goto, Types, TypeOK, Moved

\* What each step of a goroutine writes into its locals.
LEMMA WritesLocals ==
    ASSUME Types, NEW g \in Goroutines
    PROVE  /\ ReadClock(g) => \E next \in Locals :
                 /\ local' = [local EXCEPT ![g] = next]
                 /\ next.key = local[g].key /\ next.fetched = local[g].fetched
           /\ Join(g) => \E next \in Locals :
                 /\ local' = [local EXCEPT ![g] = next]
                 /\ next.key = local[g].key
                 /\ next.call = pending[local[g].key]
           /\ Lead(g) => \E next \in Locals :
                 /\ local' = [local EXCEPT ![g] = next]
                 /\ next.key = local[g].key /\ next.now = local[g].now
                 /\ next.stale = entries[local[g].key]
                 /\ next.fetched = local[g].fetched
           /\ FetchSucceeds(g) => \E next \in Locals :
                 /\ local' = [local EXCEPT ![g] = next]
                 /\ next.key = local[g].key /\ next.now = local[g].now
                 /\ next.stale = local[g].stale
                 /\ next.text = fetches + 1 /\ next.fetched = TRUE
           /\ FetchFails(g) => \E next \in Locals :
                 /\ local' = [local EXCEPT ![g] = next]
                 /\ next.key = local[g].key /\ next.now = local[g].now
                 /\ next.stale = local[g].stale /\ next.fetched = local[g].fetched
                 /\ next.text = IF local[g].stale = None THEN 0 ELSE local[g].stale.text
  <1>1. ASSUME ReadClock(g)
        PROVE  \E next \in Locals : /\ local' = [local EXCEPT ![g] = next]
                                    /\ next.key = local[g].key /\ next.fetched = local[g].fetched
    <2>. DEFINE next == [local[g] EXCEPT !.now = clock]
    <2>1. local[g] \in Locals /\ clock \in Nat
      BY <1>1 DEF ReadClock, Types, TypeOK, LocalsOK
    <2>2. next \in Locals /\ next.key = local[g].key /\ next.fetched = local[g].fetched
      BY <2>1 DEF Locals
    <2>3. local' = [local EXCEPT ![g] = next]
      BY <1>1 DEF ReadClock
    <2>. QED BY <2>2, <2>3
  <1>2. ASSUME Join(g)
        PROVE  \E next \in Locals : /\ local' = [local EXCEPT ![g] = next]
                                    /\ next.key = local[g].key
                                    /\ next.call = pending[local[g].key]
    <2>. DEFINE next == [local[g] EXCEPT !.call = pending[local[g].key]]
    <2>1. local[g] \in Locals /\ pending[local[g].key] \in Goroutines
      BY <1>2, LocalFields DEF Join, Ask, Types, TypeOK
    <2>2. next \in Locals /\ next.key = local[g].key /\ next.call = pending[local[g].key]
      BY <2>1 DEF Locals
    <2>3. local' = [local EXCEPT ![g] = next]
      BY <1>2 DEF Join
    <2>. QED BY <2>2, <2>3
  <1>3. ASSUME Lead(g)
        PROVE  \E next \in Locals : /\ local' = [local EXCEPT ![g] = next]
                                    /\ next.key = local[g].key /\ next.now = local[g].now
                                    /\ next.stale = entries[local[g].key]
                                    /\ next.fetched = local[g].fetched
    <2>. DEFINE next == [local[g] EXCEPT !.stale = entries[local[g].key]]
    <2>1. local[g] \in Locals /\ entries[local[g].key] \in Entry \cup {None}
      BY <1>3, LocalFields DEF Lead, Ask, Types, TypeOK
    <2>2. /\ next \in Locals /\ next.key = local[g].key /\ next.now = local[g].now
          /\ next.stale = entries[local[g].key] /\ next.fetched = local[g].fetched
      BY <2>1 DEF Locals
    <2>3. local' = [local EXCEPT ![g] = next]
      BY <1>3 DEF Lead
    <2>. QED BY <2>2, <2>3
  <1>4. ASSUME FetchSucceeds(g)
        PROVE  \E next \in Locals : /\ local' = [local EXCEPT ![g] = next]
                                    /\ next.key = local[g].key /\ next.now = local[g].now
                                    /\ next.stale = local[g].stale
                                    /\ next.text = fetches + 1 /\ next.fetched = TRUE
    <2>. DEFINE next == [local[g] EXCEPT !.text = fetches + 1, !.fetched = TRUE]
    <2>1. local[g] \in Locals /\ fetches + 1 \in Nat
      BY <1>4, LocalFields DEF FetchSucceeds, Types, TypeOK
    <2>2. /\ next \in Locals /\ next.key = local[g].key /\ next.now = local[g].now
          /\ next.stale = local[g].stale /\ next.text = fetches + 1 /\ next.fetched = TRUE
      BY <2>1 DEF Locals
    <2>3. local' = [local EXCEPT ![g] = next]
      BY <1>4 DEF FetchSucceeds
    <2>. QED BY <2>2, <2>3
  <1>5. ASSUME FetchFails(g)
        PROVE  \E next \in Locals :
                 /\ local' = [local EXCEPT ![g] = next]
                 /\ next.key = local[g].key /\ next.now = local[g].now
                 /\ next.stale = local[g].stale /\ next.fetched = local[g].fetched
                 /\ next.text = IF local[g].stale = None THEN 0 ELSE local[g].stale.text
    <2>. DEFINE text == IF local[g].stale = None THEN 0 ELSE local[g].stale.text
                next == [local[g] EXCEPT !.text = text]
    <2>1. local[g] \in Locals /\ text \in Nat
      BY <1>5, LocalFields DEF FetchFails, Entry, Texts
    <2>2. /\ next \in Locals /\ next.key = local[g].key /\ next.now = local[g].now
          /\ next.stale = local[g].stale /\ next.fetched = local[g].fetched /\ next.text = text
      BY <2>1 DEF Locals
    <2>3. local' = [local EXCEPT ![g] = next]
      BY <1>5 DEF FetchFails
    <2>. QED BY <2>2, <2>3
  <1>. QED BY <1>1, <1>2, <1>3, <1>4, <1>5

\* A text that was fetched has a number of its own.
LEMMA FetchedText ==
    ASSUME Types, LeadersRemember, NEW g \in Goroutines, pc[g] = "publish", local[g].fetched
    PROVE  [text |-> local[g].text, fetchedAt |-> local[g].now] \in Entry
  <1>1. local[g].text \in Nat /\ local[g].now \in Nat /\ Known(local[g].key) \in Nat
    BY LocalFields, KnownNat DEF Types
  <1>2. local[g].text > Known(local[g].key)
    BY DEF LeadersRemember, Leads, LeadsOK
  <1>. QED BY <1>1, <1>2 DEF Entry, Texts

\* Every step of a goroutine keeps the types.
LEMMA StepTypes == ASSUME Types, LeadersRemember, NEW g \in Goroutines, Step(g) PROVE Types'
  <1>1. CASE Acquire(g)
    BY <1>1 DEF Acquire, Goto, Types, TypeOK, LocalsOK
  <1>2. CASE GiveUp(g)
    <2>1. Return(g, 0) /\ 0 \in Nat
      BY <1>2 DEF GiveUp
    <2>. QED BY <1>2, <2>1, ReturnTypes DEF GiveUp, Types, TypeOK, LocalsOK
  <1>3. CASE ReadClock(g)
    <2>1. PICK next \in Locals : /\ local' = [local EXCEPT ![g] = next]
                                 /\ next.fetched = local[g].fetched
      BY <1>3, WritesLocals
    <2>2. Goto(g, "lookup") /\ pc[g] # "done"
      BY <1>3 DEF ReadClock
    <2>3. Moved(g, next, "lookup")
      BY <2>1, <2>2, GoesOnTypes
    <2>. QED BY <1>3, <2>1, <2>2, <2>3 DEF ReadClock, Moved, Types, TypeOK, LocalsOK
  <1>4. CASE Hit(g)
    <2>1. Known(local[g].key) \in Nat
      BY <1>4, LocalFields, KnownNat DEF Hit, Ask, Types, TypeOK, LocalsOK
    <2>. QED BY <1>4, <2>1, ReturnTypes DEF Hit, Ask, Types, TypeOK, LocalsOK
  <1>5. CASE Join(g)
    <2>1. PICK next \in Locals : local' = [local EXCEPT ![g] = next]
                                 /\ next.call = pending[local[g].key]
      BY <1>5, WritesLocals
    <2>2. Known(local[g].key) \in Nat /\ pending[local[g].key] \in Goroutines
      BY <1>5, LocalFields, KnownNat DEF Join, Ask, Types, TypeOK, LocalsOK
    <2>3. Goto(g, "wait") /\ pc[g] # "done"
      BY <1>5 DEF Join, Ask
    <2>4. Moved(g, next, "wait")
      BY <2>1, <2>3, GoesOnTypes
    <2>. QED BY <1>5, <2>1, <2>2, <2>3, <2>4 DEF Join, Ask, Moved, Types, TypeOK, LocalsOK
  <1>6. CASE Lead(g)
    <2>1. PICK next \in Locals : local' = [local EXCEPT ![g] = next]
      BY <1>6, WritesLocals
    <2>2. Known(local[g].key) \in Nat /\ local[g].key \in Advisories
      BY <1>6, LocalFields, KnownNat DEF Lead, Ask, Types, TypeOK, LocalsOK
    <2>3. Goto(g, "fetch") /\ pc[g] # "done"
      BY <1>6 DEF Lead, Ask
    <2>4. Moved(g, next, "fetch")
      BY <2>1, <2>3, GoesOnTypes
    <2>. QED BY <1>6, <2>1, <2>2, <2>3, <2>4 DEF Lead, Ask, Moved, Types, TypeOK, LocalsOK
  <1>7. CASE StopWaiting(g)
    <2>1. Return(g, 0) /\ 0 \in Nat
      BY <1>7 DEF StopWaiting
    <2>. QED BY <1>7, <2>1, ReturnTypes DEF StopWaiting, Types, TypeOK, LocalsOK
  <1>8. CASE Waited(g)
    <2>1. results[local[g].call] \in Nat
      BY <1>8 DEF Waited, Types, TypeOK, LocalsOK
    <2>. QED BY <1>8, <2>1, ReturnTypes DEF Waited, Types, TypeOK, LocalsOK
  <1>9. CASE FetchSucceeds(g)
    <2>1. PICK next \in Locals : local' = [local EXCEPT ![g] = next]
      BY <1>9, WritesLocals
    <2>2. Goto(g, "publish") /\ pc[g] # "done"
      BY <1>9 DEF FetchSucceeds
    <2>3. Moved(g, next, "publish")
      BY <2>1, <2>2, GoesOnTypes
    <2>. QED BY <1>9, <2>1, <2>2, <2>3 DEF FetchSucceeds, Moved, Types, TypeOK, LocalsOK
  <1>10. CASE FetchFails(g)
    <2>1. PICK next \in Locals : local' = [local EXCEPT ![g] = next]
      BY <1>10, WritesLocals
    <2>2. Goto(g, "publish") /\ pc[g] # "done"
      BY <1>10 DEF FetchFails
    <2>3. Moved(g, next, "publish")
      BY <2>1, <2>2, GoesOnTypes
    <2>. QED BY <1>10, <2>1, <2>2, <2>3 DEF FetchFails, Moved, Types, TypeOK, LocalsOK
  <1>11. CASE Publish(g)
    <2>1. local[g].text \in Nat /\ local[g].key \in Advisories
      BY <1>11, LocalFields DEF Publish, Types, TypeOK, LocalsOK
    <2>2. entries' \in [Advisories -> Entry \cup {None}]
      BY <1>11, <2>1, FetchedText DEF Publish, Types, TypeOK, LocalsOK
    <2>. QED BY <1>11, <2>1, <2>2, ReturnTypes DEF Publish, Types, TypeOK, LocalsOK
  <1>. QED BY <1>1, <1>2, <1>3, <1>4, <1>5, <1>6, <1>7, <1>8, <1>9, <1>10, <1>11
           DEF Step, Proceed

\* Every step keeps the types.
LEMMA TypesNext == Types /\ LeadersRemember /\ [Next]_vars => Types'
  <1>. SUFFICES ASSUME Types, LeadersRemember, [Next]_vars PROVE Types'
    OBVIOUS
  <1>1. CASE \E r \in Responses : Begin(r)
    BY <1>1, BeginTypes
  <1>2. CASE \E g \in Goroutines : Step(g)
    BY <1>2, StepTypes
  <1>3. CASE (\E r \in Responses : ContextEnds(r)) \/ Tick \/ UNCHANGED vars
    BY <1>3 DEF ContextEnds, Tick, vars, Types, TypeOK, LocalsOK
  <1>. QED BY <1>1, <1>2, <1>3 DEF Next

-----------------------------------------------------------------------------
(* How goroutines move *)

\* A goroutine that returns moves alone, too, and leaves its text.
Returned(g, text) ==
    /\ pc'[g] = "done" /\ contents'[g] = text
    /\ \A h \in Goroutines \ {g} :
          local'[h] = local[h] /\ pc'[h] = pc[h] /\ contents'[h] = contents[h]

\* Return does that.
LEMMA Returns ==
    ASSUME Types, NEW g \in Goroutines, NEW text \in Nat, Return(g, text)
    PROVE  Returned(g, text)
  BY ReturnTypes DEF Returned

\* The goroutines of a response that begins were all done, and wait for tokens now.
LEMMA BeginMoves ==
    ASSUME Types, NEW r \in Responses, Begin(r), NEW g \in Goroutines
    PROVE  /\ pc[g] # "done" => pc'[g] = pc[g] /\ local'[g] = local[g]
           /\ results[g] # None => pc'[g] = pc[g]
           /\ pc'[g] # pc[g] => pc'[g] = "token"
  BY DEF Begin, Types, TypeOK, LocalsOK

\* The steps outside a call: the cache and its calls stay, and so do all the other
\* goroutines.
LEMMA OutsideMoves ==
    ASSUME Types, NEW g \in Goroutines,
           Acquire(g) \/ GiveUp(g) \/ ReadClock(g) \/ Hit(g) \/ Join(g) \/ StopWaiting(g) \/ Waited(g)
    PROVE  /\ ~Leads(g) /\ ~Leads(g)'
           /\ pc[g] # "done"
           /\ UNCHANGED <<entries, pending, results, fetches>>
           /\ \A h \in Goroutines \ {g} : local'[h] = local[h] /\ pc'[h] = pc[h] /\ floor'[h] = floor[h]
           /\ pc'[g] = "wait" => Join(g)
  <1>1. CASE Acquire(g)
    BY <1>1 DEF Acquire, Goto, Types, TypeOK, Leads
  <1>2. CASE GiveUp(g)
    <2>1. Returned(g, 0)
      BY <1>2, Returns DEF GiveUp
    <2>. QED BY <1>2, <2>1 DEF GiveUp, Returned, Types, TypeOK, Leads
  <1>3. CASE ReadClock(g)
    <2>1. PICK next \in Locals : local' = [local EXCEPT ![g] = next]
      BY <1>3, WritesLocals
    <2>2. Goto(g, "lookup") /\ pc[g] = "clock"
      BY <1>3 DEF ReadClock
    <2>3. Moved(g, next, "lookup")
      BY <2>1, <2>2, GoesOnTypes
    <2>. QED BY <1>3, <2>2, <2>3 DEF ReadClock, Moved, Leads
  <1>4. CASE Hit(g)
    <2>1. Known(local[g].key) \in Nat
      BY <1>4, LocalFields, KnownNat DEF Hit, Ask, Types
    <2>2. Returned(g, Known(local[g].key))
      BY <1>4, <2>1, Returns DEF Hit
    <2>. QED BY <1>4, <2>2 DEF Hit, Ask, Returned, Types, TypeOK, Leads
  <1>5. CASE Join(g)
    <2>1. PICK next \in Locals : local' = [local EXCEPT ![g] = next]
      BY <1>5, WritesLocals
    <2>2. Goto(g, "wait") /\ pc[g] = "lookup"
      BY <1>5 DEF Join, Ask
    <2>3. Moved(g, next, "wait")
      BY <2>1, <2>2, GoesOnTypes
    <2>. QED BY <1>5, <2>2, <2>3 DEF Join, Ask, Moved, Leads, Types, TypeOK
  <1>6. CASE StopWaiting(g)
    <2>1. Returned(g, 0)
      BY <1>6, Returns DEF StopWaiting
    <2>. QED BY <1>6, <2>1 DEF StopWaiting, Returned, Types, TypeOK, Leads
  <1>7. CASE Waited(g)
    <2>1. results[local[g].call] \in Nat
      BY <1>7 DEF Waited, Types, TypeOK, LocalsOK
    <2>2. Returned(g, results[local[g].call])
      BY <1>7, <2>1, Returns DEF Waited
    <2>. QED BY <1>7, <2>2 DEF Waited, Returned, Types, TypeOK, Leads
  <1>. QED BY <1>1, <1>2, <1>3, <1>4, <1>5, <1>6, <1>7

\* A call begins: its goroutine remembers what the cache holds.
LEMMA LeadMoves ==
    ASSUME Types, NEW g \in Goroutines, Lead(g)
    PROVE  \E next \in Locals :
             /\ Moved(g, next, "fetch")
             /\ next.key = local[g].key /\ next.now = local[g].now
             /\ next.stale = entries[local[g].key] /\ next.fetched = local[g].fetched
  <1>1. PICK next \in Locals : /\ local' = [local EXCEPT ![g] = next]
                               /\ next.key = local[g].key /\ next.now = local[g].now
                               /\ next.stale = entries[local[g].key]
                               /\ next.fetched = local[g].fetched
    BY WritesLocals
  <1>2. Goto(g, "fetch")
    BY DEF Lead
  <1>3. Moved(g, next, "fetch")
    BY <1>1, <1>2, GoesOnTypes
  <1>. QED BY <1>1, <1>3

\* A fetch ends: there is a new text, or the stale one.
LEMMA FetchMoves ==
    ASSUME Types, NEW g \in Goroutines, FetchSucceeds(g) \/ FetchFails(g)
    PROVE  \E next \in Locals :
             /\ Moved(g, next, "publish")
             /\ next.key = local[g].key /\ next.now = local[g].now
             /\ next.stale = local[g].stale
             /\ FetchSucceeds(g) => next.text = fetches + 1 /\ next.fetched = TRUE
             /\ ~FetchSucceeds(g) =>
                   /\ next.text = IF local[g].stale = None THEN 0 ELSE local[g].stale.text
                   /\ next.fetched = local[g].fetched
  <1>1. CASE FetchSucceeds(g)
    <2>1. PICK next \in Locals : /\ local' = [local EXCEPT ![g] = next]
                                 /\ next.key = local[g].key /\ next.now = local[g].now
                                 /\ next.stale = local[g].stale
                                 /\ next.text = fetches + 1 /\ next.fetched = TRUE
      BY <1>1, WritesLocals
    <2>2. Goto(g, "publish")
      BY <1>1 DEF FetchSucceeds
    <2>3. Moved(g, next, "publish")
      BY <2>1, <2>2, GoesOnTypes
    <2>. QED BY <1>1, <2>1, <2>3
  <1>2. CASE ~FetchSucceeds(g)
    <2>1. PICK next \in Locals :
             /\ local' = [local EXCEPT ![g] = next]
             /\ next.key = local[g].key /\ next.now = local[g].now
             /\ next.stale = local[g].stale /\ next.fetched = local[g].fetched
             /\ next.text = IF local[g].stale = None THEN 0 ELSE local[g].stale.text
      BY <1>2, WritesLocals
    <2>2. Goto(g, "publish")
      BY <1>2 DEF FetchFails
    <2>3. Moved(g, next, "publish")
      BY <2>1, <2>2, GoesOnTypes
    <2>. QED BY <1>2, <2>1, <2>3
  <1>. QED BY <1>1, <1>2

\* A call ends: its result stays behind.
LEMMA PublishMoves ==
    ASSUME Types, NEW g \in Goroutines, Publish(g)
    PROVE  Returned(g, local[g].text) /\ results'[g] = local[g].text
  BY LocalFields, Returns DEF Publish, Types, TypeOK

-----------------------------------------------------------------------------
(* Calls *)

\* Every step keeps the pending calls and the goroutines that make them together.
LEMMA PendingNext == Types /\ PendingExact /\ [Next]_vars => PendingExact'
  <1>. SUFFICES ASSUME Types, PendingExact, [Next]_vars PROVE PendingExact'
    OBVIOUS
  <1>1. ASSUME UNCHANGED pending,
               \A h \in Goroutines : /\ Leads(h)' <=> Leads(h)
                                     /\ Leads(h) => local'[h].key = local[h].key
        PROVE  PendingExact'
    BY <1>1 DEF PendingExact, Leads
  <1>2. ASSUME NEW r \in Responses, Begin(r) PROVE PendingExact'
    <2>1. \A h \in Goroutines : /\ Leads(h)' <=> Leads(h)
                                /\ Leads(h) => local'[h].key = local[h].key
      BY <1>2, BeginMoves DEF Leads
    <2>. QED BY <1>1, <1>2, <2>1 DEF Begin
  <1>3. ASSUME NEW g \in Goroutines,
               \/ Acquire(g) \/ GiveUp(g) \/ ReadClock(g) \/ Hit(g) \/ Join(g)
               \/ StopWaiting(g) \/ Waited(g)
        PROVE  PendingExact'
    <2>1. \A h \in Goroutines : /\ Leads(h)' <=> Leads(h)
                                /\ Leads(h) => local'[h].key = local[h].key
      BY <1>3, OutsideMoves DEF Leads
    <2>. QED BY <1>1, <1>3, <2>1, OutsideMoves
  <1>4. ASSUME NEW g \in Goroutines, Lead(g) PROVE PendingExact'
    <2>1. PICK next \in Locals : Moved(g, next, "fetch") /\ next.key = local[g].key
      BY <1>4, LeadMoves
    <2>2. /\ pending' = [pending EXCEPT ![local[g].key] = g]
          /\ pending[local[g].key] = None /\ local[g].key \in Advisories
          /\ pc[g] = "lookup"
      BY <1>4, LocalFields DEF Lead, Ask
    <2>3. \A h \in Goroutines : h # None
      BY NoneAssumption
    <2>. QED BY <2>1, <2>2, <2>3 DEF Moved, PendingExact, Types, TypeOK
  <1>5. ASSUME NEW g \in Goroutines, FetchSucceeds(g) \/ FetchFails(g) PROVE PendingExact'
    <2>1. PICK next \in Locals : Moved(g, next, "publish") /\ next.key = local[g].key
      BY <1>5, FetchMoves
    <2>2. pc[g] = "fetch" /\ UNCHANGED pending
      BY <1>5 DEF FetchSucceeds, FetchFails
    <2>. QED BY <1>1, <2>1, <2>2 DEF Moved, Leads
  <1>6. ASSUME NEW g \in Goroutines, Publish(g) PROVE PendingExact'
    <2>1. Returned(g, local[g].text)
      BY <1>6, PublishMoves
    <2>2. /\ pending' = [pending EXCEPT ![local[g].key] = None]
          /\ pc[g] = "publish" /\ local[g].key \in Advisories
      BY <1>6, LocalFields DEF Publish
    <2>3. \A h \in Goroutines : h # None
      BY NoneAssumption
    <2>. QED BY <2>1, <2>2, <2>3 DEF Returned, PendingExact, Types, TypeOK
  <1>7. CASE (\E r \in Responses : ContextEnds(r)) \/ Tick \/ UNCHANGED vars
    BY <1>7 DEF ContextEnds, Tick, vars, PendingExact
  <1>. QED BY <1>2, <1>3, <1>4, <1>5, <1>6, <1>7 DEF Next, Step, Proceed

\* Two goroutines that make calls make them for different advisories.
LEMMA LeadersDiffer ==
    ASSUME PendingExact, Types, NEW g \in Goroutines, NEW h \in Goroutines,
           Leads(g), Leads(h), g # h
    PROVE  local[g].key # local[h].key
  BY LocalFields DEF PendingExact, Leads

\* What a leader remembers does not depend on anything but its own entry.
LEMMA LeaderUndisturbed ==
    ASSUME NEW h \in Goroutines, LeadsOK(h), local'[h] = local[h], pc'[h] = pc[h],
           floor'[h] = floor[h], entries'[local[h].key] = entries[local[h].key],
           fetches \in Nat, fetches' \in {fetches, fetches + 1}, Types, Leads(h)
    PROVE  LeadsOK(h)'
  <1>1. local[h].text \in Nat
    BY LocalFields DEF Leads
  <1>. QED BY <1>1 DEF LeadsOK, Known

\* Every step keeps what leaders remember.
LEMMA LeadersNext == Types /\ PendingExact /\ LeadersRemember /\ TextsInOrder /\ [Next]_vars => LeadersRemember'
  <1>. SUFFICES ASSUME Types, PendingExact, LeadersRemember, TextsInOrder, [Next]_vars,
                       NEW h \in Goroutines, Leads(h)'
                PROVE  LeadsOK(h)'
    BY DEF LeadersRemember
  <1>0. Leads(h) => LeadsOK(h) /\ local[h].key \in Advisories
    BY LocalFields DEF LeadersRemember, Leads
  <1>. fetches \in Nat
    BY DEF Types, TypeOK
  <1>1. ASSUME NEW r \in Responses, Begin(r) PROVE LeadsOK(h)'
    <2>1. Leads(h) /\ pc'[h] = pc[h] /\ local'[h] = local[h]
      BY <1>1, BeginMoves DEF Leads
    <2>. QED BY <1>0, <1>1, <2>1, LeaderUndisturbed DEF Begin
  <1>2. ASSUME NEW g \in Goroutines,
               \/ Acquire(g) \/ GiveUp(g) \/ ReadClock(g) \/ Hit(g) \/ Join(g)
               \/ StopWaiting(g) \/ Waited(g)
        PROVE  LeadsOK(h)'
    <2>1. h # g
      BY <1>2, OutsideMoves
    <2>2. /\ Leads(h) /\ pc'[h] = pc[h] /\ local'[h] = local[h] /\ floor'[h] = floor[h]
          /\ UNCHANGED <<entries, fetches>>
      BY <1>2, <2>1, OutsideMoves DEF Leads
    <2>. QED BY <1>0, <2>2, LeaderUndisturbed
  <1>3. ASSUME NEW g \in Goroutines, Lead(g) PROVE LeadsOK(h)'
    <2>1. PICK next \in Locals :
             /\ Moved(g, next, "fetch")
             /\ next.key = local[g].key /\ next.now = local[g].now
             /\ next.stale = entries[local[g].key] /\ next.fetched = local[g].fetched
      BY <1>3, LeadMoves
    <2>2. /\ ~Fresh(g) /\ local[g].key \in Advisories /\ local[g].now \in Nat
          /\ floor' = [floor EXCEPT ![g] = Known(local[g].key)]
          /\ UNCHANGED <<entries, fetches>>
          /\ pc[g] = "lookup"
      BY <1>3, LocalFields DEF Lead, Ask
    <2>3. CASE h = g
      <3>1. /\ local'[g].key = local[g].key /\ local'[g].now = local[g].now
            /\ local'[g].stale = entries[local[g].key] /\ pc'[g] = "fetch"
            /\ floor'[g] = Known(local[g].key)
        BY <2>1, <2>2 DEF Moved, Types, TypeOK
      <3>2. entries[local[g].key] # None => local[g].now >= entries[local[g].key].fetchedAt + TTL
        BY <2>2, TimesAssumption DEF Fresh, Types, TypeOK, Entry
      <3>3. ~local[g].fetched
        BY <2>2 DEF Types, LocalsOK
      <3>. QED BY <2>1, <2>2, <2>3, <3>1, <3>2, <3>3 DEF LeadsOK, Known, Moved
    <2>4. CASE h # g
      <3>1. /\ Leads(h) /\ pc'[h] = pc[h] /\ local'[h] = local[h] /\ floor'[h] = floor[h]
        BY <2>1, <2>2, <2>4 DEF Moved, Leads, Types, TypeOK
      <3>. QED BY <1>0, <2>2, <3>1, LeaderUndisturbed
    <2>. QED BY <2>3, <2>4
  <1>4. ASSUME NEW g \in Goroutines, FetchSucceeds(g) \/ FetchFails(g) PROVE LeadsOK(h)'
    <2>1. PICK next \in Locals :
             /\ Moved(g, next, "publish")
             /\ next.key = local[g].key /\ next.now = local[g].now
             /\ next.stale = local[g].stale
             /\ FetchSucceeds(g) => next.text = fetches + 1 /\ next.fetched = TRUE
             /\ ~FetchSucceeds(g) =>
                   /\ next.text = IF local[g].stale = None THEN 0 ELSE local[g].stale.text
                   /\ next.fetched = local[g].fetched
      BY <1>4, FetchMoves
    <2>2. /\ pc[g] = "fetch"
          /\ UNCHANGED <<entries, floor>>
          /\ FetchSucceeds(g) => fetches' = fetches + 1
          /\ ~FetchSucceeds(g) => fetches' = fetches
      BY <1>4 DEF FetchSucceeds, FetchFails
    <2>3. CASE h = g
      <3>1. LeadsOK(g) /\ local[g].key \in Advisories
        BY <1>0, <2>2, <2>3 DEF Leads
      <3>2. Known(local[g].key) \in Nat /\ Known(local[g].key) <= fetches
        BY <3>1, KnownNat DEF Types, TextsInOrder
      <3>3. ~FetchSucceeds(g) => next.text = Known(local[g].key) /\ ~next.fetched
        BY <2>1, <2>2, <3>1 DEF LeadsOK, Known
      <3>4. FetchSucceeds(g) => next.text > Known(local[g].key) /\ next.text <= fetches'
        BY <2>1, <2>2, <3>2
      <3>5. Known(local[g].key)' = Known(local[g].key)
        BY <2>1, <2>2 DEF Known, Moved
      <3>. QED BY <2>1, <2>2, <2>3, <3>1, <3>3, <3>4, <3>5 DEF LeadsOK, Moved, Known
    <2>4. CASE h # g
      <3>1. Leads(h) /\ pc'[h] = pc[h] /\ local'[h] = local[h] /\ floor'[h] = floor[h]
        BY <2>1, <2>2, <2>4 DEF Moved, Leads
      <3>2. fetches' \in {fetches, fetches + 1}
        BY <2>2
      <3>. QED BY <1>0, <2>2, <3>1, <3>2, LeaderUndisturbed
    <2>. QED BY <2>3, <2>4
  <1>5. ASSUME NEW g \in Goroutines, Publish(g) PROVE LeadsOK(h)'
    <2>1. Returned(g, local[g].text)
      BY <1>5, PublishMoves
    <2>2. h # g
      BY <2>1 DEF Returned, Leads
    <2>3. Leads(h) /\ pc'[h] = pc[h] /\ local'[h] = local[h]
      BY <2>1, <2>2 DEF Returned, Leads
    <2>4. local[h].key # local[g].key
      BY <1>5, <2>2, <2>3, LeadersDiffer DEF Publish, Leads
    <2>5. entries'[local[h].key] = entries[local[h].key]
      BY <1>0, <1>5, <2>3, <2>4 DEF Publish, Types, TypeOK
    <2>6. floor'[h] = floor[h] /\ fetches' = fetches
      BY <1>5 DEF Publish
    <2>. QED BY <1>0, <2>3, <2>5, <2>6, LeaderUndisturbed
  <1>6. CASE (\E r \in Responses : ContextEnds(r)) \/ Tick \/ UNCHANGED vars
    <2>1. UNCHANGED <<entries, pc, local, floor, fetches>>
      BY <1>6 DEF ContextEnds, Tick, vars
    <2>2. Leads(h)
      BY <2>1 DEF Leads
    <2>. QED BY <1>0, <2>1, <2>2, LeaderUndisturbed
  <1>. QED BY <1>1, <1>2, <1>3, <1>4, <1>5, <1>6 DEF Next, Step, Proceed

\* Nothing that makes h serve g has changed.
LEMMA StillServes ==
    ASSUME NEW g \in Goroutines, NEW h \in Goroutines, Serves(h, g),
           local'[g].key = local[g].key, floor'[g] = floor[g],
           Leads(h) => /\ Leads(h)' /\ local'[h].key = local[h].key
                       /\ entries'[local[h].key] = entries[local[h].key],
           pc[h] = "done" /\ results[h] # None => pc'[h] = "done" /\ results'[h] = results[h]
    PROVE  Serves(h, g)'
  <1>1. CASE Leads(h) /\ local[h].key = local[g].key /\ floor[g] <= Known(local[g].key)
    BY <1>1 DEF Serves, Known
  <1>2. CASE pc[h] = "done" /\ results[h] # None /\ results[h] >= floor[g]
    BY <1>2 DEF Serves
  <1>. QED BY <1>1, <1>2 DEF Serves

\* Every step keeps a call, or its result, for everybody who waits.
LEMMA WaitersNext ==
    Types /\ PendingExact /\ LeadersRemember /\ WaitersServed /\ [Next]_vars => WaitersServed'
  <1>. SUFFICES ASSUME Types, PendingExact, LeadersRemember, WaitersServed, [Next]_vars,
                       NEW g \in Goroutines, pc'[g] = "wait"
                PROVE  Serves(local[g].call, g)'
    BY DEF WaitersServed
  <1>0. pc[g] = "wait" => /\ local[g].call \in Goroutines /\ Serves(local[g].call, g)
                          /\ local[g].key \in Advisories
    BY LocalFields DEF WaitersServed, Types, LocalsOK
  <1>1. ASSUME NEW h \in Goroutines, h = local[g].call, Serves(h, g),
               pc[g] = "wait", local'[g] = local[g], floor'[g] = floor[g],
               Leads(h) => /\ Leads(h)' /\ local'[h].key = local[h].key
                           /\ entries'[local[h].key] = entries[local[h].key],
               pc[h] = "done" /\ results[h] # None => pc'[h] = "done" /\ results'[h] = results[h]
        PROVE  Serves(local[g].call, g)'
    <2>1. Serves(h, g)'
      BY <1>1, StillServes
    <2>. QED BY <1>1, <2>1 DEF Serves, Leads
  <1>2. ASSUME NEW r \in Responses, Begin(r) PROVE Serves(local[g].call, g)'
    <2>1. pc[g] = "wait" /\ local'[g] = local[g]
      BY <1>2, BeginMoves
    <2>2. UNCHANGED <<entries, results, floor>>
      BY <1>2 DEF Begin
    <2>. DEFINE h == local[g].call
    <2>3. /\ Leads(h) => Leads(h)' /\ local'[h].key = local[h].key
          /\ pc[h] = "done" /\ results[h] # None => pc'[h] = "done"
      BY <1>0, <1>2, <2>1, BeginMoves DEF Leads
    <2>. QED BY <1>0, <1>1, <2>1, <2>2, <2>3
  <1>3. ASSUME NEW x \in Goroutines,
               \/ Acquire(x) \/ GiveUp(x) \/ ReadClock(x) \/ Hit(x) \/ Join(x)
               \/ StopWaiting(x) \/ Waited(x)
        PROVE  Serves(local[g].call, g)'
    <2>1. CASE g = x
      <3>1. Join(x)
        BY <1>3, <2>1, OutsideMoves
      <3>2. PICK next \in Locals : /\ local' = [local EXCEPT ![x] = next]
                                   /\ next.key = local[x].key
                                   /\ next.call = pending[local[x].key]
        BY <3>1, WritesLocals
      <3>3. /\ local[x].key \in Advisories /\ pending[local[x].key] \in Goroutines
            /\ floor'[x] = Known(local[x].key) /\ UNCHANGED entries
            /\ Known(local[x].key) \in Nat
        BY <3>1, LocalFields, KnownNat DEF Join, Ask, Types, TypeOK
      <3>. DEFINE h == pending[local[x].key]
      <3>4. Leads(h) /\ local[h].key = local[x].key
        BY <3>3 DEF PendingExact, Leads
      <3>5. h # x /\ local'[h] = local[h] /\ pc'[h] = pc[h]
        BY <1>3, <3>3, <3>4, OutsideMoves
      <3>6. local'[x].key = local[x].key /\ local'[x].call = h
        BY <3>2 DEF Types, TypeOK
      <3>. QED BY <2>1, <3>3, <3>4, <3>5, <3>6 DEF Serves, Leads, Known
    <2>2. CASE g # x
      <3>1. pc[g] = "wait" /\ local'[g] = local[g] /\ floor'[g] = floor[g]
        BY <1>3, <2>2, OutsideMoves
      <3>. DEFINE h == local[g].call
      <3>2. h \in Goroutines \ {x}
        BY <1>0, <1>3, <3>1, OutsideMoves DEF Serves
      <3>3. local'[h] = local[h] /\ pc'[h] = pc[h] /\ UNCHANGED <<entries, results>>
        BY <1>3, <3>2, OutsideMoves
      <3>. QED BY <1>0, <1>1, <3>1, <3>2, <3>3 DEF Leads
    <2>. QED BY <2>1, <2>2
  <1>4. ASSUME NEW x \in Goroutines, Lead(x) PROVE Serves(local[g].call, g)'
    <2>1. PICK next \in Locals : Moved(x, next, "fetch")
      BY <1>4, LeadMoves
    <2>2. /\ pc[x] = "lookup" /\ UNCHANGED <<entries, results>>
          /\ floor' = [floor EXCEPT ![x] = Known(local[x].key)]
      BY <1>4 DEF Lead, Ask
    <2>3. g # x
      BY <2>1 DEF Moved
    <2>4. pc[g] = "wait" /\ local'[g] = local[g] /\ floor'[g] = floor[g]
      BY <2>1, <2>2, <2>3 DEF Moved, Types, TypeOK
    <2>. DEFINE h == local[g].call
    <2>5. h \in Goroutines \ {x}
      BY <1>0, <2>2, <2>4 DEF Serves, Leads
    <2>6. local'[h] = local[h] /\ pc'[h] = pc[h]
      BY <2>1, <2>5 DEF Moved
    <2>. QED BY <1>0, <1>1, <2>2, <2>4, <2>5, <2>6 DEF Leads
  <1>5. ASSUME NEW x \in Goroutines, FetchSucceeds(x) \/ FetchFails(x)
        PROVE  Serves(local[g].call, g)'
    <2>1. PICK next \in Locals : Moved(x, next, "publish") /\ next.key = local[x].key
      BY <1>5, FetchMoves
    <2>2. pc[x] = "fetch" /\ UNCHANGED <<entries, results, floor>>
      BY <1>5 DEF FetchSucceeds, FetchFails
    <2>3. g # x
      BY <2>1 DEF Moved
    <2>4. pc[g] = "wait" /\ local'[g] = local[g]
      BY <2>1, <2>3 DEF Moved
    <2>. DEFINE h == local[g].call
    <2>5. CASE h = x
      BY <1>0, <1>1, <2>1, <2>2, <2>4, <2>5 DEF Moved, Leads
    <2>6. CASE h # x
      <3>1. h \in Goroutines /\ local'[h] = local[h] /\ pc'[h] = pc[h]
        BY <1>0, <2>1, <2>4, <2>6 DEF Moved
      <3>. QED BY <1>0, <1>1, <2>2, <2>4, <3>1 DEF Leads
    <2>. QED BY <2>5, <2>6
  <1>6. ASSUME NEW x \in Goroutines, Publish(x) PROVE Serves(local[g].call, g)'
    <2>1. Returned(x, local[x].text) /\ results'[x] = local[x].text
      BY <1>6, PublishMoves
    <2>2. /\ pc[x] = "publish" /\ UNCHANGED floor
          /\ local[x].text \in Nat /\ local[x].key \in Advisories
      BY <1>6, LocalFields DEF Publish, Types
    <2>3. g # x
      BY <2>1 DEF Returned
    <2>4. pc[g] = "wait" /\ local'[g] = local[g]
      BY <2>1, <2>3 DEF Returned
    <2>. DEFINE h == local[g].call
    <2>5. CASE h = x
      <3>1. local[x].key = local[g].key /\ floor[g] <= Known(local[g].key)
        BY <1>0, <2>2, <2>4, <2>5 DEF Serves
      <3>2. local[x].text >= Known(local[x].key)
        <4>1. LeadsOK(x) /\ Known(local[x].key) \in Nat
          BY <2>2, KnownNat DEF LeadersRemember, Leads, Types
        <4>. QED BY <2>2, <4>1 DEF LeadsOK
      <3>3. floor[g] \in Nat /\ Known(local[x].key) \in Nat /\ local[x].text # None
        BY <2>2, KnownNat, NoneAssumption DEF Types, TypeOK
      <3>4. local[x].text >= floor[g]
        BY <2>2, <3>1, <3>2, <3>3
      <3>5. pc'[x] = "done" /\ results'[x] = local[x].text
        BY <2>1 DEF Returned
      <3>. QED BY <2>2, <2>4, <2>5, <3>3, <3>4, <3>5 DEF Serves
    <2>6. CASE h # x
      <3>1. h \in Goroutines /\ local'[h] = local[h] /\ pc'[h] = pc[h]
        BY <1>0, <2>1, <2>4, <2>6 DEF Returned
      <3>2. results'[h] = results[h]
        BY <1>6, <2>6, <3>1 DEF Publish, Types, TypeOK
      <3>3. Leads(h) => entries'[local[h].key] = entries[local[h].key]
        <4>1. Leads(h) => local[h].key # local[x].key /\ local[h].key \in Advisories
          BY <2>2, <2>6, <3>1, LeadersDiffer, LocalFields DEF Leads
        <4>. QED BY <1>6, <2>2, <4>1 DEF Publish, Types, TypeOK
      <3>. QED BY <1>0, <1>1, <2>2, <2>4, <3>1, <3>2, <3>3 DEF Leads
    <2>. QED BY <2>5, <2>6
  <1>7. CASE (\E r \in Responses : ContextEnds(r)) \/ Tick \/ UNCHANGED vars
    <2>1. UNCHANGED <<entries, pc, local, floor, results>>
      BY <1>7 DEF ContextEnds, Tick, vars
    <2>. QED BY <1>0, <1>1, <2>1 DEF Leads
  <1>. QED BY <1>2, <1>3, <1>4, <1>5, <1>6, <1>7 DEF Next, Step, Proceed

-----------------------------------------------------------------------------
(* Texts *)

\* A call that ends stores a text it has fetched, or leaves the cache alone.
LEMMA PublishStores ==
    ASSUME Types, LeadersRemember, NEW g \in Goroutines, Publish(g)
    PROVE  /\ \A k \in Advisories \ {local[g].key} : entries'[k] = entries[k]
           /\ ~local[g].fetched => entries' = entries
           /\ local[g].fetched =>
                 /\ entries'[local[g].key] = [text |-> local[g].text, fetchedAt |-> local[g].now]
                 /\ local[g].text > Known(local[g].key) /\ local[g].text <= fetches
  <1>1. local[g].key \in Advisories /\ LeadsOK(g)
    BY LocalFields DEF Publish, LeadersRemember, Leads
  <1>. QED BY <1>1 DEF Publish, LeadsOK, Types, TypeOK

\* Only Publish writes an entry.
LEMMA OnlyPublishWrites ==
    ASSUME Types, [Next]_vars, \A g \in Goroutines : ~Publish(g)
    PROVE  UNCHANGED entries /\ fetches' \in {fetches, fetches + 1}
  <1>1. ASSUME NEW g \in Goroutines, Step(g) PROVE UNCHANGED entries /\ fetches' \in {fetches, fetches + 1}
    <2>1. CASE FetchSucceeds(g) \/ FetchFails(g)
      BY <2>1 DEF FetchSucceeds, FetchFails
    <2>2. CASE Lead(g)
      BY <2>2 DEF Lead, Ask
    <2>3. CASE \/ Acquire(g) \/ GiveUp(g) \/ ReadClock(g) \/ Hit(g) \/ Join(g)
               \/ StopWaiting(g) \/ Waited(g)
      BY <2>3, OutsideMoves
    <2>. QED BY <1>1, <2>1, <2>2, <2>3 DEF Step, Proceed
  <1>2. CASE (\E r \in Responses : Begin(r) \/ ContextEnds(r)) \/ Tick \/ UNCHANGED vars
    BY <1>2 DEF Begin, ContextEnds, Tick, vars
  <1>. QED BY <1>1, <1>2 DEF Next

\* Every step keeps the order of the texts.
LEMMA TextsNext == Types /\ LeadersRemember /\ TextsInOrder /\ [Next]_vars => TextsInOrder'
  <1>. SUFFICES ASSUME Types, LeadersRemember, TextsInOrder, [Next]_vars, NEW k \in Advisories
                PROVE  Known(k)' <= fetches'
    BY DEF TextsInOrder
  <1>1. Known(k) \in Nat /\ Known(k) <= fetches /\ fetches \in Nat
    BY KnownNat DEF TextsInOrder, Types, TypeOK
  <1>2. ASSUME NEW g \in Goroutines, Publish(g) PROVE Known(k)' <= fetches'
    <2>1. fetches' = fetches
      BY <1>2 DEF Publish
    <2>2. CASE entries'[k] = entries[k]
      BY <1>1, <2>1, <2>2 DEF Known
    <2>3. CASE entries'[k] # entries[k]
      <3>1. entries'[k] = [text |-> local[g].text, fetchedAt |-> local[g].now]
            /\ local[g].text <= fetches
        BY <1>2, <2>3, PublishStores, LocalFields DEF Publish
      <3>. QED BY <1>1, <2>1, <3>1 DEF Known
    <2>. QED BY <2>2, <2>3
  <1>3. CASE \A g \in Goroutines : ~Publish(g)
    BY <1>1, <1>3, OnlyPublishWrites DEF Known
  <1>. QED BY <1>2, <1>3

\* Every step keeps the texts that the goroutines have returned good enough.
LEMMA AtLeastNext ==
    Types /\ LeadersRemember /\ WaitersServed /\ AtLeastWhatWasKnown /\ [Next]_vars
        => AtLeastWhatWasKnown'
  <1>. SUFFICES ASSUME Types, LeadersRemember, WaitersServed, AtLeastWhatWasKnown, [Next]_vars,
                       NEW g \in Goroutines, pc'[g] = "done", contents'[g] < floor'[g]
                PROVE  contents'[g] = 0 /\ g[1] \in ended'
    BY DEF AtLeastWhatWasKnown
  <1>1. ASSUME pc[g] = "done", contents'[g] = contents[g], floor'[g] = floor[g], ended \subseteq ended'
        PROVE  contents'[g] = 0 /\ g[1] \in ended'
    BY <1>1 DEF AtLeastWhatWasKnown
  <1>2. ASSUME NEW r \in Responses, Begin(r) PROVE contents'[g] = 0 /\ g[1] \in ended'
    <2>1. pc[g] = "done"
      BY <1>2, BeginMoves
    <2>. QED BY <1>1, <1>2, <2>1 DEF Begin
  <1>3. ASSUME NEW x \in Goroutines, Step(x), x # g PROVE contents'[g] = 0 /\ g[1] \in ended'
    <2>1. ended' = ended
      BY <1>3 DEF Step, Proceed, Acquire, GiveUp, ReadClock, Hit, Join, Lead, Ask, StopWaiting,
                  Waited, FetchSucceeds, FetchFails, Publish
    <2>2. contents'[g] = contents[g]
      BY <1>3 DEF Step, Proceed, Acquire, GiveUp, ReadClock, Hit, Join, Lead, Ask, StopWaiting,
                  Waited, FetchSucceeds, FetchFails, Publish, Return, Types, TypeOK
    <2>3. floor'[g] = floor[g]
      BY <1>3 DEF Step, Proceed, Acquire, GiveUp, ReadClock, Hit, Join, Lead, Ask, StopWaiting,
                  Waited, FetchSucceeds, FetchFails, Publish, Types, TypeOK
    <2>4. pc'[g] = pc[g]
      BY <1>3 DEF Step, Proceed, Acquire, GiveUp, ReadClock, Hit, Join, Lead, Ask, StopWaiting,
                  Waited, FetchSucceeds, FetchFails, Publish, Return, Goto, Types, TypeOK
    <2>. QED BY <1>1, <2>1, <2>2, <2>3, <2>4
  <1>4. CASE GiveUp(g) \/ StopWaiting(g)
    BY <1>4 DEF GiveUp, StopWaiting, Return, Types, TypeOK
  <1>5. CASE Hit(g)
    <2>1. /\ contents'[g] = Known(local[g].key) /\ floor'[g] = Known(local[g].key)
      BY <1>5 DEF Hit, Ask, Return, Types, TypeOK
    <2>2. Known(local[g].key) \in Nat
      BY <1>5, LocalFields, KnownNat DEF Hit, Ask, Types
    <2>. QED BY <2>1, <2>2
  <1>6. CASE Waited(g)
    <2>1. /\ pc[g] = "wait" /\ results[local[g].call] # None
          /\ contents'[g] = results[local[g].call] /\ floor'[g] = floor[g]
      BY <1>6 DEF Waited, Return, Types, TypeOK
    <2>2. local[g].call \in Goroutines /\ Serves(local[g].call, g)
      BY <2>1 DEF WaitersServed, Types, LocalsOK
    <2>3. pc[local[g].call] = "done" /\ results[local[g].call] >= floor[g]
      BY <2>1, <2>2 DEF Serves, Leads, Types, LocalsOK
    <2>4. results[local[g].call] \in Nat /\ floor[g] \in Nat
      BY <2>1, <2>2 DEF Types, TypeOK
    <2>. QED BY <2>1, <2>3, <2>4
  <1>7. CASE Publish(g)
    <2>1. contents'[g] = local[g].text /\ floor'[g] = floor[g] /\ pc[g] = "publish"
      BY <1>7 DEF Publish, Return, Types, TypeOK
    <2>2. LeadsOK(g) /\ local[g].text \in Nat /\ Known(local[g].key) \in Nat
      BY <2>1, LocalFields, KnownNat DEF LeadersRemember, Leads, Types
    <2>. QED BY <2>1, <2>2 DEF LeadsOK
  <1>8. CASE Acquire(g) \/ ReadClock(g) \/ Join(g) \/ Lead(g) \/ FetchSucceeds(g) \/ FetchFails(g)
    BY <1>8 DEF Acquire, ReadClock, Join, Lead, Ask, FetchSucceeds, FetchFails, Goto, Types, TypeOK
  <1>9. CASE (\E r \in Responses : ContextEnds(r)) \/ Tick \/ UNCHANGED vars
    BY <1>1, <1>9 DEF ContextEnds, Tick, vars
  <1>. QED BY <1>2, <1>3, <1>4, <1>5, <1>6, <1>7, <1>8, <1>9 DEF Next, Step, Proceed

-----------------------------------------------------------------------------
(* Theorems *)

\* The cache is empty and nobody asks it.
LEMMA IInvInit == Init => IInv
  <1>. SUFFICES ASSUME Init PROVE IInv
    OBVIOUS
  <1>1. Types
    BY DEF Init, Types, TypeOK, LocalsOK
  <1>2. PendingExact
    BY NoneAssumption DEF Init, PendingExact
  <1>3. LeadersRemember /\ WaitersServed
    BY DEF Init, LeadersRemember, Leads, WaitersServed
  <1>4. TextsInOrder /\ AtLeastWhatWasKnown
    BY DEF Init, TextsInOrder, Known, AtLeastWhatWasKnown
  <1>. QED BY <1>1, <1>2, <1>3, <1>4 DEF IInv

\* Every step keeps the inductive invariant.
LEMMA IInvNext == IInv /\ [Next]_vars => IInv'
  BY TypesNext, PendingNext, LeadersNext, WaitersNext, TextsNext, AtLeastNext DEF IInv

\* The inductive invariant holds in every state.
THEOREM Invariance == Spec => []IInv
  BY IInvInit, IInvNext, PTL DEF Spec

\* The variables keep their types.
THEOREM TypeCorrect == Spec => []TypeOK
  <1>1. IInv => TypeOK
    BY DEF IInv, Types
  <1>. QED BY <1>1, Invariance, PTL

\* However many responses ask for an advisory at the same time, at most one of
\* their goroutines fetches it, and it is the one that the others find.
THEOREM FetchedOnce == Spec => []PendingExact
  <1>1. IInv => PendingExact
    BY DEF IInv
  <1>. QED BY <1>1, Invariance, PTL

\* No release loses a text that the cache had, unless its own response is over.
THEOREM NothingKnownIsLost == Spec => []AtLeastWhatWasKnown
  <1>1. IInv => AtLeastWhatWasKnown
    BY DEF IInv
  <1>. QED BY <1>1, Invariance, PTL

\* A step from a state of the invariant replaces entries only by newer ones.
LEMMA ForwardNext ==
    IInv /\ [Next]_vars =>
        \A k \in Advisories :
            entries[k] # None /\ entries'[k] # entries[k] =>
                /\ entries'[k] # None
                /\ entries'[k].text > entries[k].text
                /\ entries'[k].fetchedAt >= entries[k].fetchedAt + TTL
  <1>. SUFFICES ASSUME IInv, [Next]_vars, NEW k \in Advisories,
                       entries[k] # None, entries'[k] # entries[k]
                PROVE  /\ entries'[k] # None
                       /\ entries'[k].text > entries[k].text
                       /\ entries'[k].fetchedAt >= entries[k].fetchedAt + TTL
    OBVIOUS
  <1>1. Types /\ LeadersRemember
    BY DEF IInv
  <1>2. PICK g \in Goroutines : Publish(g)
    BY <1>1, OnlyPublishWrites
  <1>3. k = local[g].key /\ local[g].fetched
    BY <1>1, <1>2, PublishStores DEF Types, TypeOK
  <1>4. /\ entries'[k] = [text |-> local[g].text, fetchedAt |-> local[g].now]
        /\ local[g].text > Known(k)
    BY <1>1, <1>2, <1>3, PublishStores
  <1>5. LeadsOK(g)
    BY <1>1, <1>2 DEF LeadersRemember, Leads, Publish
  <1>6. local[g].now >= entries[k].fetchedAt + TTL
    BY <1>3, <1>5 DEF LeadsOK
  <1>7. entries'[k] \in Entry
    BY <1>1, <1>2, <1>3, <1>4, FetchedText DEF Publish
  <1>. QED BY <1>4, <1>6, <1>7, NoneAssumption DEF Known

\* The cache never goes back to an older text or an older date.
THEOREM Forward == Spec => CacheMovesForward
  <1>1. IInv /\ [Next]_vars =>
          [\A k \in Advisories :
              entries[k] # None /\ entries'[k] # entries[k] =>
                  /\ entries'[k] # None
                  /\ entries'[k].text > entries[k].text
                  /\ entries'[k].fetchedAt >= entries[k].fetchedAt + TTL]_vars
    BY ForwardNext
  <1>. QED BY <1>1, Invariance, PTL DEF Spec, CacheMovesForward
=============================================================================

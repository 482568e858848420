--------------------------- MODULE ChangelogCache ---------------------------
(***************************************************************************)
(* internal/openshift/changelog.go: the advisory texts of the releases in  *)
(* concurrent responses, and the cache they share.                         *)
(*                                                                         *)
(* A response starts one goroutine for each of its releases that has an    *)
(* advisory.  A few of them at a time ask the cache; the first one to miss *)
(* an advisory fetches it with no lock held, and those that miss it        *)
(* meanwhile wait for what the first one gets.  The context of a response  *)
(* ends at any moment.                                                     *)
(***************************************************************************)
EXTENDS Naturals, FiniteSets

CONSTANTS
    Responses,    \* the calls of enrichChangelogs
    Positions,    \* the places in a list of releases
    Advisories,   \* the keys of the cache
    Concurrency,  \* changelogConcurrency
    TTL,          \* changelogCacheTTL
    MaxTime,      \* bound: how far the clock runs
    None

ASSUME PositionsAssumption   == IsFiniteSet(Positions)
ASSUME ConcurrencyAssumption == Concurrency \in Nat \ {0}
ASSUME TimesAssumption       == TTL \in Nat /\ MaxTime \in Nat

\* One goroutine for each release of each response.
Goroutines == Responses \X Positions

\* The text of an advisory is told apart by the number of the fetch it came
\* with; 0 stands for an error.
Texts  == Nat \ {0}
Entry  == [text : Texts, fetchedAt : Nat]
Locals == [key : Advisories, now : Nat, stale : Entry \cup {None}, call : Goroutines \cup {None},
           text : Nat, fetched : BOOLEAN]

ASSUME NoneAssumption == None \notin Entry \cup Nat \cup Goroutines \cup Locals \cup Advisories

VARIABLES
    entries,   \* ChangelogCache.entries
    pending,   \* ChangelogCache.pending; a call is named after the goroutine that makes it
    results,   \* what a call has left for those who wait for it, None until it is closed
    pc,        \* where each goroutine is
    local,     \* its locals
    contents,  \* the text it put into its release
    begun,     \* the responses that have been begun
    ended,     \* the responses whose context is done
    clock,     \* the time
    fetches,   \* how many fetches have succeeded
    floor      \* auxiliary: the newest text that the cache held of its advisory when
               \* a goroutine asked it, 0 if none

vars == <<entries, pending, results, pc, local, contents, begun, ended, clock, fetches, floor>>

Goto(g, label) == pc' = [pc EXCEPT ![g] = label]

\* The goroutines of response r that hold one of its tokens.
Busy(r) == {g \in {r} \X Positions : pc[g] \in {"clock", "lookup", "wait", "fetch", "publish"}}

Known(k) == IF entries[k] = None THEN 0 ELSE entries[k].text

-----------------------------------------------------------------------------
(* enrichChangelogs *)

\* The goroutines of response r are started, one for each release that has an
\* advisory; the releases come from anywhere.
Begin(r) ==
    /\ r \notin begun
    /\ begun' = begun \cup {r}
    /\ \E keys \in [Positions -> Advisories \cup {None}] :
          /\ pc' = [g \in Goroutines |->
                      IF g[1] = r /\ keys[g[2]] # None THEN "token" ELSE pc[g]]
          /\ local' = [g \in Goroutines |->
                         IF g[1] = r /\ keys[g[2]] # None
                         THEN [key |-> keys[g[2]], now |-> 0, stale |-> None, call |-> None,
                               text |-> 0, fetched |-> FALSE]
                         ELSE local[g]]
    /\ UNCHANGED <<entries, pending, results, contents, ended, clock, fetches, floor>>

\* Five seconds are over, or the client has gone.
ContextEnds(r) ==
    /\ r \in begun \ ended
    /\ ended' = ended \cup {r}
    /\ UNCHANGED <<entries, pending, results, pc, local, contents, begun, clock, fetches, floor>>

\* A token is free.
Acquire(g) ==
    /\ pc[g] = "token"
    /\ Cardinality(Busy(g[1])) < Concurrency
    /\ Goto(g, "clock")
    /\ UNCHANGED <<entries, pending, results, local, contents, begun, ended, clock, fetches, floor>>

\* The goroutine ends and leaves text, if there is one, in its release.
Return(g, text) ==
    /\ contents' = [contents EXCEPT ![g] = text]
    /\ local' = [local EXCEPT ![g] = None]
    /\ Goto(g, "done")

\* The release goes without a text.
GiveUp(g) ==
    /\ pc[g] = "token"
    /\ g[1] \in ended
    /\ Return(g, 0)
    /\ UNCHANGED <<entries, pending, results, begun, ended, clock, fetches, floor>>

-----------------------------------------------------------------------------
(* cachedChangelog *)

\* The time is read before the lock is taken.
ReadClock(g) ==
    /\ pc[g] = "clock"
    /\ local' = [local EXCEPT ![g].now = clock]
    /\ Goto(g, "lookup")
    /\ UNCHANGED <<entries, pending, results, contents, begun, ended, clock, fetches, floor>>

\* The entry of the advisory of g was fresh when g read the clock; one that is
\* younger than that reading is, too.
Fresh(g) ==
    LET entry == entries[local[g].key] IN
    entry # None /\ local[g].now < entry.fetchedAt + TTL

\* The cache is asked: what it holds then is the least that g may return.
Ask(g) ==
    /\ pc[g] = "lookup"
    /\ floor' = [floor EXCEPT ![g] = Known(local[g].key)]
    /\ UNCHANGED <<entries, results, begun, ended, clock, fetches>>

\* A fresh entry is returned.
Hit(g) ==
    /\ Ask(g) /\ Fresh(g)
    /\ Return(g, Known(local[g].key))
    /\ UNCHANGED pending

\* The advisory is already being fetched: g will wait for that.
Join(g) ==
    /\ Ask(g) /\ ~Fresh(g)
    /\ pending[local[g].key] # None
    /\ local' = [local EXCEPT ![g].call = pending[local[g].key]]
    /\ Goto(g, "wait")
    /\ UNCHANGED <<pending, contents>>

\* Seeded fault: every goroutine that misses fetches for itself.
LeadAlways(g) ==
    /\ Ask(g) /\ ~Fresh(g)
    /\ pending' = [pending EXCEPT ![local[g].key] = g]
    /\ local' = [local EXCEPT ![g].stale = entries[local[g].key]]
    /\ Goto(g, "fetch")
    /\ UNCHANGED contents

\* Seeded fault: the call is registered before one is looked for, and so found.
LeadAndJoin(g) ==
    /\ Ask(g) /\ ~Fresh(g)
    /\ pending[local[g].key] = None
    /\ pending' = [pending EXCEPT ![local[g].key] = g]
    /\ local' = [local EXCEPT ![g].call = g]
    /\ Goto(g, "wait")
    /\ UNCHANGED contents

\* Nobody fetches it: g does, and remembers the stale entry.
Lead(g) ==
    /\ Ask(g) /\ ~Fresh(g)
    /\ pending[local[g].key] = None
    /\ pending' = [pending EXCEPT ![local[g].key] = g]
    /\ local' = [local EXCEPT ![g].stale = entries[local[g].key]]
    /\ Goto(g, "fetch")
    /\ UNCHANGED contents

\* Waiting ends with the context of the response that waits.
StopWaiting(g) ==
    /\ pc[g] = "wait"
    /\ g[1] \in ended
    /\ Return(g, 0)
    /\ UNCHANGED <<entries, pending, results, begun, ended, clock, fetches, floor>>

\* The call is closed: its result is that of g.
Waited(g) ==
    /\ pc[g] = "wait"
    /\ results[local[g].call] # None
    /\ Return(g, results[local[g].call])
    /\ UNCHANGED <<entries, pending, results, begun, ended, clock, fetches, floor>>

\* The errata page was read and parsed.
FetchSucceeds(g) ==
    /\ pc[g] = "fetch"
    /\ fetches' = fetches + 1
    /\ local' = [local EXCEPT ![g].text = fetches + 1, ![g].fetched = TRUE]
    /\ Goto(g, "publish")
    /\ UNCHANGED <<entries, pending, results, contents, begun, ended, clock, floor>>

\* Seeded fault: there is nothing to fall back on.
FetchFailsCold(g) ==
    /\ pc[g] = "fetch"
    /\ Goto(g, "publish")
    /\ UNCHANGED <<entries, pending, results, local, contents, begun, ended, clock, fetches, floor>>

\* It was not, or the context ended first: the stale text is used if there is one.
FetchFails(g) ==
    /\ pc[g] = "fetch"
    /\ local' = [local EXCEPT ![g].text = IF local[g].stale = None THEN 0
                                          ELSE local[g].stale.text]
    /\ Goto(g, "publish")
    /\ UNCHANGED <<entries, pending, results, contents, begun, ended, clock, fetches, floor>>

\* Seeded fault: an error is stored like a text.
PublishAnything(g) ==
    /\ pc[g] = "publish"
    /\ pending' = [pending EXCEPT ![local[g].key] = None]
    /\ results' = [results EXCEPT ![g] = local[g].text]
    /\ entries' = [entries EXCEPT ![local[g].key] =
                      [text |-> local[g].text, fetchedAt |-> local[g].now]]
    /\ Return(g, local[g].text)
    /\ UNCHANGED <<begun, ended, clock, fetches, floor>>

\* The last section: the call is removed and closed, and a success is stored
\* with the time from before the fetch.
Publish(g) ==
    /\ pc[g] = "publish"
    /\ pending' = [pending EXCEPT ![local[g].key] = None]
    /\ results' = [results EXCEPT ![g] = local[g].text]
    /\ entries' = IF ~local[g].fetched THEN entries
                  ELSE [entries EXCEPT ![local[g].key] =
                          [text |-> local[g].text, fetchedAt |-> local[g].now]]
    /\ Return(g, local[g].text)
    /\ UNCHANGED <<begun, ended, clock, fetches, floor>>

-----------------------------------------------------------------------------
(* Specification *)

\* Time passes.
Tick ==
    /\ clock < MaxTime
    /\ clock' = clock + 1
    /\ UNCHANGED <<entries, pending, results, pc, local, contents, begun, ended, fetches, floor>>

Init ==
    /\ entries = [k \in Advisories |-> None]
    /\ pending = [k \in Advisories |-> None]
    /\ results = [g \in Goroutines |-> None]
    /\ pc = [g \in Goroutines |-> "done"]
    /\ local = [g \in Goroutines |-> None]
    /\ contents = [g \in Goroutines |-> 0]
    /\ begun = {} /\ ended = {}
    /\ clock = 0 /\ fetches = 0
    /\ floor = [g \in Goroutines |-> 0]

\* The steps of g that wait for nobody else.
Proceed(g) ==
    \/ ReadClock(g) \/ Hit(g) \/ Join(g) \/ Lead(g)
    \/ FetchSucceeds(g) \/ FetchFails(g) \/ Publish(g)

Step(g) == Acquire(g) \/ GiveUp(g) \/ StopWaiting(g) \/ Waited(g) \/ Proceed(g)

Next ==
    \/ \E r \in Responses : Begin(r) \/ ContextEnds(r)
    \/ \E g \in Goroutines : Step(g)
    \/ Tick

Spec == Init /\ [][Next]_vars

\* Goroutines that can run do run, and a fetch ends, at the latest when the time
\* of its response is over.  That any context ends is not assumed: nobody may
\* depend on it but the fetch itself.
Fairness == \A g \in Goroutines : WF_vars(Step(g))

FairSpec == Spec /\ Fairness

-----------------------------------------------------------------------------
(* Properties *)

\* What the variables hold between any two sections under ChangelogCache.mu.
TypeOK ==
    /\ entries \in [Advisories -> Entry \cup {None}]
    /\ pending \in [Advisories -> Goroutines \cup {None}]
    /\ results \in [Goroutines -> Nat \cup {None}]
    /\ pc \in [Goroutines -> {"token", "clock", "lookup", "wait", "fetch", "publish", "done"}]
    /\ local \in [Goroutines -> Locals \cup {None}]
    /\ contents \in [Goroutines -> Nat]
    /\ begun \subseteq Responses /\ ended \subseteq begun
    /\ clock \in Nat /\ fetches \in Nat
    /\ floor \in [Goroutines -> Nat]

\* An advisory is never fetched twice at the same time, whatever the responses
\* that ask for it, and nobody joins a call that is over: the pending call of an
\* advisory is exactly the one that is being made for it.
PendingExact ==
    \A k \in Advisories, g \in Goroutines :
        pending[k] = g <=> pc[g] \in {"fetch", "publish"} /\ local[g].key = k

\* A release gets a text at least as new as the one the cache held when it asked,
\* fresh or stale, fetched by itself or by another response, also when a fetch
\* fails.  The one exception: its response ended while it was waiting for another.
AtLeastWhatWasKnown ==
    \A g \in Goroutines :
        pc[g] = "done" /\ contents[g] < floor[g] => contents[g] = 0 /\ g[1] \in ended

\* An entry is only ever replaced by a newer text with a later date, although the
\* clock is read before the lock is taken and long before the entry is written.
CacheMovesForward ==
    [][\A k \in Advisories :
          entries[k] # None /\ entries'[k] # entries[k] =>
              /\ entries'[k] # None
              /\ entries'[k].text > entries[k].text
              /\ entries'[k].fetchedAt >= entries[k].fetchedAt + TTL]_vars

\* Every response is completed, however the tokens and the calls that its
\* goroutines wait for are distributed over other responses.
ResponsesEnd ==
    \A r \in Responses : r \in begun ~> \A i \in Positions : pc[<<r, i>>] = "done"
=============================================================================

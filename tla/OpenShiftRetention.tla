------------------------- MODULE OpenShiftRetention -------------------------
(***************************************************************************)
(* internal/service/snapshot.go: the OpenShift lookups of concurrent HTTP  *)
(* handlers, and the results the service retains from them.                *)
(*                                                                         *)
(* Every lookup asks the upstream graph, with no lock held, between a      *)
(* section that registers it and a section that decides what to answer and *)
(* what to keep.  Lookups of one request may overlap and finish in any     *)
(* order, while results are evicted to make room, time passes, and a       *)
(* configuration reload changes the upstream or the maximum age.           *)
(***************************************************************************)
EXTENDS Naturals, FiniteSets

CONSTANTS
    Lookups,      \* the handlers that can be busy at the same time
    Requests,     \* openshift.UpdateRequest: channel, architecture, version and lag
    URLs,         \* upstream graphs
    MaxAges,      \* the values of maxSnapshotAge
    Capacity,     \* maxOpenShiftSnapshots
    MaxAttempts,  \* bound: how many lookups are made
    MaxReloads,   \* bound: how many configurations are loaded after the first
    MaxTime,      \* bound: how far the clock runs
    None

ASSUME LookupsAssumption  == IsFiniteSet(Lookups)
ASSUME CapacityAssumption == Capacity \in Nat \ {0}
ASSUME AgesAssumption     == MaxAges \subseteq Nat
ASSUME BoundsAssumption   == MaxAttempts \in Nat /\ MaxReloads \in Nat /\ MaxTime \in Nat

\* A retained result: which lookup produced it and when it was stored.  The
\* releases are known by the lookup that fetched them; url and epoch, which say
\* where and under which configuration it did, are recorded for the properties.
Entry  == [attempt : Nat \ {0}, generatedAt : Nat, url : URLs, epoch : Nat]
Lookup == [pending : Nat, latestSuccess : Nat]
Locals == [req : Requests, url : URLs, attempt : Nat, generation : Nat]

ASSUME NoneAssumption == None \notin Entry \cup Lookup \cup Locals \cup Requests

VARIABLES
    cfg,         \* Service.cfg: OpenShiftGraphURL and MaxSnapshotAge
    retained,    \* Service.openShiftSnapshots
    inFlight,    \* Service.openShiftInFlight
    attempt,     \* Service.openShiftAttempt
    generation,  \* Service.openShiftGeneration
    now,         \* the clock
    reloads,     \* how many configurations Reload has applied
    pc,          \* where each handler is
    local,       \* its locals
    answer,      \* the result it answered with, None for an error or no answer yet
    newest,      \* auxiliary: the last published attempt of each request
    floor        \* auxiliary: what newest was when a handler's lookup started

vars == <<cfg, retained, inFlight, attempt, generation, now, reloads, pc, local, answer,
          newest, floor>>

Kept == {r \in Requests : retained[r] # None}

Fetching(r) == {l \in Lookups : pc[l] = "fetching" /\ local[l].req = r}

\* snapshotAcceptableLocked: the policy of now applies to every read.
Acceptable(entry) == now - entry.generatedAt <= cfg.maxAge

-----------------------------------------------------------------------------
(* One lookup *)

\* The handler has validated its request and reads the upstream from the
\* configuration; openShiftUpdates starts only later.
Request(l, r) ==
    /\ pc[l] = "idle"
    /\ pc' = [pc EXCEPT ![l] = "start"]
    /\ local' = [local EXCEPT ![l] = [req |-> r, url |-> cfg.url, attempt |-> 0, generation |-> 0]]
    /\ answer' = [answer EXCEPT ![l] = None]
    /\ UNCHANGED <<cfg, retained, inFlight, attempt, generation, now, reloads, newest, floor>>

\* Seeded fault: the attempt is copied before it is counted.
RegisterBeforeCounting(l) ==
    LET r == local[l].req
        lookup == IF inFlight[r] = None THEN [pending |-> 0, latestSuccess |-> 0] ELSE inFlight[r]
    IN
    /\ pc[l] = "start"
    /\ attempt < MaxAttempts
    /\ attempt' = attempt + 1
    /\ local' = [local EXCEPT ![l].attempt = attempt, ![l].generation = generation]
    /\ inFlight' = [inFlight EXCEPT ![r] = [lookup EXCEPT !.pending = @ + 1]]
    /\ pc' = [pc EXCEPT ![l] = "fetching"]
    /\ floor' = [floor EXCEPT ![l] = newest[r]]
    /\ UNCHANGED <<cfg, retained, generation, now, reloads, answer, newest>>

\* The first section: number the attempt and count it in.
Register(l) ==
    LET r == local[l].req
        lookup == IF inFlight[r] = None THEN [pending |-> 0, latestSuccess |-> 0] ELSE inFlight[r]
    IN
    /\ pc[l] = "start"
    /\ attempt < MaxAttempts
    /\ attempt' = attempt + 1
    /\ local' = [local EXCEPT ![l].attempt = attempt + 1, ![l].generation = generation]
    /\ inFlight' = [inFlight EXCEPT ![r] = [lookup EXCEPT !.pending = @ + 1]]
    /\ pc' = [pc EXCEPT ![l] = "fetching"]
    /\ floor' = [floor EXCEPT ![l] = newest[r]]
    /\ UNCHANGED <<cfg, retained, generation, now, reloads, answer, newest>>

\* What the second section always does: count the lookup out, forget the
\* ordering when nobody needs it any more, and answer with result.
Finish(l, latestSuccess, result) ==
    LET r == local[l].req IN
    /\ pc[l] = "fetching"
    /\ inFlight' = [inFlight EXCEPT ![r] =
                      IF @.pending = 1 THEN None
                      ELSE [pending |-> @.pending - 1, latestSuccess |-> latestSuccess]]
    /\ pc' = [pc EXCEPT ![l] = "idle"]
    /\ local' = [local EXCEPT ![l] = None]
    /\ answer' = [answer EXCEPT ![l] = result]
    /\ UNCHANGED <<cfg, attempt, generation, now, reloads, floor>>

\* The upstream was changed since the handler read it or registered.
Outdated(l) == generation # local[l].generation \/ local[l].url # cfg.url

\* Seeded fault: this return comes before the lookup is counted out.
RejectUncounted(l) ==
    /\ pc[l] = "fetching" /\ Outdated(l)
    /\ pc' = [pc EXCEPT ![l] = "idle"]
    /\ local' = [local EXCEPT ![l] = None]
    /\ answer' = [answer EXCEPT ![l] = None]
    /\ UNCHANGED <<cfg, retained, inFlight, attempt, generation, now, reloads, newest, floor>>

\* What was fetched from another upstream is neither kept nor answered with, and
\* nothing else is either.
Reject(l) ==
    /\ pc[l] = "fetching" /\ Outdated(l)
    /\ Finish(l, inFlight[local[l].req].latestSuccess, None)
    /\ UNCHANGED <<retained, newest>>

\* Seeded fault: the age of the retained result is not looked at.
RetainedAtAnyAge(r) == IF r \in Kept THEN retained[r] ELSE None

\* What is left to answer with: the retained result while it is acceptable.
Retained(r) == IF r \in Kept /\ Acceptable(retained[r]) THEN retained[r] ELSE None

\* The upstream failed, timed out, or answered with an invalid payload.
FallBack(l) ==
    /\ pc[l] = "fetching" /\ ~Outdated(l)
    /\ Finish(l, inFlight[local[l].req].latestSuccess, Retained(local[l].req))
    /\ UNCHANGED <<retained, newest>>

\* Seeded fault: the last one to finish wins.
NeverOvertaken(l) == FALSE

\* Seeded fault: the order is forgotten with the result that was evicted.
OvertakenWhileRetained(l) ==
    LET r == local[l].req IN r \in Kept /\ retained[r].attempt > local[l].attempt

\* A lookup that was started later has already succeeded.
Overtaken(l) ==
    LET r == local[l].req IN
    \/ inFlight[r].latestSuccess > local[l].attempt
    \/ r \in Kept /\ retained[r].attempt > local[l].attempt

\* The newer result stays and is the answer, if it is still there to be served.
YieldToNewer(l) ==
    /\ pc[l] = "fetching" /\ ~Outdated(l) /\ Overtaken(l)
    /\ Finish(l, inFlight[local[l].req].latestSuccess, Retained(local[l].req))
    /\ UNCHANGED <<retained, newest>>

\* Seeded fault: room is made only when there is already one too many.
MakeRoomLate(r) ==
    IF r \in Kept \/ Cardinality(Kept) <= Capacity
    THEN {Kept}
    ELSE {Kept \ {oldest} : oldest \in {k \in Kept :
              \A other \in Kept : retained[k].attempt <= retained[other].attempt}}

\* The retained results that remain when one for r is to be added.
MakeRoom(r) ==
    IF r \in Kept \/ Cardinality(Kept) < Capacity
    THEN {Kept}
    ELSE {Kept \ {oldest} : oldest \in {k \in Kept :
              \A other \in Kept : retained[k].attempt <= retained[other].attempt}}

\* The newest success so far: keep it and answer with it.
Publish(l) ==
    LET r == local[l].req
        entry == [attempt |-> local[l].attempt, generatedAt |-> now,
                  url |-> local[l].url, epoch |-> local[l].generation]
    IN
    /\ pc[l] = "fetching" /\ ~Outdated(l) /\ ~Overtaken(l)
    /\ \E rest \in MakeRoom(r) :
          retained' = [k \in Requests |-> IF k = r THEN entry
                                          ELSE IF k \in rest THEN retained[k] ELSE None]
    /\ newest' = [newest EXCEPT ![r] = local[l].attempt]
    /\ Finish(l, local[l].attempt, entry)

-----------------------------------------------------------------------------
(* The environment *)

\* Reload, as far as lookups are concerned.
Reload(next) ==
    /\ reloads < MaxReloads
    /\ reloads' = reloads + 1
    /\ cfg' = next
    /\ IF next.url # cfg.url
       THEN /\ retained' = [r \in Requests |-> None]
            /\ generation' = generation + 1
       ELSE UNCHANGED <<retained, generation>>
    /\ UNCHANGED <<inFlight, attempt, now, pc, local, answer, newest, floor>>

\* Time passes.
Tick ==
    /\ now < MaxTime
    /\ now' = now + 1
    /\ UNCHANGED <<cfg, retained, inFlight, attempt, generation, reloads, pc, local, answer,
                   newest, floor>>

-----------------------------------------------------------------------------
(* Specification *)

Configs == [url : URLs, maxAge : MaxAges]

Init ==
    /\ cfg \in Configs
    /\ retained = [r \in Requests |-> None]
    /\ inFlight = [r \in Requests |-> None]
    /\ attempt = 0 /\ generation = 0 /\ now = 0 /\ reloads = 0
    /\ pc = [l \in Lookups |-> "idle"]
    /\ local = [l \in Lookups |-> None]
    /\ answer = [l \in Lookups |-> None]
    /\ newest = [r \in Requests |-> 0]
    /\ floor = [l \in Lookups |-> 0]

Decide(l) == Reject(l) \/ FallBack(l) \/ YieldToNewer(l) \/ Publish(l)

Next ==
    \/ \E l \in Lookups : (\E r \in Requests : Request(l, r)) \/ Register(l) \/ Decide(l)
    \/ \E next \in Configs : Reload(next)
    \/ Tick

Spec == Init /\ [][Next]_vars

-----------------------------------------------------------------------------
(* Properties *)

\* What the variables hold between any two sections under Service.mu.
TypeOK ==
    /\ cfg \in Configs
    /\ retained \in [Requests -> Entry \cup {None}]
    /\ inFlight \in [Requests -> Lookup \cup {None}]
    /\ attempt \in Nat /\ generation \in Nat /\ now \in Nat /\ reloads \in Nat
    /\ pc \in [Lookups -> {"idle", "start", "fetching"}]
    /\ local \in [Lookups -> Locals \cup {None}]
    /\ answer \in [Lookups -> Entry \cup {None}]
    /\ newest \in [Requests -> Nat]
    /\ floor \in [Lookups -> Nat]

\* The memory that client input can claim is bounded.
RetentionBounded == Cardinality(Kept) <= Capacity

\* The ordering of a request is kept exactly while some lookup of it is under
\* way, and the count of those lookups is right: nothing leaks, and nothing is
\* forgotten that a lookup still needs.
InFlightExact ==
    \A r \in Requests :
        IF Fetching(r) = {} THEN inFlight[r] = None
        ELSE inFlight[r] # None /\ inFlight[r].pending = Cardinality(Fetching(r))

\* A client never sees a request go back: a lookup answers with a result at
\* least as recently started as any that was published before it began, also
\* when that one has since been evicted.
MonotonicAnswers ==
    \A l \in Lookups : answer[l] # None => answer[l].attempt >= floor[l]

\* A lookup is never answered with a result that is too old under the policy in
\* force when it is answered, or that comes from another upstream or from before
\* the last change of upstream.
AnswersAcceptable ==
    [][\A l \in Lookups :
          pc[l] = "fetching" /\ pc'[l] = "idle" /\ answer'[l] # None =>
              /\ now - answer'[l].generatedAt <= cfg.maxAge
              /\ answer'[l].url = cfg.url
              /\ answer'[l].epoch = generation]_vars

\* What is retained is what LatestResults promises.
Results ==
    [r \in Requests |-> IF retained[r] = None THEN None
                        ELSE [url |-> retained[r].url, epoch |-> retained[r].epoch,
                              attempt |-> retained[r].attempt]]

Latest == INSTANCE LatestResults
              WITH url <- cfg.url, epoch <- generation, results <- Results

\* The lookups, however they overlap, keep the promise of LatestResults.
LatestImplemented == Latest!LatestSpec
=============================================================================

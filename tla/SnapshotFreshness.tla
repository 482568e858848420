------------------------- MODULE SnapshotFreshness -------------------------
(***************************************************************************)
(* How old a served catalog snapshot can get: the schedule of Run, the     *)
(* line of refreshes in front of the semaphore and the time each may take. *)
(*                                                                         *)
(* CatalogRefresh shows that one refresh runs at a time and that each one  *)
(* ends.  Here a refresh is no more than a place in line and a length, and *)
(* the clock runs.  Everything that takes no time in the code takes none   *)
(* here: only a read and the timer do.                                     *)
(***************************************************************************)
EXTENDS Naturals, Sequences, FiniteSets

CONSTANTS
    Sources,      \* the configured catalog sources
    Interval,     \* refreshInterval
    Timeout,      \* refreshTimeout
    MaxFailures,  \* bound: how many refreshes fail
    MaxRestarts   \* bound: how many reloads come between two successes

ASSUME SourcesAssumption  == IsFiniteSet(Sources) /\ Sources # {}
ASSUME IntervalAssumption == Interval \in Nat \ {0}
ASSUME TimeoutAssumption  == Timeout \in Nat \ {0}
ASSUME BoundsAssumption   == MaxFailures \in Nat /\ MaxRestarts \in Nat

VARIABLES
    line,      \* the sources in Service.running and Service.queued, in the order
               \* of the semaphore: the first one is being read
    spent,     \* for how long the first one has been read
    timer,     \* when the timer of Run fires
    served,    \* the sources in Service.snapshots
    todo,      \* what queueAll still has to queue
    age,       \* the time since the GeneratedAt of the snapshot of each source;
               \* before the first one, since the service was started
    waited,    \* the time since each source was last queued
    missed,    \* auxiliary: refreshes that failed since the last success
    restarts,  \* auxiliary: restarts of the timer since the last success
    failures   \* auxiliary: all failures

vars == <<line, spent, timer, served, todo, age, waited, missed, restarts,
          failures>>

InLine == {line[i] : i \in DOMAIN line}

-----------------------------------------------------------------------------
(* Asking for a refresh *)

\* Seeded fault: a source is turned away while any other one is being read.
QueueRefreshWhenFree(s) ==
    IF line # <<>> THEN UNCHANGED <<line, waited>>
    ELSE /\ line' = Append(line, s)
         /\ waited' = [waited EXCEPT ![s] = 0]

\* QueueRefresh: a source that is queued or running is not queued again.
QueueRefresh(s) ==
    IF s \in InLine THEN UNCHANGED <<line, waited>>
    ELSE /\ line' = Append(line, s)
         /\ waited' = [waited EXCEPT ![s] = 0]

\* The timer of Run fires: queueAll, and a new timer.
TimerFires ==
    /\ timer = 0 /\ todo = {}
    /\ todo' = Sources
    /\ timer' = Interval
    /\ UNCHANGED <<line, spent, served, age, waited, missed, restarts, failures>>

\* The goroutines that queueAll starts reach the semaphore in any order.
QueueNext(s) ==
    /\ s \in todo
    /\ todo' = todo \ {s}
    /\ QueueRefresh(s)
    /\ UNCHANGED <<spent, timer, served, age, missed, restarts, failures>>

\* A client posts to the refresh endpoint of s.
Request(s) ==
    /\ QueueRefresh(s)
    /\ UNCHANGED <<spent, timer, served, todo, age, missed, restarts, failures>>

\* A reload that changes no source still makes Run start a new timer.
Restart ==
    /\ \A s \in Sources : restarts[s] < MaxRestarts
    /\ timer' = Interval
    /\ restarts' = [s \in Sources |-> restarts[s] + 1]
    /\ UNCHANGED <<line, spent, served, todo, age, waited, missed, failures>>

-----------------------------------------------------------------------------
(* Refreshing *)

\* The first in line leaves it, and the next one is read.
Release ==
    /\ line # <<>>
    /\ line' = Tail(line)
    /\ spent' = 0
    /\ UNCHANGED <<timer, todo, waited>>

\* The snapshot is complete within the timeout and replaces the previous one.  refresh
\* dates it when it is published, however long the read took.
Succeed ==
    /\ Release
    /\ served' = served \cup {Head(line)}
    /\ age' = [age EXCEPT ![Head(line)] = 0]
    /\ missed' = [missed EXCEPT ![Head(line)] = 0]
    /\ restarts' = [restarts EXCEPT ![Head(line)] = 0]
    /\ UNCHANGED failures

\* The read fails or times out: the snapshot and its age stay as they are.
Fail ==
    /\ failures < MaxFailures
    /\ failures' = failures + 1
    /\ Release
    /\ missed' = [missed EXCEPT ![Head(line)] = @ + 1]
    /\ UNCHANGED <<served, age, restarts>>

-----------------------------------------------------------------------------
(* Time *)

\* Seeded fault: a read is not cancelled when its time is up.
TickPastTimeout ==
    /\ todo = {} /\ timer > 0
    /\ timer' = timer - 1
    /\ spent' = IF line # <<>> THEN spent + 1 ELSE 0
    /\ age' = [s \in Sources |-> age[s] + 1]
    /\ waited' = [s \in Sources |-> IF s \in InLine THEN waited[s] + 1 ELSE 0]
    /\ UNCHANGED <<line, served, todo, missed, restarts, failures>>

\* Neither the timer nor the timeout of a read is overrun.
Tick ==
    /\ todo = {} /\ timer > 0
    /\ line # <<>> => spent < Timeout
    /\ timer' = timer - 1
    /\ spent' = IF line # <<>> THEN spent + 1 ELSE 0
    /\ age' = [s \in Sources |-> age[s] + 1]
    /\ waited' = [s \in Sources |-> IF s \in InLine THEN waited[s] + 1 ELSE 0]
    /\ UNCHANGED <<line, served, todo, missed, restarts, failures>>

-----------------------------------------------------------------------------
(* Specification *)

\* Run has just been called.
Init ==
    /\ line = <<>> /\ spent = 0
    /\ timer = Interval
    /\ served = {}
    /\ todo = Sources
    /\ age = [s \in Sources |-> 0]
    /\ waited = [s \in Sources |-> 0]
    /\ missed = [s \in Sources |-> 0]
    /\ restarts = [s \in Sources |-> 0]
    /\ failures = 0

Next ==
    \/ TimerFires \/ Restart \/ Succeed \/ Fail \/ Tick
    \/ \E s \in Sources : QueueNext(s) \/ Request(s)

Spec == Init /\ [][Next]_vars

-----------------------------------------------------------------------------
(* Properties *)

\* What the variables hold.
TypeOK ==
    /\ line \in Seq(Sources)
    /\ spent \in 0..Timeout
    /\ timer \in 0..Interval
    /\ served \subseteq Sources /\ todo \subseteq Sources
    /\ age \in [Sources -> Nat]
    /\ waited \in [Sources -> Nat]
    /\ missed \in [Sources -> Nat]
    /\ restarts \in [Sources -> Nat]
    /\ failures \in Nat

\* The time for which every source can be read once.
Round == Cardinality(Sources) * Timeout

\* A refresh that was accepted is over within one round, however many others
\* are asked for meanwhile.
ServedWithinRound == \A s \in InLine : waited[s] <= Round

\* The longest a snapshot can have to last when nothing goes wrong.
Cycle == Interval + Round

\* A snapshot is never older than one cycle, plus one cycle for each refresh that
\* failed since it was published, plus one interval for each reload since then; and
\* a source has its first snapshot by the same time after the start.
FreshEnough ==
    \A s \in Sources :
        age[s] <= (missed[s] + 1) * Cycle + restarts[s] * Interval
=============================================================================

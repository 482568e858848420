--------------------------- MODULE CatalogRefresh ---------------------------
(***************************************************************************)
(* The refresh side of internal/service: what keeps one complete snapshot  *)
(* per configured catalog source up to date.                               *)
(*                                                                         *)
(* Refreshes are asked for by the scheduler (Run), by a configuration      *)
(* reload (Reload) and by the two POST endpoints, all through              *)
(* QueueRefresh, which marks the source queued and starts a goroutine.     *)
(* The goroutines take turns on a semaphore of capacity one.  The holder   *)
(* claims its source, reads the reader settings, builds a snapshot with no *)
(* lock held, and publishes it only if its source is still configured.     *)
(* Every section under Service.mu is one action, so a reload, a request or *)
(* the shutdown can come between any two of them.                          *)
(***************************************************************************)
EXTENDS Naturals, FiniteSets

CONSTANTS
    IDs,            \* source identifiers (catalog.Source.ID)
    Images,         \* the rest of a source: image and platform
    Readers,        \* signature policy and parse concurrency
    Configs,        \* the validated configurations that can be loaded
    Workers,        \* the goroutines that can exist at the same time
    DirectSources,  \* the sources that callers pass to Service.Refresh
    MaxReloads,     \* bound: how many configurations are loaded after the first
    None

Config    == [sources : [IDs -> Images \cup {None}], reader : Readers]
Snapshot  == [image : Images, reader : Readers, version : 0..MaxReloads]
Status    == [image : Images, available : BOOLEAN, refreshing : BOOLEAN, error : BOOLEAN]
Contexts  == {"background", "run", "caller"}
Job       == [id : IDs, ctx : Contexts, image : Images \cup {None},
              reader : Readers \cup {None}, version : 0..MaxReloads]
Callers   == {"run", "reload", "http"}

ASSUME NoneAssumption    == None \notin Images \cup Readers \cup Snapshot \cup Status \cup Job
ASSUME ConfigsAssumption == Configs \subseteq Config
ASSUME DirectAssumption  == DirectSources \subseteq [id : IDs, image : Images]
ASSUME BoundAssumption   == MaxReloads \in Nat

VARIABLES
    cfg,         \* Service.cfg
    snapshots,   \* Service.snapshots
    statuses,    \* Service.statuses
    queued,      \* Service.queued, as the set of ids that map to true
    running,     \* Service.running, likewise
    sem,         \* how many tokens Service.refreshSem holds
    pc,          \* what each goroutine does next
    job,         \* the arguments and locals of each goroutine
    contextSet,  \* Run has stored Service.runContext
    stopped,     \* the context given to Run is done
    runLoop,     \* where Run is
    todo,        \* ids that Run, Reload and refreshAllHTTP still have to queue
    reloads      \* how many configurations Reload has applied

vars == <<cfg, snapshots, statuses, queued, running, sem, pc, job,
          contextSet, stopped, runLoop, todo, reloads>>

Store == INSTANCE CatalogStore WITH version <- reloads

-----------------------------------------------------------------------------
(* Sources and statuses *)

\* Goroutines that hold the semaphore, and those inside refresh.
Refreshing == {"attempt", "settings", "reading", "publish", "fail"}
Holding    == {"claim", "unconfigured", "finish", "requeue", "release"} \cup Refreshing

Configured == {id \in IDs : cfg.sources[id] # None}

\* currentSourceLocked: the source a goroutine works for is configured as it is.
Current(w) == cfg.sources[job[w].id] = job[w].image

\* The status a handler updates: the zero value when there is none yet.
StatusFor(id, image) ==
    IF statuses[id] = None
    THEN [image |-> image, available |-> FALSE, refreshing |-> FALSE, error |-> FALSE]
    ELSE [statuses[id] EXCEPT !.image = image]

InProgress(id) == id \in running \cup queued

\* The context of goroutine w is done: only the one given to Run ends.
Cancelled(w) == job[w].ctx = "run" /\ stopped

Goto(w, label) == pc' = [pc EXCEPT ![w] = label]

-----------------------------------------------------------------------------
(* Asking for a refresh *)

\* Start a goroutine whose only local so far is where its source comes from.
Spawn(w, id, ctx, image, pcs) ==
    /\ pc[w] = "idle"
    /\ pc' = [pcs EXCEPT ![w] = "waiting"]
    /\ job' = [job EXCEPT ![w] = [id |-> id, ctx |-> ctx, image |-> image,
                                  reader |-> None, version |-> 0]]

\* QueueRefresh(id), for a caller whose own step leads to the labels pcs: a
\* source that is not configured, running or already queued changes nothing.
QueueRefresh(id, pcs) ==
    \/ /\ id \notin Configured \/ InProgress(id)
       /\ pc' = pcs
       /\ UNCHANGED <<statuses, queued, job>>
    \/ /\ id \in Configured /\ ~InProgress(id)
       /\ queued' = queued \cup {id}
       /\ statuses' = [statuses EXCEPT ![id] =
                         [StatusFor(id, cfg.sources[id]) EXCEPT !.refreshing = TRUE]]
       /\ \E w \in Workers :
             Spawn(w, id, IF contextSet THEN "run" ELSE "background", None, pcs)

\* One turn of the loop that calls QueueRefresh for each id collected before.
QueueNext(caller) ==
    \E id \in todo[caller] :
        /\ QueueRefresh(id, pc)
        /\ todo' = [todo EXCEPT ![caller] = @ \ {id}]
        /\ UNCHANGED <<cfg, snapshots, running, sem, contextSet, stopped, runLoop, reloads>>

\* Run stores its context, queues everything, then waits for its timer, and
\* queues everything each time it fires, until the context is done.
StartRun ==
    /\ runLoop = "start"
    /\ contextSet' = TRUE
    /\ runLoop' = "queue"
    /\ UNCHANGED <<cfg, snapshots, statuses, queued, running, sem, pc, job,
                   stopped, todo, reloads>>

\* queueAll collects the ids under a read lock and queues them afterwards.
QueueAll ==
    /\ runLoop = "queue"
    /\ todo' = [todo EXCEPT !["run"] = Configured]
    /\ runLoop' = "select"
    /\ UNCHANGED <<cfg, snapshots, statuses, queued, running, sem, pc, job,
                   contextSet, stopped, reloads>>

\* The refresh interval has passed.
TimerFires ==
    /\ runLoop = "select" /\ todo["run"] = {}
    /\ runLoop' = "queue"
    /\ UNCHANGED <<cfg, snapshots, statuses, queued, running, sem, pc, job,
                   contextSet, stopped, todo, reloads>>

\* Run returns when its context is done.
RunExits ==
    /\ runLoop = "select" /\ todo["run"] = {} /\ stopped
    /\ runLoop' = "exited"
    /\ UNCHANGED <<cfg, snapshots, statuses, queued, running, sem, pc, job,
                   contextSet, stopped, todo, reloads>>

\* The two POST endpoints, for one authorised request at a time.
RefreshOneHTTP(id) ==
    /\ todo["http"] = {} /\ id \in Configured
    /\ todo' = [todo EXCEPT !["http"] = {id}]
    /\ UNCHANGED <<cfg, snapshots, statuses, queued, running, sem, pc, job,
                   contextSet, stopped, runLoop, reloads>>

\* POST to all catalogs collects the ids first, as queueAll does.
RefreshAllHTTP ==
    /\ todo["http"] = {}
    /\ todo' = [todo EXCEPT !["http"] = Configured]
    /\ UNCHANGED <<cfg, snapshots, statuses, queued, running, sem, pc, job,
                   contextSet, stopped, runLoop, reloads>>

\* Refresh(ctx, source): a caller's own goroutine, with its own context.
DirectRefresh(w, source) ==
    /\ Spawn(w, source.id, "caller", source.image, pc)
    /\ UNCHANGED <<cfg, snapshots, statuses, queued, running, sem, contextSet,
                   stopped, runLoop, todo, reloads>>

-----------------------------------------------------------------------------
(* Configuration *)

\* sourceChanges: ids of next that are new or no longer mean the same source.
SourceChanges(next) ==
    {id \in IDs : next.sources[id] # None /\ next.sources[id] # cfg.sources[id]}

\* What survives of a map of records that name their source.
StillCurrent(entries, next) ==
    [id \in IDs |-> IF entries[id] # None /\ entries[id].image # next.sources[id]
                    THEN None ELSE entries[id]]

\* Reload: watchConfig calls it from one goroutine, so the next call comes
\* after the last id of this one was queued.
Reload(next) ==
    /\ reloads < MaxReloads
    /\ todo["reload"] = {}
    /\ cfg' = next
    /\ snapshots' = StillCurrent(snapshots, next)
    /\ statuses' = StillCurrent(statuses, next)
    /\ todo' = [todo EXCEPT !["reload"] =
                  IF next.reader # cfg.reader
                  THEN {id \in IDs : next.sources[id] # None}
                  ELSE SourceChanges(next)]
    /\ reloads' = reloads + 1
    /\ UNCHANGED <<queued, running, sem, pc, job, contextSet, stopped, runLoop>>

\* The context given to Run ends: a signal, or the HTTP server failed.
Shutdown ==
    /\ ~stopped
    /\ stopped' = TRUE
    /\ UNCHANGED <<cfg, snapshots, statuses, queued, running, sem, pc, job,
                   contextSet, runLoop, todo, reloads>>

-----------------------------------------------------------------------------
(* One goroutine: refreshQueued, Refresh and refresh *)

\* Seeded fault: a semaphore with room for two refreshes.
AcquireOneOfTwo(w) ==
    /\ pc[w] = "waiting"
    /\ sem < 2
    /\ sem' = sem + 1
    /\ Goto(w, IF job[w].ctx = "caller" THEN "attempt" ELSE "claim")
    /\ UNCHANGED <<cfg, snapshots, statuses, queued, running, job, contextSet,
                   stopped, runLoop, todo, reloads>>

\* The semaphore is taken by whoever the channel serves next.
Acquire(w) ==
    /\ pc[w] = "waiting"
    /\ sem = 0
    /\ sem' = sem + 1
    /\ Goto(w, IF job[w].ctx = "caller" THEN "attempt" ELSE "claim")
    /\ UNCHANGED <<cfg, snapshots, statuses, queued, running, job, contextSet,
                   stopped, runLoop, todo, reloads>>

\* Seeded fault: the status keeps saying that the source is refreshing.
FinishQueuedSilently(w, label) ==
    /\ queued' = queued \ {job[w].id}
    /\ running' = running \ {job[w].id}
    /\ Goto(w, label)
    /\ job' = [job EXCEPT ![w] = IF label = "idle" THEN None ELSE @]
    /\ UNCHANGED statuses

\* finishQueued(id), for goroutine w that goes on to label.
FinishQueued(w, label) ==
    LET id == job[w].id IN
    /\ queued' = queued \ {id}
    /\ running' = running \ {id}
    /\ statuses' = IF statuses[id] = None THEN statuses
                   ELSE [statuses EXCEPT ![id].refreshing = FALSE]
    /\ Goto(w, label)
    /\ job' = [job EXCEPT ![w] = IF label = "idle" THEN None ELSE @]

\* Seeded fault: the token is given back by a goroutine that never took it.
GiveUpReleasing(w) ==
    /\ pc[w] = "waiting"
    /\ Cancelled(w)
    /\ FinishQueued(w, "idle")
    /\ sem' = sem - 1
    /\ UNCHANGED <<cfg, snapshots, contextSet, stopped, runLoop, todo, reloads>>

\* The context ends before the semaphore is free.
GiveUp(w) ==
    /\ pc[w] = "waiting"
    /\ \/ Cancelled(w) /\ FinishQueued(w, "idle")
       \/ /\ job[w].ctx = "caller"
          /\ Goto(w, "idle")
          /\ job' = [job EXCEPT ![w] = None]
          /\ UNCHANGED <<statuses, queued, running>>
    /\ UNCHANGED <<cfg, snapshots, sem, contextSet, stopped, runLoop, todo, reloads>>

\* The source is looked up when its turn comes, not when it was queued.
Claim(w) ==
    LET id == job[w].id IN
    /\ pc[w] = "claim"
    /\ queued' = queued \ {id}
    /\ IF id \in Configured
       THEN /\ running' = running \cup {id}
            /\ job' = [job EXCEPT ![w].image = cfg.sources[id]]
            /\ Goto(w, "attempt")
       ELSE /\ Goto(w, "unconfigured")
            /\ UNCHANGED <<running, job>>
    /\ UNCHANGED <<cfg, snapshots, statuses, sem, contextSet, stopped, runLoop,
                   todo, reloads>>

\* Seeded fault: this return does not give the semaphore back.
FinishUnconfiguredLeaking(w) ==
    /\ pc[w] = "unconfigured"
    /\ FinishQueued(w, "idle")
    /\ UNCHANGED <<cfg, snapshots, sem, contextSet, stopped, runLoop, todo, reloads>>

\* The source was not found: another section under the lock cleans up.
FinishUnconfigured(w) ==
    /\ pc[w] = "unconfigured"
    /\ FinishQueued(w, "release")
    /\ UNCHANGED <<cfg, snapshots, sem, contextSet, stopped, runLoop, todo, reloads>>

\* markAttempt: the status names the attempt, if the source is still configured.
MarkAttempt(w) ==
    LET id == job[w].id IN
    /\ pc[w] = "attempt"
    /\ statuses' = IF ~Current(w) THEN statuses
                   ELSE [statuses EXCEPT ![id] =
                           [StatusFor(id, job[w].image) EXCEPT !.refreshing = InProgress(id)]]
    /\ Goto(w, "settings")
    /\ UNCHANGED <<cfg, snapshots, queued, running, sem, job, contextSet, stopped,
                   runLoop, todo, reloads>>

\* The reader settings are copied under a read lock of their own.
ReadSettings(w) ==
    /\ pc[w] = "settings"
    /\ job' = [job EXCEPT ![w].reader = cfg.reader, ![w].version = reloads]
    /\ Goto(w, "reading")
    /\ UNCHANGED <<cfg, snapshots, statuses, queued, running, sem, contextSet,
                   stopped, runLoop, todo, reloads>>

\* Pulling, verifying and parsing the image, then the look at the context.
ReadSucceeds(w) ==
    /\ pc[w] = "reading"
    /\ ~Cancelled(w)
    /\ Goto(w, "publish")
    /\ UNCHANGED <<cfg, snapshots, statuses, queued, running, sem, job, contextSet,
                   stopped, runLoop, todo, reloads>>

\* The read fails, times out, or its context is done.
ReadFails(w) ==
    /\ pc[w] = "reading"
    /\ Goto(w, "fail")
    /\ UNCHANGED <<cfg, snapshots, statuses, queued, running, sem, job, contextSet,
                   stopped, runLoop, todo, reloads>>

\* Where a goroutine goes after refresh has returned.
AfterRefresh(w) == IF job[w].ctx = "caller" THEN "release" ELSE "finish"

\* Seeded fault: the source is not compared with the configuration again.
PublishUnchecked(w) ==
    LET id == job[w].id IN
    /\ pc[w] = "publish"
    /\ snapshots' = [snapshots EXCEPT ![id] =
                        [image |-> job[w].image, reader |-> job[w].reader,
                         version |-> job[w].version]]
    /\ statuses' = [statuses EXCEPT ![id] =
                       [image |-> job[w].image, available |-> TRUE,
                        refreshing |-> InProgress(id), error |-> FALSE]]
    /\ Goto(w, AfterRefresh(w))
    /\ UNCHANGED <<cfg, queued, running, sem, job, contextSet, stopped, runLoop,
                   todo, reloads>>

\* The complete snapshot is published only if its source is still configured.
Publish(w) ==
    LET id == job[w].id IN
    /\ pc[w] = "publish"
    /\ IF Current(w)
       THEN /\ snapshots' = [snapshots EXCEPT ![id] =
                               [image |-> job[w].image, reader |-> job[w].reader,
                                version |-> job[w].version]]
            /\ statuses' = [statuses EXCEPT ![id] =
                              [image |-> job[w].image, available |-> TRUE,
                               refreshing |-> InProgress(id), error |-> FALSE]]
       ELSE UNCHANGED <<snapshots, statuses>>
    /\ Goto(w, AfterRefresh(w))
    /\ UNCHANGED <<cfg, queued, running, sem, job, contextSet, stopped, runLoop,
                   todo, reloads>>

\* Seeded fault: a failed refresh drops the snapshot that was being served.
MarkFailureDropping(w) ==
    LET id == job[w].id IN
    /\ pc[w] = "fail"
    /\ IF Current(w)
       THEN /\ snapshots' = [snapshots EXCEPT ![id] = None]
            /\ statuses' = [statuses EXCEPT ![id] =
                              [image |-> job[w].image, available |-> FALSE,
                               refreshing |-> InProgress(id), error |-> TRUE]]
       ELSE UNCHANGED <<snapshots, statuses>>
    /\ Goto(w, AfterRefresh(w))
    /\ UNCHANGED <<cfg, queued, running, sem, job, contextSet, stopped,
                   runLoop, todo, reloads>>

\* markFailure: the error is recorded, what is being served stays.
MarkFailure(w) ==
    LET id == job[w].id IN
    /\ pc[w] = "fail"
    /\ statuses' = IF ~Current(w) THEN statuses
                   ELSE [statuses EXCEPT ![id] =
                           [image |-> job[w].image, available |-> snapshots[id] # None,
                            refreshing |-> InProgress(id), error |-> TRUE]]
    /\ Goto(w, AfterRefresh(w))
    /\ UNCHANGED <<cfg, snapshots, queued, running, sem, job, contextSet, stopped,
                   runLoop, todo, reloads>>

\* The refresh is over, whatever came of it.
ClearRunning(w) ==
    LET id == job[w].id IN
    /\ pc[w] = "finish"
    /\ running' = running \ {id}
    /\ statuses' = IF statuses[id] = None THEN statuses
                   ELSE [statuses EXCEPT ![id].refreshing = FALSE]
    /\ UNCHANGED <<cfg, snapshots, queued, sem, job, contextSet, stopped, runLoop,
                   todo, reloads>>

\* Seeded fault: the source is not compared with the configuration again.
FinishRefreshOnce(w) == ClearRunning(w) /\ Goto(w, "release")

\* The last section of refreshQueued: if the source is no longer the one that
\* was read, its id is queued again before the semaphore is given back.
FinishRefresh(w) ==
    /\ ClearRunning(w)
    /\ Goto(w, IF Current(w) THEN "release" ELSE "requeue")

\* QueueRefresh for the source that changed meanwhile.
Requeue(w) ==
    /\ pc[w] = "requeue"
    /\ QueueRefresh(job[w].id, [pc EXCEPT ![w] = "release"])
    /\ UNCHANGED <<cfg, snapshots, running, sem, contextSet, stopped, runLoop,
                   todo, reloads>>

\* The deferred receive gives the semaphore back.
Release(w) ==
    /\ pc[w] = "release"
    /\ sem' = sem - 1
    /\ Goto(w, "idle")
    /\ job' = [job EXCEPT ![w] = None]
    /\ UNCHANGED <<cfg, snapshots, statuses, queued, running, contextSet, stopped,
                   runLoop, todo, reloads>>

-----------------------------------------------------------------------------
(* Specification *)

Init ==
    /\ cfg \in Configs
    /\ snapshots = [id \in IDs |-> None]
    /\ statuses = [id \in IDs |-> None]
    /\ queued = {} /\ running = {}
    /\ sem = 0
    /\ pc = [w \in Workers |-> "idle"]
    /\ job = [w \in Workers |-> None]
    /\ contextSet = FALSE /\ stopped = FALSE
    /\ runLoop = "start"
    /\ todo = [caller \in Callers |-> {}]
    /\ reloads = 0

\* What goroutine w does once it holds the semaphore.
Work(w) ==
    \/ Claim(w) \/ FinishUnconfigured(w)
    \/ MarkAttempt(w) \/ ReadSettings(w)
    \/ ReadSucceeds(w) \/ ReadFails(w)
    \/ Publish(w) \/ MarkFailure(w)
    \/ FinishRefresh(w) \/ Requeue(w) \/ Release(w)

Scheduler == StartRun \/ QueueAll \/ TimerFires \/ RunExits

Requests ==
    \/ RefreshAllHTTP
    \/ \E id \in IDs : RefreshOneHTTP(id)
    \/ \E w \in Workers, source \in DirectSources : DirectRefresh(w, source)

Next ==
    \/ Scheduler \/ Requests \/ Shutdown
    \/ \E next \in Configs : Reload(next)
    \/ \E caller \in Callers : QueueNext(caller)
    \/ \E w \in Workers : Acquire(w) \/ GiveUp(w) \/ Work(w)

Spec == Init /\ [][Next]_vars

\* What goroutine w does without waiting for another one.
Proceeds(w) == Work(w) \/ (pc[w] = "waiting" /\ Cancelled(w) /\ GiveUp(w))

\* Goroutines that can run do run, and those blocked on the channel are served
\* in the order they came, so none is passed over for ever.  Nothing is
\* assumed of the timer, of requests, of reloads or of the shutdown.
Fairness ==
    /\ WF_vars(StartRun \/ QueueAll)
    /\ \A caller \in Callers : WF_vars(QueueNext(caller))
    /\ \A w \in Workers : WF_vars(Proceeds(w)) /\ SF_vars(Acquire(w))

FairSpec == Spec /\ Fairness

-----------------------------------------------------------------------------
(* Safety *)

\* What the variables hold between any two sections under Service.mu.
TypeOK ==
    /\ cfg \in Configs
    /\ snapshots \in [IDs -> Snapshot \cup {None}]
    /\ statuses \in [IDs -> Status \cup {None}]
    /\ queued \subseteq IDs /\ running \subseteq IDs
    /\ sem \in Nat
    /\ pc \in [Workers -> {"idle", "waiting"} \cup Holding]
    /\ job \in [Workers -> Job \cup {None}]
    /\ contextSet \in BOOLEAN /\ stopped \in BOOLEAN
    /\ runLoop \in {"start", "queue", "select", "exited"}
    /\ todo \in [Callers -> SUBSET IDs]
    /\ reloads \in 0..MaxReloads

\* Two refreshes never overlap, whoever asked for them: the comment on refresh
\* relies on it ("Callers hold refreshSem so an older catalog refresh cannot
\* replace a newer one").
OneRefreshAtATime ==
    \A v, w \in Workers : pc[v] \in Refreshing /\ pc[w] \in Refreshing => v = w

\* The maps under Service.mu agree with each other between any two sections: a
\* status or snapshot belongs to the source that is configured now, and a
\* status says available exactly when there is a snapshot to serve.
BookkeepingAgrees ==
    \A id \in IDs :
        /\ snapshots[id] # None => statuses[id] # None
        /\ statuses[id] # None =>
              /\ statuses[id].image = cfg.sources[id]
              /\ statuses[id].available <=> snapshots[id] # None
        /\ snapshots[id] # None => snapshots[id].image = cfg.sources[id]

\* No refresh state is left behind without a goroutine that will clear it: a
\* queued id has one waiting for its turn, a running id has one refreshing it,
\* and a source reported as refreshing is queued or running.  Otherwise
\* QueueRefresh would answer "queued" or "running" for ever and the source
\* would never be read again.
QueuedHasGoroutine ==
    \A id \in queued : \E w \in Workers :
        pc[w] \in {"waiting", "claim"} /\ job[w].id = id /\ job[w].ctx # "caller"

\* A running id has the goroutine that is refreshing it.
RunningHasGoroutine ==
    \A id \in running : \E w \in Workers :
        pc[w] \in Refreshing \cup {"finish"} /\ job[w].id = id /\ job[w].ctx # "caller"

\* A source that its status reports as refreshing is queued or running.
ReportedInProgress ==
    \A id \in IDs : statuses[id] # None /\ statuses[id].refreshing => InProgress(id)

\* The three together: nothing is left in progress that nobody works on.
NothingStuck == QueuedHasGoroutine /\ RunningHasGoroutine /\ ReportedInProgress

\* The store that readers see is the one CatalogStore promises.
StoreImplemented == Store!StoreSpec

\* A source that is configured but has no snapshot is either waiting for a
\* refresh, being read, about to be queued, or failed its last refresh: a
\* reload never loses it until the next scheduled refresh.
NoSourceForgotten ==
    \A id \in Configured :
        \/ snapshots[id] # None
        \/ statuses[id] # None /\ statuses[id].error
        \/ \E caller \in Callers : id \in todo[caller]
        \/ \E w \in Workers : pc[w] \in Holding \cup {"waiting"} /\ job[w].id = id
        \/ runLoop \in {"start", "queue"}
        \/ stopped

-----------------------------------------------------------------------------
(* Liveness *)

\* Every accepted refresh gets its turn and ends, whether its source is still
\* there or not and whether the service is being stopped or not: no id stays
\* queued or running, so the next schedule or request finds it free.
RefreshesEnd == \A id \in IDs : InProgress(id) ~> ~InProgress(id)

-----------------------------------------------------------------------------
(* What the documentation says and the code does not do *)

\* docs/API.md: "A source already queued or running is not duplicated."
NoDuplicateJobs ==
    \A v, w \in Workers :
        /\ pc[v] \in {"waiting", "claim", "finish"} \cup Refreshing
        /\ pc[w] \in {"waiting", "claim", "finish"} \cup Refreshing
        /\ job[v].ctx # "caller" /\ job[w].ctx # "caller"
        /\ job[v].id = job[w].id
        => v = w
=============================================================================

------------------------ MODULE CatalogRefreshProofs ------------------------
(***************************************************************************)
(* Theorems about CatalogRefresh for every set of sources, images,         *)
(* settings, configurations and goroutines.                                *)
(***************************************************************************)
EXTENDS CatalogRefresh, TLAPS

-----------------------------------------------------------------------------
(* The inductive invariant *)

\* A goroutine that is not idle has its locals, and a source once it refreshes;
\* only refreshQueued claims.
JobOK ==
    \A w \in Workers :
        /\ pc[w] # "idle" => job[w] \in Job
        /\ pc[w] = "waiting" /\ job[w].ctx = "caller" => job[w].image \in Images
        /\ pc[w] \in Refreshing \cup {"finish", "requeue"} => job[w].image \in Images
        /\ pc[w] \in {"reading", "publish"} => job[w].reader \in Readers
        /\ pc[w] = "claim" => job[w].ctx # "caller"

\* The semaphore holds a token while some goroutine is past Acquire, and only
\* one goroutine is.
OneHolder ==
    /\ sem \in {0, 1}
    /\ \A w \in Workers : pc[w] \in Holding => sem = 1
    /\ \A v, w \in Workers : pc[v] \in Holding /\ pc[w] \in Holding => v = w

\* No snapshot was read with settings from the future, and none with settings
\* later than those of the goroutine that is about to replace it.
VersionsInOrder ==
    /\ \A w \in Workers : pc[w] \in {"reading", "publish"} => job[w].version <= reloads
    /\ \A id \in IDs : snapshots[id] # None =>
          /\ snapshots[id].version <= reloads
          /\ \A w \in Workers : pc[w] \in {"reading", "publish"} =>
                snapshots[id].version <= job[w].version

Types == TypeOK /\ JobOK

-----------------------------------------------------------------------------
(* Types *)

\* The flag that statuses copy is a Boolean.
LEMMA InProgressBoolean == \A id \in IDs : InProgress(id) \in BOOLEAN
  BY DEF InProgress

\* A new goroutine has well-typed locals.
LEMMA SpawnTypes ==
    ASSUME Types, NEW w \in Workers, NEW id \in IDs, NEW ctx \in Contexts,
           NEW image \in Images \cup {None},
           NEW pcs \in [Workers -> {"idle", "waiting"} \cup Holding],
           Spawn(w, id, ctx, image, pcs)
    PROVE  /\ pc' = [pcs EXCEPT ![w] = "waiting"]
           /\ pc' \in [Workers -> {"idle", "waiting"} \cup Holding]
           /\ job' \in [Workers -> Job \cup {None}]
           /\ job'[w] = [id |-> id, ctx |-> ctx, image |-> image, reader |-> None, version |-> 0]
           /\ job'[w] \in Job
           /\ \A v \in Workers \ {w} : job'[v] = job[v]
  BY BoundAssumption DEF Types, TypeOK, Spawn, Job

\* What QueueRefresh may do to goroutines: nothing, or start one that was idle.
LEMMA QueueRefreshTypes ==
    ASSUME Types, NEW id \in IDs,
           NEW pcs \in [Workers -> {"idle", "waiting"} \cup Holding],
           QueueRefresh(id, pcs)
    PROVE  /\ pc' \in [Workers -> {"idle", "waiting"} \cup Holding]
           /\ job' \in [Workers -> Job \cup {None}]
           /\ queued' \subseteq IDs
           /\ statuses' \in [IDs -> Status \cup {None}]
           /\ \A w \in Workers :
                 \/ pc'[w] = pcs[w] /\ job'[w] = job[w]
                 \/ /\ pc[w] = "idle" /\ pc'[w] = "waiting"
                    /\ job'[w] \in Job /\ job'[w].id = id /\ job'[w].ctx # "caller"
  <1>1. CASE id \notin Configured \/ InProgress(id)
    BY <1>1 DEF QueueRefresh, Types, TypeOK
  <1>2. CASE id \in Configured /\ ~InProgress(id)
    <2>1. /\ queued' = queued \cup {id}
          /\ statuses' = [statuses EXCEPT ![id] =
                            [StatusFor(id, cfg.sources[id]) EXCEPT !.refreshing = TRUE]]
      BY <1>2 DEF QueueRefresh
    <2>. DEFINE ctx == IF contextSet THEN "run" ELSE "background"
    <2>2. PICK w \in Workers : Spawn(w, id, ctx, None, pcs)
      BY <1>2 DEF QueueRefresh
    <2>3. cfg.sources[id] \in Images
      BY <1>2, ConfigsAssumption DEF Types, TypeOK, Configured, Config
    <2>4. StatusFor(id, cfg.sources[id]) \in Status
      BY <2>3 DEF StatusFor, Types, TypeOK, Status
    <2>5. statuses' \in [IDs -> Status \cup {None}]
      BY <2>1, <2>4 DEF Types, TypeOK, Status
    <2>6. ctx \in Contexts \ {"caller"}
      BY DEF Contexts
    <2>. HIDE DEF ctx
    <2>7. /\ pc' = [pcs EXCEPT ![w] = "waiting"]
          /\ pc' \in [Workers -> {"idle", "waiting"} \cup Holding]
          /\ job' \in [Workers -> Job \cup {None}]
          /\ job'[w] \in Job /\ job'[w].id = id /\ job'[w].ctx # "caller"
          /\ \A v \in Workers \ {w} : job'[v] = job[v]
      <3>1. ctx \in Contexts /\ None \in Images \cup {None}
        BY <2>6
      <3>2. job'[w] = [id |-> id, ctx |-> ctx, image |-> None, reader |-> None, version |-> 0]
        BY <2>2, <3>1, SpawnTypes
      <3>. QED BY <2>2, <2>6, <3>1, <3>2, SpawnTypes
    <2>8. pc[w] = "idle"
      BY <2>2 DEF Spawn
    <2>. QED BY <2>1, <2>5, <2>7, <2>8 DEF Types, TypeOK
  <1>. QED BY <1>1, <1>2

\* Steps of a goroutine that holds the semaphore leave the others alone.
LEMMA OthersKeepTheirPlace ==
    ASSUME Types, NEW w \in Workers, NEW label \in {"idle", "waiting"} \cup Holding,
           Goto(w, label)
    PROVE  /\ pc' \in [Workers -> {"idle", "waiting"} \cup Holding]
           /\ pc'[w] = label
           /\ \A v \in Workers \ {w} : pc'[v] = pc[v]
  BY DEF Goto, Types, TypeOK

\* The service starts with empty maps and no goroutine.
THEOREM TypesInit == Init => Types
  <1>. SUFFICES ASSUME Init PROVE Types
    OBVIOUS
  <1>1. /\ snapshots \in [IDs -> Snapshot \cup {None}]
        /\ statuses \in [IDs -> Status \cup {None}]
        /\ pc \in [Workers -> {"idle", "waiting"} \cup Holding]
        /\ job \in [Workers -> Job \cup {None}]
        /\ todo \in [Callers -> SUBSET IDs]
    BY DEF Init
  <1>2. TypeOK
    <2>1. /\ cfg \in Configs /\ queued = {} /\ running = {} /\ sem = 0
          /\ contextSet = FALSE /\ stopped = FALSE /\ runLoop = "start"
      BY DEF Init
    <2>2. reloads \in 0..MaxReloads
      BY BoundAssumption DEF Init
    <2>. QED BY <1>1, <2>1, <2>2 DEF TypeOK
  <1>3. JobOK
    BY DEF Init, JobOK, Refreshing
  <1>. QED BY <1>2, <1>3 DEF Types

\* Every step keeps the types.
LEMMA TypesNext == Types /\ OneHolder /\ [Next]_vars => Types'
  <1>. SUFFICES ASSUME Types, OneHolder, [Next]_vars
                PROVE  Types'
    OBVIOUS
  <1>. USE DEF Types
  <1>1. CASE Scheduler
    BY <1>1 DEF Scheduler, StartRun, QueueAll, TimerFires, RunExits, TypeOK, JobOK,
                Configured, Callers
  <1>2. CASE RefreshAllHTTP \/ \E id \in IDs : RefreshOneHTTP(id)
    BY <1>2 DEF RefreshAllHTTP, RefreshOneHTTP, TypeOK, JobOK, Configured, Callers
  <1>3. ASSUME NEW w \in Workers, NEW source \in DirectSources, DirectRefresh(w, source)
        PROVE  Types'
    <2>1. source.id \in IDs /\ source.image \in Images
      BY DirectAssumption
    <2>2. Spawn(w, source.id, "caller", source.image, pc)
      BY <1>3 DEF DirectRefresh
    <2>3. /\ pc' = [pc EXCEPT ![w] = "waiting"]
          /\ pc' \in [Workers -> {"idle", "waiting"} \cup Holding]
          /\ job' \in [Workers -> Job \cup {None}]
          /\ job'[w] \in Job /\ job'[w].image = source.image
          /\ \A v \in Workers \ {w} : job'[v] = job[v]
      <3>. DEFINE id == source.id  image == source.image
      <3>1. /\ "caller" \in Contexts /\ id \in IDs /\ image \in Images \cup {None}
            /\ pc \in [Workers -> {"idle", "waiting"} \cup Holding]
            /\ Spawn(w, id, "caller", image, pc)
        BY <2>1, <2>2 DEF Contexts, TypeOK
      <3>. HIDE DEF id, image
      <3>2. /\ pc' = [pc EXCEPT ![w] = "waiting"]
            /\ pc' \in [Workers -> {"idle", "waiting"} \cup Holding]
            /\ job' \in [Workers -> Job \cup {None}]
            /\ job'[w] \in Job
            /\ job'[w] = [id |-> id, ctx |-> "caller", image |-> image,
                          reader |-> None, version |-> 0]
            /\ \A v \in Workers \ {w} : job'[v] = job[v]
        BY <3>1, SpawnTypes
      <3>3. job'[w].image = image
        BY <3>2
      <3>. QED BY <3>2, <3>3 DEF image
    <2>4. TypeOK'
      BY <1>3, <2>3 DEF DirectRefresh, TypeOK
    <2>5. JobOK'
      BY <2>1, <2>3 DEF JobOK, TypeOK, Refreshing
    <2>. QED BY <2>4, <2>5
  <1>4. CASE Shutdown
    BY <1>4 DEF Shutdown, TypeOK, JobOK
  <1>5. ASSUME NEW next \in Configs, Reload(next)
        PROVE  Types'
    <2>1. snapshots' \in [IDs -> Snapshot \cup {None}] /\ statuses' \in [IDs -> Status \cup {None}]
      BY <1>5 DEF Reload, StillCurrent, TypeOK
    <2>2. todo' \in [Callers -> SUBSET IDs]
      BY <1>5 DEF Reload, SourceChanges, TypeOK
    <2>3. reloads' \in 0..MaxReloads
      BY <1>5, BoundAssumption DEF Reload, TypeOK
    <2>. QED BY <1>5, <2>1, <2>2, <2>3 DEF Reload, TypeOK, JobOK
  <1>6. ASSUME NEW caller \in Callers, QueueNext(caller)
        PROVE  Types'
    <2>1. PICK id \in IDs : /\ id \in todo[caller] /\ QueueRefresh(id, pc)
                            /\ todo' = [todo EXCEPT ![caller] = @ \ {id}]
                            /\ UNCHANGED <<cfg, snapshots, running, sem, contextSet, stopped,
                                           runLoop, reloads>>
      BY <1>6 DEF QueueNext, TypeOK
    <2>2. pc \in [Workers -> {"idle", "waiting"} \cup Holding]
      BY DEF TypeOK
    <2>3. /\ pc' \in [Workers -> {"idle", "waiting"} \cup Holding]
          /\ job' \in [Workers -> Job \cup {None}]
          /\ queued' \subseteq IDs
          /\ statuses' \in [IDs -> Status \cup {None}]
          /\ \A w \in Workers :
                \/ pc'[w] = pc[w] /\ job'[w] = job[w]
                \/ pc'[w] = "waiting" /\ job'[w] \in Job /\ job'[w].ctx # "caller"
      BY <2>1, <2>2, QueueRefreshTypes
    <2>4. TypeOK'
      BY <2>1, <2>3 DEF TypeOK
    <2>5. JobOK'
      BY <2>3 DEF JobOK, Refreshing
    <2>. QED BY <2>4, <2>5
  <1>7. ASSUME NEW w \in Workers, Acquire(w)
        PROVE  Types'
    BY <1>7 DEF Acquire, Goto, TypeOK, JobOK, Refreshing, Holding
  <1>8. ASSUME NEW w \in Workers, GiveUp(w)
        PROVE  Types'
    <2>1. job[w] \in Job
      BY <1>8 DEF GiveUp, JobOK
    <2>2. CASE FinishQueued(w, "idle")
      <3>. DEFINE id == job[w].id
      <3>1. id \in IDs
        BY <2>1 DEF Job
      <3>2. /\ queued' = queued \ {id} /\ running' = running \ {id}
            /\ statuses' = IF statuses[id] = None THEN statuses
                           ELSE [statuses EXCEPT ![id].refreshing = FALSE]
            /\ pc' = [pc EXCEPT ![w] = "idle"]
            /\ job' = [job EXCEPT ![w] = None]
        BY <2>2 DEF FinishQueued, Goto
      <3>. HIDE DEF id
      <3>3. queued' \subseteq IDs /\ running' \subseteq IDs
        BY <3>2 DEF TypeOK
      <3>4. statuses' \in [IDs -> Status \cup {None}]
        BY <3>1, <3>2 DEF TypeOK, Status
      <3>5. /\ pc' \in [Workers -> {"idle", "waiting"} \cup Holding]
            /\ job' \in [Workers -> Job \cup {None}]
        BY <3>2 DEF TypeOK
      <3>6. TypeOK'
        BY <1>8, <3>3, <3>4, <3>5 DEF GiveUp, TypeOK
      <3>7. JobOK'
        BY <3>2 DEF TypeOK, JobOK, Refreshing
      <3>. QED BY <3>6, <3>7
    <2>3. CASE ~FinishQueued(w, "idle")
      BY <1>8, <2>3 DEF GiveUp, Goto, TypeOK, JobOK, Refreshing
    <2>. QED BY <2>2, <2>3
  <1>9. ASSUME NEW w \in Workers, Work(w)
        PROVE  Types'
    <2>1. job[w] \in Job /\ job[w].id \in IDs /\ pc[w] \in Holding
      BY <1>9 DEF Work, Claim, FinishUnconfigured, MarkAttempt, ReadSettings, ReadSucceeds,
                  ReadFails, Publish, MarkFailure, FinishRefresh, ClearRunning, Requeue,
                  Release, TypeOK, JobOK, Job, Holding, Refreshing
    <2>2. CASE Claim(w)
      <3>1. job[w].id \in Configured => cfg.sources[job[w].id] \in Images
        BY <2>1, ConfigsAssumption DEF TypeOK, Configured, Config
      <3>2. job' \in [Workers -> Job \cup {None}]
        BY <2>1, <2>2, <3>1 DEF Claim, TypeOK, Job
      <3>3. TypeOK'
        BY <2>1, <2>2, <3>2 DEF Claim, Goto, TypeOK, Holding, Refreshing
      <3>4. JobOK'
        BY <2>1, <2>2, <3>1 DEF Claim, Goto, TypeOK, JobOK, Job, Holding, Refreshing
      <3>. QED BY <3>3, <3>4
    <2>3. CASE FinishUnconfigured(w)
      BY <2>1, <2>3 DEF FinishUnconfigured, FinishQueued, Goto, TypeOK, JobOK, Status,
                        Refreshing, Holding
    <2>4. CASE MarkAttempt(w)
      <3>1. job[w].image \in Images
        BY <2>4 DEF MarkAttempt, JobOK, Refreshing
      <3>2. StatusFor(job[w].id, job[w].image) \in Status
        BY <2>1, <3>1 DEF StatusFor, TypeOK, Status
      <3>3. statuses' \in [IDs -> Status \cup {None}]
        BY <2>1, <2>4, <3>2, InProgressBoolean DEF MarkAttempt, TypeOK, Status
      <3>. QED BY <2>4, <3>3 DEF MarkAttempt, Goto, TypeOK, JobOK, Refreshing, Holding
    <2>5. CASE ReadSettings(w)
      <3>1. cfg.reader \in Readers
        BY ConfigsAssumption DEF TypeOK, Config
      <3>2. job' \in [Workers -> Job \cup {None}]
        BY <2>1, <2>5, <3>1 DEF ReadSettings, TypeOK, Job
      <3>3. TypeOK'
        BY <2>5, <3>2 DEF ReadSettings, Goto, TypeOK, Holding, Refreshing
      <3>4. JobOK'
        BY <2>1, <2>5, <3>1, <3>2 DEF ReadSettings, Goto, TypeOK, JobOK, Job, Refreshing
      <3>. QED BY <3>3, <3>4
    <2>6. CASE ReadSucceeds(w) \/ ReadFails(w)
      BY <2>6 DEF ReadSucceeds, ReadFails, Goto, TypeOK, JobOK, Refreshing, Holding
    <2>7. CASE Publish(w)
      <3>1. job[w].image \in Images /\ job[w].reader \in Readers /\ job[w].version \in 0..MaxReloads
        BY <2>1, <2>7 DEF Publish, JobOK, Refreshing, Job
      <3>2. snapshots' \in [IDs -> Snapshot \cup {None}]
        BY <2>1, <2>7, <3>1 DEF Publish, TypeOK, Snapshot
      <3>3. statuses' \in [IDs -> Status \cup {None}]
        <4>. DEFINE status == [image |-> job[w].image, available |-> TRUE,
                               refreshing |-> InProgress(job[w].id), error |-> FALSE]
        <4>1. status \in Status
          BY <2>1, <3>1, InProgressBoolean DEF Status
        <4>2. statuses' = statuses \/ statuses' = [statuses EXCEPT ![job[w].id] = status]
          BY <2>7 DEF Publish
        <4>. QED BY <4>1, <4>2 DEF TypeOK
      <3>. QED BY <2>7, <3>1, <3>2, <3>3 DEF Publish, AfterRefresh, Goto, TypeOK, JobOK, Refreshing, Holding
    <2>8. CASE MarkFailure(w)
      <3>1. job[w].image \in Images
        BY <2>8 DEF MarkFailure, JobOK, Refreshing
      <3>2. statuses' \in [IDs -> Status \cup {None}]
        <4>. DEFINE status == [image |-> job[w].image,
                               available |-> snapshots[job[w].id] # None,
                               refreshing |-> InProgress(job[w].id), error |-> TRUE]
        <4>1. status \in Status
          BY <2>1, <3>1, InProgressBoolean DEF Status
        <4>2. statuses' = statuses \/ statuses' = [statuses EXCEPT ![job[w].id] = status]
          BY <2>8 DEF MarkFailure
        <4>. QED BY <4>1, <4>2 DEF TypeOK
      <3>. QED BY <2>8, <3>1, <3>2 DEF MarkFailure, AfterRefresh, Goto, TypeOK, JobOK, Refreshing, Holding
    <2>9. CASE FinishRefresh(w)
      BY <2>1, <2>9 DEF FinishRefresh, ClearRunning, Goto, TypeOK, JobOK, Status, Refreshing, Holding
    <2>10. CASE Requeue(w)
      <3>. DEFINE pcs == [pc EXCEPT ![w] = "release"]
      <3>1. pcs \in [Workers -> {"idle", "waiting"} \cup Holding]
        BY DEF TypeOK, Holding
      <3>2. QueueRefresh(job[w].id, pcs)
        BY <2>10 DEF Requeue
      <3>3. \A v \in Workers : pcs[v] = IF v = w THEN "release" ELSE pc[v]
        BY DEF TypeOK
      <3>. HIDE DEF pcs
      <3>4. /\ pc' \in [Workers -> {"idle", "waiting"} \cup Holding]
            /\ job' \in [Workers -> Job \cup {None}]
            /\ queued' \subseteq IDs
            /\ statuses' \in [IDs -> Status \cup {None}]
            /\ \A v \in Workers :
                  \/ pc'[v] = pcs[v] /\ job'[v] = job[v]
                  \/ pc'[v] = "waiting" /\ job'[v] \in Job /\ job'[v].ctx # "caller"
        BY <2>1, <3>1, <3>2, QueueRefreshTypes
      <3>5. TypeOK'
        BY <2>10, <3>4 DEF Requeue, TypeOK
      <3>6. JobOK'
        BY <2>1, <3>3, <3>4 DEF JobOK, Refreshing
      <3>. QED BY <3>5, <3>6
    <2>11. CASE Release(w)
      BY <2>1, <2>11 DEF Release, Goto, OneHolder, TypeOK, JobOK, Refreshing
    <2>. QED BY <1>9, <2>2, <2>3, <2>4, <2>5, <2>6, <2>7, <2>8, <2>9, <2>10, <2>11 DEF Work
  <1>10. CASE UNCHANGED vars
    BY <1>10 DEF vars, TypeOK, JobOK
  <1>. QED
    BY <1>1, <1>2, <1>3, <1>4, <1>5, <1>6, <1>7, <1>8, <1>9, <1>10 DEF Next, Requests

-----------------------------------------------------------------------------
(* Mutual exclusion *)

\* Where a goroutine can be.
Labels == {"idle", "waiting"} \cup Holding

\* QueueRefresh moves no goroutine but an idle one.
LEMMA QueueRefreshMoves ==
    ASSUME Types, NEW id \in IDs, NEW pcs \in [Workers -> Labels], QueueRefresh(id, pcs),
           NEW v \in Workers
    PROVE  pc'[v] = pcs[v] \/ (pc[v] = "idle" /\ pc'[v] = "waiting")
  BY QueueRefreshTypes DEF Labels

\* A working goroutine holds the semaphore until it is idle again.
LEMMA WorkMoves ==
    ASSUME Types, NEW w \in Workers, Work(w)
    PROVE  /\ pc[w] \in Holding
           /\ \A v \in Workers \ {w} : pc'[v] = pc[v] \/ (pc[v] = "idle" /\ pc'[v] = "waiting")
           /\ \/ sem' = sem /\ pc'[w] \in Holding
              \/ sem' = sem - 1 /\ pc'[w] = "idle"
  <1>. USE DEF Types, TypeOK, Goto, Holding, Refreshing
  <1>1. CASE Claim(w)
    BY <1>1 DEF Claim
  <1>2. CASE FinishUnconfigured(w)
    BY <1>2 DEF FinishUnconfigured, FinishQueued
  <1>3. CASE MarkAttempt(w) \/ ReadSettings(w) \/ ReadSucceeds(w) \/ ReadFails(w)
    BY <1>3 DEF MarkAttempt, ReadSettings, ReadSucceeds, ReadFails
  <1>4. CASE Publish(w) \/ MarkFailure(w)
    BY <1>4 DEF Publish, MarkFailure, AfterRefresh
  <1>5. CASE FinishRefresh(w) \/ Release(w)
    BY <1>5 DEF FinishRefresh, ClearRunning, Release
  <1>6. CASE Requeue(w)
    <2>. DEFINE pcs == [pc EXCEPT ![w] = "release"]
    <2>1. pcs \in [Workers -> Labels] /\ \A v \in Workers : pcs[v] = IF v = w THEN "release" ELSE pc[v]
      BY DEF Labels
    <2>2. /\ QueueRefresh(job[w].id, pcs) /\ sem' = sem /\ pc[w] = "requeue" /\ job[w].id \in IDs
      BY <1>6 DEF Requeue, JobOK, Job
    <2>. HIDE DEF pcs
    <2>3. \A v \in Workers : pc'[v] = pcs[v] \/ (pc[v] = "idle" /\ pc'[v] = "waiting")
      BY <2>1, <2>2, QueueRefreshMoves
    <2>. QED BY <2>1, <2>2, <2>3
  <1>. QED BY <1>1, <1>2, <1>3, <1>4, <1>5, <1>6 DEF Work

\* A waiting goroutine that gives up, and a new one, hold nothing.
LEMMA OtherMoves ==
    ASSUME Types, [Next]_vars
    PROVE  \/ \E w \in Workers : Acquire(w) \/ Work(w)
           \/ /\ sem' = sem
              /\ \A v \in Workers : \/ pc'[v] = pc[v]
                                    \/ pc[v] = "idle" /\ pc'[v] = "waiting"
                                    \/ pc[v] = "waiting" /\ pc'[v] = "idle"
  <1>. USE DEF Types
  <1>1. CASE Scheduler
    BY <1>1 DEF Scheduler, StartRun, QueueAll, TimerFires, RunExits
  <1>2. CASE Requests
    BY <1>2 DEF Requests, RefreshAllHTTP, RefreshOneHTTP, DirectRefresh, Spawn, TypeOK
  <1>3. CASE Shutdown \/ \E next \in Configs : Reload(next)
    BY <1>3 DEF Shutdown, Reload
  <1>4. ASSUME NEW caller \in Callers, QueueNext(caller)
        PROVE  /\ sem' = sem
               /\ \A v \in Workers : pc'[v] = pc[v] \/ (pc[v] = "idle" /\ pc'[v] = "waiting")
    <2>1. PICK id \in IDs : QueueRefresh(id, pc)
      BY <1>4 DEF QueueNext, TypeOK
    <2>2. pc \in [Workers -> Labels]
      BY DEF TypeOK, Labels
    <2>. QED BY <1>4, <2>1, <2>2, QueueRefreshMoves DEF QueueNext
  <1>5. ASSUME NEW w \in Workers, GiveUp(w)
        PROVE  /\ sem' = sem
               /\ pc[w] = "waiting" /\ pc' = [pc EXCEPT ![w] = "idle"]
    BY <1>5 DEF GiveUp, FinishQueued, Goto
  <1>6. CASE UNCHANGED vars
    BY <1>6 DEF vars
  <1>. QED BY <1>1, <1>2, <1>3, <1>4, <1>5, <1>6 DEF Next, TypeOK

\* Every step keeps at most one goroutine past the semaphore, and the token
\* with the goroutine that took it.
LEMMA OneHolderNext == Types /\ OneHolder /\ [Next]_vars => OneHolder'
  <1>. SUFFICES ASSUME Types, OneHolder, [Next]_vars
                PROVE  OneHolder'
    OBVIOUS
  <1>0. "idle" \notin Holding /\ "waiting" \notin Holding
    BY DEF Holding, Refreshing
  <1>1. ASSUME NEW w \in Workers, Acquire(w)
        PROVE  OneHolder'
    <2>1. sem = 0 /\ sem' = 1 /\ \A v \in Workers : v # w => pc'[v] = pc[v]
      BY <1>1 DEF Acquire, Goto, Types, TypeOK
    <2>. QED BY <2>1 DEF OneHolder
  <1>2. ASSUME NEW w \in Workers, Work(w)
        PROVE  OneHolder'
    <2>1. pc[w] \in Holding /\ sem = 1
      BY <1>2, WorkMoves DEF OneHolder
    <2>2. \A v \in Workers \ {w} : pc[v] \notin Holding /\ pc'[v] \notin Holding
      BY <1>0, <1>2, <2>1, WorkMoves DEF OneHolder
    <2>. QED BY <1>0, <1>2, <2>1, <2>2, WorkMoves DEF OneHolder
  <1>3. CASE /\ sem' = sem
             /\ \A v \in Workers : \/ pc'[v] = pc[v]
                                   \/ pc[v] = "idle" /\ pc'[v] = "waiting"
                                   \/ pc[v] = "waiting" /\ pc'[v] = "idle"
    BY <1>0, <1>3 DEF OneHolder
  <1>. QED BY <1>1, <1>2, <1>3, OtherMoves

-----------------------------------------------------------------------------
(* Bookkeeping *)

\* The status that handlers start from agrees with the snapshot.
LEMMA StatusForAgrees ==
    ASSUME Types, BookkeepingAgrees, NEW id \in IDs, NEW image \in Images,
           cfg.sources[id] = image
    PROVE  /\ StatusFor(id, image) \in Status
           /\ StatusFor(id, image).image = image
           /\ StatusFor(id, image).available <=> snapshots[id] # None
  <1>1. CASE statuses[id] = None
    <2>1. snapshots[id] = None
      BY <1>1 DEF BookkeepingAgrees
    <2>2. StatusFor(id, image) =
            [image |-> image, available |-> FALSE, refreshing |-> FALSE, error |-> FALSE]
      BY <1>1 DEF StatusFor
    <2>. QED BY <2>1, <2>2 DEF Status
  <1>2. CASE statuses[id] # None
    <2>1. PICK s \in Status : s = statuses[id]
      BY <1>2 DEF Types, TypeOK
    <2>2. StatusFor(id, image) = [s EXCEPT !.image = image]
      BY <1>2, <2>1 DEF StatusFor
    <2>3. s.available <=> snapshots[id] # None
      BY <1>2, <2>1 DEF BookkeepingAgrees
    <2>. QED BY <2>2, <2>3 DEF Status
  <1>. QED BY <1>1, <1>2

\* No section under the lock leaves a status or snapshot of another source.
LEMMA BookkeepingNext == Types /\ BookkeepingAgrees /\ [Next]_vars => BookkeepingAgrees'
  <1>. SUFFICES ASSUME Types, BookkeepingAgrees, [Next]_vars
                PROVE  BookkeepingAgrees'
    OBVIOUS
  <1>0. None \notin Status /\ None \notin Images /\ None \notin Snapshot
    BY NoneAssumption
  <1>. USE DEF Types, TypeOK
  <1>1. CASE UNCHANGED <<cfg, snapshots, statuses>>
    BY <1>1 DEF BookkeepingAgrees
  <1>2. ASSUME NEW id \in IDs, NEW pcs \in [Workers -> Labels], QueueRefresh(id, pcs),
               UNCHANGED <<cfg, snapshots>>
        PROVE  BookkeepingAgrees'
    <2>1. CASE UNCHANGED statuses
      BY <1>1, <1>2, <2>1
    <2>2. CASE /\ id \in Configured
               /\ statuses' = [statuses EXCEPT ![id] =
                                 [StatusFor(id, cfg.sources[id]) EXCEPT !.refreshing = TRUE]]
      <3>. DEFINE s == StatusFor(id, cfg.sources[id])
      <3>1. cfg.sources[id] \in Images
        BY <2>2, ConfigsAssumption DEF Configured, Config
      <3>2. /\ s \in Status /\ s.image = cfg.sources[id]
            /\ s.available <=> snapshots[id] # None
        BY <3>1, StatusForAgrees
      <3>. HIDE DEF s
      <3>3. statuses'[id] = [s EXCEPT !.refreshing = TRUE]
        BY <2>2 DEF s
      <3>4. /\ statuses'[id].image = cfg.sources[id]
            /\ statuses'[id].available <=> snapshots[id] # None
            /\ statuses'[id] # None
        BY <1>0, <3>2, <3>3 DEF Status
      <3>5. \A other \in IDs \ {id} : statuses'[other] = statuses[other]
        BY <2>2
      <3>. QED BY <1>2, <3>4, <3>5 DEF BookkeepingAgrees
    <2>. QED BY <1>2, <2>1, <2>2 DEF QueueRefresh
  <1>3. ASSUME NEW next \in Configs, Reload(next)
        PROVE  BookkeepingAgrees'
    BY <1>3 DEF Reload, StillCurrent, BookkeepingAgrees
  <1>4. ASSUME NEW w \in Workers, FinishQueued(w, "idle") \/ FinishQueued(w, "release") \/ ClearRunning(w),
               job[w].id \in IDs, UNCHANGED <<cfg, snapshots>>
        PROVE  BookkeepingAgrees'
    <2>1. \/ UNCHANGED statuses
          \/ /\ statuses[job[w].id] # None
             /\ statuses' = [statuses EXCEPT ![job[w].id].refreshing = FALSE]
      BY <1>4 DEF FinishQueued, ClearRunning
    <2>2. CASE /\ statuses[job[w].id] # None
               /\ statuses' = [statuses EXCEPT ![job[w].id].refreshing = FALSE]
      <3>1. PICK s \in Status : s = statuses[job[w].id]
        BY <1>4, <2>2
      <3>2. statuses' = [statuses EXCEPT ![job[w].id] = [s EXCEPT !.refreshing = FALSE]]
        BY <2>2, <3>1
      <3>3. /\ [s EXCEPT !.refreshing = FALSE].image = s.image
            /\ [s EXCEPT !.refreshing = FALSE].available = s.available
            /\ [s EXCEPT !.refreshing = FALSE] # None
        BY <1>0 DEF Status
      <3>. QED BY <1>4, <2>2, <3>1, <3>2, <3>3 DEF BookkeepingAgrees
    <2>. QED BY <1>1, <1>4, <2>1, <2>2
  <1>5. ASSUME NEW w \in Workers, MarkAttempt(w)
        PROVE  BookkeepingAgrees'
    <2>. DEFINE id == job[w].id
    <2>1. id \in IDs /\ job[w].image \in Images
      BY <1>5 DEF MarkAttempt, JobOK, Job, Refreshing
    <2>2. CASE ~Current(w)
      BY <1>1, <1>5, <2>2 DEF MarkAttempt
    <2>3. CASE Current(w)
      <3>. DEFINE s == StatusFor(id, job[w].image)
      <3>1. /\ s \in Status /\ s.image = cfg.sources[id]
            /\ s.available <=> snapshots[id] # None
        BY <2>1, <2>3, StatusForAgrees DEF Current
      <3>2. statuses' = [statuses EXCEPT ![id] = [s EXCEPT !.refreshing = InProgress(id)]]
        BY <1>5, <2>3 DEF MarkAttempt
      <3>. HIDE DEF s
      <3>3. /\ statuses'[id].image = cfg.sources[id]
            /\ statuses'[id].available <=> snapshots[id] # None
            /\ statuses'[id] # None
        BY <1>0, <2>1, <3>1, <3>2, InProgressBoolean DEF Status
      <3>4. \A other \in IDs \ {id} : statuses'[other] = statuses[other]
        BY <3>2
      <3>. QED BY <1>5, <2>1, <3>3, <3>4 DEF BookkeepingAgrees, MarkAttempt
    <2>. QED BY <2>2, <2>3
  <1>6. ASSUME NEW w \in Workers, Publish(w)
        PROVE  BookkeepingAgrees'
    <2>. DEFINE id == job[w].id
                snap == [image |-> job[w].image, reader |-> job[w].reader, version |-> job[w].version]
                status == [image |-> job[w].image, available |-> TRUE,
                           refreshing |-> InProgress(id), error |-> FALSE]
    <2>1. /\ id \in IDs /\ job[w].image \in Images /\ job[w].reader \in Readers
          /\ job[w].version \in 0..MaxReloads
      BY <1>6 DEF Publish, JobOK, Job, Refreshing
    <2>2. snap \in Snapshot /\ snap.image = job[w].image
      BY <2>1 DEF Snapshot
    <2>3. status \in Status /\ status.image = job[w].image /\ status.available = TRUE
      BY <2>1, InProgressBoolean DEF Status
    <2>4. CASE ~Current(w)
      BY <1>1, <1>6, <2>4 DEF Publish
    <2>5. CASE Current(w)
      <3>1. /\ snapshots' = [snapshots EXCEPT ![id] = snap]
            /\ statuses' = [statuses EXCEPT ![id] = status]
            /\ UNCHANGED cfg
        BY <1>6, <2>5 DEF Publish
      <3>. HIDE DEF snap, status
      <3>2. cfg.sources[id] = job[w].image
        BY <2>5 DEF Current
      <3>. QED BY <1>0, <2>1, <2>2, <2>3, <3>1, <3>2 DEF BookkeepingAgrees
    <2>. QED BY <2>4, <2>5
  <1>7. ASSUME NEW w \in Workers, MarkFailure(w)
        PROVE  BookkeepingAgrees'
    <2>. DEFINE id == job[w].id
                status == [image |-> job[w].image, available |-> snapshots[id] # None,
                           refreshing |-> InProgress(id), error |-> TRUE]
    <2>1. id \in IDs /\ job[w].image \in Images
      BY <1>7 DEF MarkFailure, JobOK, Job, Refreshing
    <2>2. /\ status \in Status /\ status.image = job[w].image
          /\ status.available = (snapshots[id] # None)
      BY <2>1, InProgressBoolean DEF Status
    <2>3. CASE ~Current(w)
      BY <1>1, <1>7, <2>3 DEF MarkFailure
    <2>4. CASE Current(w)
      <3>1. statuses' = [statuses EXCEPT ![id] = status] /\ UNCHANGED <<cfg, snapshots>>
        BY <1>7, <2>4 DEF MarkFailure
      <3>. HIDE DEF status
      <3>2. cfg.sources[id] = job[w].image
        BY <2>4 DEF Current
      <3>. QED BY <1>0, <2>1, <2>2, <3>1, <3>2 DEF BookkeepingAgrees
    <2>. QED BY <2>3, <2>4
  <1>8. ASSUME NEW w \in Workers, Work(w)
        PROVE  BookkeepingAgrees'
    <2>1. CASE Claim(w) \/ ReadSettings(w) \/ ReadSucceeds(w) \/ ReadFails(w) \/ Release(w)
      BY <1>1, <2>1 DEF Claim, ReadSettings, ReadSucceeds, ReadFails, Release
    <2>2. CASE FinishUnconfigured(w) \/ FinishRefresh(w)
      BY <1>4, <2>2 DEF FinishUnconfigured, FinishRefresh, ClearRunning, JobOK, Job
    <2>3. CASE Requeue(w)
      <3>. DEFINE pcs == [pc EXCEPT ![w] = "release"]
      <3>1. pcs \in [Workers -> Labels]
        BY DEF Labels, Holding
      <3>2. QueueRefresh(job[w].id, pcs) /\ job[w].id \in IDs /\ UNCHANGED <<cfg, snapshots>>
        BY <2>3 DEF Requeue, JobOK, Job
      <3>. HIDE DEF pcs
      <3>. QED BY <1>2, <3>1, <3>2
    <2>. QED BY <1>5, <1>6, <1>7, <1>8, <2>1, <2>2, <2>3 DEF Work
  <1>9. ASSUME NEW w \in Workers, GiveUp(w)
        PROVE  BookkeepingAgrees'
    <2>1. job[w].id \in IDs /\ UNCHANGED <<cfg, snapshots>>
      BY <1>9 DEF GiveUp, JobOK, Job
    <2>. QED BY <1>1, <1>4, <1>9, <2>1 DEF GiveUp
  <1>10. ASSUME NEW caller \in Callers, QueueNext(caller)
         PROVE  BookkeepingAgrees'
    <2>1. PICK id \in IDs : QueueRefresh(id, pc) /\ UNCHANGED <<cfg, snapshots>>
      BY <1>10 DEF QueueNext
    <2>. QED BY <1>2, <2>1 DEF Labels
  <1>11. CASE Scheduler \/ Requests \/ Shutdown \/ UNCHANGED vars
    BY <1>1, <1>11 DEF Scheduler, StartRun, QueueAll, TimerFires, RunExits, Requests,
                       RefreshAllHTTP, RefreshOneHTTP, DirectRefresh, Shutdown, vars
  <1>12. ASSUME NEW w \in Workers, Acquire(w)
         PROVE  BookkeepingAgrees'
    BY <1>1, <1>12 DEF Acquire
  <1>. QED BY <1>3, <1>8, <1>9, <1>10, <1>11, <1>12 DEF Next

-----------------------------------------------------------------------------
(* No refresh state without a goroutine *)

\* A goroutine that is not idle only moves by a step of its own.
LEMMA OnlyOwnSteps ==
    ASSUME Types, [Next]_vars, NEW w \in Workers, pc[w] # "idle"
    PROVE  \/ pc'[w] = pc[w] /\ job'[w] = job[w]
           \/ Acquire(w) \/ GiveUp(w) \/ Work(w)
  <1>. USE DEF Types, TypeOK
  <1>1. CASE Scheduler \/ Shutdown \/ UNCHANGED vars \/ \E next \in Configs : Reload(next)
    BY <1>1 DEF Scheduler, StartRun, QueueAll, TimerFires, RunExits, Shutdown, Reload, vars
  <1>2. CASE Requests
    BY <1>2 DEF Requests, RefreshAllHTTP, RefreshOneHTTP, DirectRefresh, Spawn
  <1>3. ASSUME NEW caller \in Callers, QueueNext(caller)
        PROVE  pc'[w] = pc[w] /\ job'[w] = job[w]
    <2>1. PICK id \in IDs : QueueRefresh(id, pc)
      BY <1>3 DEF QueueNext
    <2>2. pc \in [Workers -> {"idle", "waiting"} \cup Holding]
      OBVIOUS
    <2>. QED BY <2>1, <2>2, QueueRefreshTypes
  <1>4. ASSUME NEW v \in Workers, v # w, Acquire(v) \/ GiveUp(v)
        PROVE  pc'[w] = pc[w] /\ job'[w] = job[w]
    BY <1>4 DEF Acquire, GiveUp, FinishQueued, Goto
  <1>5. ASSUME NEW v \in Workers, v # w, Work(v)
        PROVE  pc'[w] = pc[w] /\ job'[w] = job[w]
    <2>1. CASE Requeue(v)
      <3>. DEFINE pcs == [pc EXCEPT ![v] = "release"]
      <3>1. /\ pcs \in [Workers -> {"idle", "waiting"} \cup Holding] /\ pcs[w] = pc[w]
            /\ QueueRefresh(job[v].id, pcs) /\ job[v].id \in IDs
        BY <1>5, <2>1 DEF Requeue, JobOK, Job, Holding
      <3>. HIDE DEF pcs
      <3>. QED BY <3>1, QueueRefreshTypes
    <2>2. CASE ~Requeue(v)
      BY <1>5, <2>2 DEF Work, Claim, FinishUnconfigured, FinishQueued, MarkAttempt,
                        ReadSettings, ReadSucceeds, ReadFails, Publish, MarkFailure,
                        FinishRefresh, ClearRunning, Release, Goto
    <2>. QED BY <2>1, <2>2
  <1>. QED BY <1>1, <1>2, <1>3, <1>4, <1>5 DEF Next

\* A goroutine is waiting for id, or is about to claim it.
WaitsFor(w, id) ==
    pc[w] \in {"waiting", "claim"} /\ job[w].id = id /\ job[w].ctx # "caller"

\* QueueRefresh marks an id queued together with the goroutine that will clear it.
LEMMA QueueRefreshStarts ==
    ASSUME Types, NEW id \in IDs, NEW pcs \in [Workers -> Labels], QueueRefresh(id, pcs)
    PROVE  \/ queued' = queued
           \/ queued' = queued \cup {id} /\ \E w \in Workers : WaitsFor(w, id)'
  <1>1. CASE queued' = queued
    BY <1>1
  <1>2. CASE queued' # queued
    <2>. DEFINE ctx == IF contextSet THEN "run" ELSE "background"
    <2>1. PICK w \in Workers : queued' = queued \cup {id} /\ Spawn(w, id, ctx, None, pcs)
      BY <1>2 DEF QueueRefresh
    <2>2. ctx \in Contexts /\ ctx # "caller"
      BY DEF Contexts
    <2>. HIDE DEF ctx
    <2>3. /\ pc' = [pcs EXCEPT ![w] = "waiting"]
          /\ job'[w] = [id |-> id, ctx |-> ctx, image |-> None, reader |-> None, version |-> 0]
      BY <2>1, <2>2, SpawnTypes DEF Labels
    <2>. QED BY <2>1, <2>2, <2>3 DEF WaitsFor
  <1>. QED BY <1>1, <1>2

\* A queued id keeps a goroutine that will claim it.
LEMMA QueuedNext == Types /\ QueuedHasGoroutine /\ [Next]_vars => QueuedHasGoroutine'
  <1>. SUFFICES ASSUME Types, QueuedHasGoroutine, [Next]_vars, NEW id \in queued'
                PROVE  \E w \in Workers : WaitsFor(w, id)'
    BY DEF QueuedHasGoroutine, WaitsFor
  <1>. USE DEF Types, TypeOK
  \* Only QueueRefresh adds an id.
  <1>1. ASSUME id \notin queued
        PROVE  \E w \in Workers : WaitsFor(w, id)'
    <2>1. CASE \E caller \in Callers : QueueNext(caller)
      <3>1. PICK i \in IDs : QueueRefresh(i, pc)
        BY <2>1 DEF QueueNext
      <3>2. pc \in [Workers -> Labels]
        BY DEF Labels
      <3>. QED BY <1>1, <3>1, <3>2, QueueRefreshStarts
    <2>2. ASSUME NEW v \in Workers, Requeue(v)
          PROVE  \E w \in Workers : WaitsFor(w, id)'
      <3>. DEFINE pcs == [pc EXCEPT ![v] = "release"]
      <3>1. /\ pcs \in [Workers -> Labels] /\ QueueRefresh(job[v].id, pcs) /\ job[v].id \in IDs
        BY <2>2 DEF Requeue, JobOK, Job, Labels, Holding
      <3>. HIDE DEF pcs
      <3>. QED BY <1>1, <3>1, QueueRefreshStarts
    <2>3. CASE ~(\E caller \in Callers : QueueNext(caller)) /\ ~(\E v \in Workers : Requeue(v))
      BY <1>1, <2>3 DEF Next, Scheduler, StartRun, QueueAll, TimerFires, RunExits, Requests,
           RefreshAllHTTP, RefreshOneHTTP, DirectRefresh, Shutdown, Reload, vars, Acquire, GiveUp,
           Work, Claim, FinishUnconfigured, FinishQueued, MarkAttempt, ReadSettings, ReadSucceeds,
           ReadFails, Publish, MarkFailure, FinishRefresh, ClearRunning, Release
    <2>. QED BY <2>1, <2>2, <2>3
  \* The goroutine that waits leaves only by a section that clears the flag.
  <1>2. ASSUME id \in queued
        PROVE  \E w \in Workers : WaitsFor(w, id)'
    <2>1. PICK w \in Workers : WaitsFor(w, id)
      BY <1>2 DEF QueuedHasGoroutine, WaitsFor
    <2>2. CASE pc'[w] = pc[w] /\ job'[w] = job[w]
      BY <2>1, <2>2 DEF WaitsFor
    <2>3. CASE Acquire(w)
      BY <2>1, <2>3 DEF WaitsFor, Acquire, Goto
    <2>4. CASE GiveUp(w)
      BY <2>1, <2>4 DEF WaitsFor, GiveUp, FinishQueued
    <2>5. CASE Work(w)
      <3>1. Claim(w)
        BY <2>1, <2>5 DEF WaitsFor, Work, Claim, FinishUnconfigured, MarkAttempt, ReadSettings,
             ReadSucceeds, ReadFails, Publish, MarkFailure, FinishRefresh, ClearRunning, Requeue,
             Release
      <3>. QED BY <2>1, <3>1 DEF WaitsFor, Claim
    <2>. QED BY <2>1, <2>2, <2>3, <2>4, <2>5, OnlyOwnSteps DEF WaitsFor
  <1>. QED BY <1>1, <1>2

\* A goroutine is refreshing id, or about to clear its running flag.
WorksOn(w, id) ==
    pc[w] \in Refreshing \cup {"finish"} /\ job[w].id = id /\ job[w].ctx # "caller"

\* A running id keeps the goroutine that is refreshing it.
LEMMA RunningNext == Types /\ RunningHasGoroutine /\ [Next]_vars => RunningHasGoroutine'
  <1>. SUFFICES ASSUME Types, RunningHasGoroutine, [Next]_vars, NEW id \in running'
                PROVE  \E w \in Workers : WorksOn(w, id)'
    BY DEF RunningHasGoroutine, WorksOn
  <1>. USE DEF Types, TypeOK, Refreshing
  \* Only Claim adds an id.
  <1>1. ASSUME id \notin running
        PROVE  \E w \in Workers : WorksOn(w, id)'
    <2>1. PICK w \in Workers : Claim(w)
      BY <1>1 DEF Next, Scheduler, StartRun, QueueAll, TimerFires, RunExits, Requests,
           RefreshAllHTTP, RefreshOneHTTP, DirectRefresh, Shutdown, Reload, vars, Acquire, GiveUp,
           QueueNext, Requeue, Work, FinishUnconfigured, FinishQueued, MarkAttempt, ReadSettings,
           ReadSucceeds, ReadFails, Publish, MarkFailure, FinishRefresh, ClearRunning, Release
    <2>. QED BY <1>1, <2>1 DEF WorksOn, Claim, Goto, JobOK, Job
  <1>2. ASSUME id \in running
        PROVE  \E w \in Workers : WorksOn(w, id)'
    <2>1. PICK w \in Workers : WorksOn(w, id)
      BY <1>2 DEF RunningHasGoroutine, WorksOn
    <2>2. CASE pc'[w] = pc[w] /\ job'[w] = job[w]
      BY <2>1, <2>2 DEF WorksOn
    <2>3. CASE Work(w)
      <3>1. CASE MarkAttempt(w) \/ ReadSucceeds(w) \/ ReadFails(w)
        BY <2>1, <3>1 DEF WorksOn, MarkAttempt, ReadSucceeds, ReadFails, Goto
      <3>2. CASE ReadSettings(w)
        BY <2>1, <3>2 DEF WorksOn, ReadSettings, Goto, JobOK, Job
      <3>3. CASE Publish(w) \/ MarkFailure(w)
        BY <2>1, <3>3 DEF WorksOn, Publish, MarkFailure, AfterRefresh, Goto
      <3>4. CASE FinishRefresh(w)
        BY <2>1, <3>4 DEF WorksOn, FinishRefresh, ClearRunning
      <3>. QED BY <2>1, <2>3, <3>1, <3>2, <3>3, <3>4
               DEF WorksOn, Work, Claim, FinishUnconfigured, Requeue, Release
    <2>4. ~Acquire(w) /\ ~GiveUp(w)
      BY <2>1 DEF WorksOn, Acquire, GiveUp
    <2>. QED BY <2>1, <2>2, <2>3, <2>4, OnlyOwnSteps DEF WorksOn
  <1>. QED BY <1>1, <1>2

\* A section that clears one id's flags leaves the other ids as they are.
LEMMA ClearedFlags ==
    ASSUME Types, ReportedInProgress, NEW i \in IDs,
           statuses' = IF statuses[i] = None THEN statuses
                       ELSE [statuses EXCEPT ![i].refreshing = FALSE],
           \A id \in IDs \ {i} : InProgress(id)' = InProgress(id)
    PROVE  ReportedInProgress'
  <1>. SUFFICES ASSUME NEW id \in IDs, statuses'[id] # None, statuses'[id].refreshing
                PROVE  InProgress(id)'
    BY DEF ReportedInProgress
  <1>1. CASE id # i
    BY <1>1 DEF ReportedInProgress, Types, TypeOK
  <1>2. CASE id = i
    <2>1. CASE statuses[i] = None
      BY <1>2, <2>1
    <2>2. CASE statuses[i] # None
      <3>1. PICK s \in Status : s = statuses[i]
        BY <2>2 DEF Types, TypeOK
      <3>2. statuses'[i] = [s EXCEPT !.refreshing = FALSE]
        BY <2>2, <3>1 DEF Types, TypeOK
      <3>. QED BY <1>2, <3>1, <3>2 DEF Status
    <2>. QED BY <2>1, <2>2
  <1>. QED BY <1>1, <1>2

\* A section that writes one id's status copies the flags of that id.
LEMMA CopiedFlags ==
    ASSUME Types, ReportedInProgress, NEW i \in IDs, NEW s \in Status,
           s.refreshing = InProgress(i),
           statuses' = statuses \/ statuses' = [statuses EXCEPT ![i] = s],
           UNCHANGED <<queued, running>>
    PROVE  ReportedInProgress'
  BY DEF ReportedInProgress, InProgress, Types, TypeOK, Status

\* A source is never left reported as refreshing by a step that ends its refresh.
LEMMA ReportedNext ==
    Types /\ BookkeepingAgrees /\ ReportedInProgress /\ [Next]_vars => ReportedInProgress'
  <1>. SUFFICES ASSUME Types, BookkeepingAgrees, ReportedInProgress, [Next]_vars
                PROVE  ReportedInProgress'
    OBVIOUS
  <1>. USE DEF Types, TypeOK
  <1>1. CASE UNCHANGED <<queued, running, statuses>>
    BY <1>1 DEF ReportedInProgress, InProgress
  <1>2. ASSUME NEW i \in IDs, NEW pcs \in [Workers -> Labels], QueueRefresh(i, pcs),
               UNCHANGED running
        PROVE  ReportedInProgress'
    <2>1. CASE UNCHANGED <<queued, statuses>>
      BY <1>1, <1>2, <2>1
    <2>2. CASE /\ queued' = queued \cup {i}
               /\ \A id \in IDs \ {i} : statuses'[id] = statuses[id]
      BY <1>2, <2>2 DEF ReportedInProgress, InProgress
    <2>. QED BY <1>2, <2>1, <2>2 DEF QueueRefresh
  <1>3. ASSUME NEW next \in Configs, Reload(next)
        PROVE  ReportedInProgress'
    BY <1>3 DEF Reload, StillCurrent, ReportedInProgress, InProgress
  <1>4. ASSUME NEW w \in Workers, job[w].id \in IDs,
               \/ FinishQueued(w, "idle") \/ FinishQueued(w, "release")
               \/ ClearRunning(w)
        PROVE  ReportedInProgress'
    <2>1. \A id \in IDs \ {job[w].id} : InProgress(id)' = InProgress(id)
      BY <1>4 DEF FinishQueued, ClearRunning, InProgress
    <2>2. statuses' = IF statuses[job[w].id] = None THEN statuses
                      ELSE [statuses EXCEPT ![job[w].id].refreshing = FALSE]
      BY <1>4 DEF FinishQueued, ClearRunning
    <2>. QED BY <1>4, <2>1, <2>2, ClearedFlags
  <1>5. ASSUME NEW w \in Workers, Claim(w)
        PROVE  ReportedInProgress'
    <2>. DEFINE id == job[w].id
    <2>1. id \in IDs
      BY <1>5 DEF Claim, JobOK, Job
    <2>2. \A other \in IDs \ {id} : InProgress(other)' = InProgress(other)
      BY <1>5 DEF Claim, InProgress
    <2>3. CASE id \in Configured
      BY <1>5, <2>1, <2>2, <2>3 DEF Claim, ReportedInProgress, InProgress
    <2>4. CASE id \notin Configured
      <3>1. statuses[id] = None
        BY <2>1, <2>4, NoneAssumption DEF BookkeepingAgrees, Configured, Status
      <3>. QED BY <1>5, <2>1, <2>2, <3>1 DEF Claim, ReportedInProgress
    <2>. QED BY <2>3, <2>4
  <1>6. ASSUME NEW w \in Workers, MarkAttempt(w)
        PROVE  ReportedInProgress'
    <2>. DEFINE id == job[w].id
                s == [StatusFor(id, job[w].image) EXCEPT !.refreshing = InProgress(id)]
    <2>1. id \in IDs /\ job[w].image \in Images
      BY <1>6 DEF MarkAttempt, JobOK, Job, Refreshing
    <2>2. StatusFor(id, job[w].image) \in Status
      BY <2>1 DEF StatusFor, Status
    <2>3. s \in Status /\ s.refreshing = InProgress(id)
      BY <2>1, <2>2, InProgressBoolean DEF Status
    <2>4. /\ statuses' = statuses \/ statuses' = [statuses EXCEPT ![id] = s]
          /\ UNCHANGED <<queued, running>>
      BY <1>6 DEF MarkAttempt
    <2>. HIDE DEF s
    <2>. QED BY <2>1, <2>3, <2>4, CopiedFlags
  <1>7. ASSUME NEW w \in Workers, Publish(w)
        PROVE  ReportedInProgress'
    <2>. DEFINE id == job[w].id
                s == [image |-> job[w].image, available |-> TRUE,
                      refreshing |-> InProgress(id), error |-> FALSE]
    <2>1. id \in IDs /\ job[w].image \in Images
      BY <1>7 DEF Publish, JobOK, Job, Refreshing
    <2>2. s \in Status /\ s.refreshing = InProgress(id)
      BY <2>1, InProgressBoolean DEF Status
    <2>3. /\ statuses' = statuses \/ statuses' = [statuses EXCEPT ![id] = s]
          /\ UNCHANGED <<queued, running>>
      BY <1>7 DEF Publish
    <2>. HIDE DEF s
    <2>. QED BY <2>1, <2>2, <2>3, CopiedFlags
  <1>8. ASSUME NEW w \in Workers, MarkFailure(w)
        PROVE  ReportedInProgress'
    <2>. DEFINE id == job[w].id
                s == [image |-> job[w].image, available |-> snapshots[id] # None,
                      refreshing |-> InProgress(id), error |-> TRUE]
    <2>1. id \in IDs /\ job[w].image \in Images
      BY <1>8 DEF MarkFailure, JobOK, Job, Refreshing
    <2>2. s \in Status /\ s.refreshing = InProgress(id)
      BY <2>1, InProgressBoolean DEF Status
    <2>3. /\ statuses' = statuses \/ statuses' = [statuses EXCEPT ![id] = s]
          /\ UNCHANGED <<queued, running>>
      BY <1>8 DEF MarkFailure
    <2>. HIDE DEF s
    <2>. QED BY <2>1, <2>2, <2>3, CopiedFlags
  <1>9. ASSUME NEW w \in Workers, Work(w)
        PROVE  ReportedInProgress'
    <2>1. CASE ReadSettings(w) \/ ReadSucceeds(w) \/ ReadFails(w) \/ Release(w)
      BY <1>1, <2>1 DEF ReadSettings, ReadSucceeds, ReadFails, Release
    <2>2. CASE FinishUnconfigured(w) \/ FinishRefresh(w)
      BY <1>4, <2>2 DEF FinishUnconfigured, FinishRefresh, ClearRunning, JobOK, Job
    <2>3. CASE Requeue(w)
      <3>. DEFINE pcs == [pc EXCEPT ![w] = "release"]
      <3>1. /\ pcs \in [Workers -> Labels] /\ QueueRefresh(job[w].id, pcs)
            /\ job[w].id \in IDs /\ UNCHANGED running
        BY <2>3 DEF Requeue, JobOK, Job, Labels, Holding
      <3>. HIDE DEF pcs
      <3>. QED BY <1>2, <3>1
    <2>. QED BY <1>5, <1>6, <1>7, <1>8, <1>9, <2>1, <2>2, <2>3 DEF Work
  <1>10. ASSUME NEW w \in Workers, GiveUp(w)
         PROVE  ReportedInProgress'
    <2>1. job[w].id \in IDs
      BY <1>10 DEF GiveUp, JobOK, Job
    <2>. QED BY <1>1, <1>4, <1>10, <2>1 DEF GiveUp
  <1>11. ASSUME NEW caller \in Callers, QueueNext(caller)
         PROVE  ReportedInProgress'
    <2>1. PICK i \in IDs : QueueRefresh(i, pc) /\ UNCHANGED running
      BY <1>11 DEF QueueNext
    <2>. QED BY <1>2, <2>1 DEF Labels
  <1>12. CASE Scheduler \/ Requests \/ Shutdown \/ UNCHANGED vars \/ \E w \in Workers : Acquire(w)
    BY <1>1, <1>12 DEF Scheduler, StartRun, QueueAll, TimerFires, RunExits, Requests,
                       RefreshAllHTTP, RefreshOneHTTP, DirectRefresh, Shutdown, vars, Acquire
  <1>. QED BY <1>3, <1>9, <1>10, <1>11, <1>12 DEF Next

-----------------------------------------------------------------------------
(* Settings never go back *)

\* Reads happen one after the other, so what is being read is never older than
\* what was published before.
LEMMA VersionsNext == Types /\ OneHolder /\ VersionsInOrder /\ [Next]_vars => VersionsInOrder'
  <1>. SUFFICES ASSUME Types, OneHolder, VersionsInOrder, [Next]_vars
                PROVE  VersionsInOrder'
    OBVIOUS
  <1>. USE DEF Types, TypeOK
  <1>0. {"attempt", "settings", "reading", "publish"} \subseteq Holding /\ "waiting" \notin Holding
    BY DEF Holding, Refreshing
  \* Whoever reads or publishes after a step did so before, or has just copied
  \* the settings.
  <1>1. ASSUME NEW w \in Workers, pc'[w] \in {"reading", "publish"}
        PROVE  \/ pc[w] \in {"reading", "publish"} /\ job'[w] = job[w]
               \/ ReadSettings(w)
    <2>1. CASE pc[w] = "idle"
      <3>1. pc'[w] \in {"idle", "waiting"}
        <4>1. ~Acquire(w) /\ ~Work(w)
          BY <2>1 DEF Acquire, Work, Claim, FinishUnconfigured, MarkAttempt, ReadSettings,
             ReadSucceeds, ReadFails, Publish, MarkFailure, FinishRefresh, ClearRunning,
             Requeue, Release
        <4>2. ASSUME NEW v \in Workers, Acquire(v)
              PROVE  pc'[w] = "idle"
          BY <2>1, <4>2 DEF Acquire, Goto
        <4>3. ASSUME NEW v \in Workers, Work(v)
              PROVE  pc'[w] \in {"idle", "waiting"}
          BY <2>1, <4>1, <4>3, WorkMoves
        <4>. QED BY <2>1, <4>2, <4>3, OtherMoves
      <3>. QED BY <1>1, <3>1
    <2>2. CASE pc[w] # "idle"
      <3>1. ~Acquire(w)
        BY <1>1 DEF Acquire, Goto
      <3>2. ~GiveUp(w)
        BY <1>1 DEF GiveUp, FinishQueued, Goto
      <3>3. CASE Work(w)
        <4>1. CASE Requeue(w)
          <5>. DEFINE pcs == [pc EXCEPT ![w] = "release"]
          <5>1. /\ pcs \in [Workers -> Labels] /\ QueueRefresh(job[w].id, pcs)
                /\ job[w].id \in IDs /\ pcs[w] = "release" /\ pc[w] = "requeue"
            BY <4>1 DEF Requeue, JobOK, Job, Labels, Holding
          <5>. HIDE DEF pcs
          <5>. QED BY <1>1, <5>1, QueueRefreshMoves
        <4>2. CASE ~Requeue(w)
          BY <1>1, <3>3, <4>2 DEF Work, Claim, FinishUnconfigured, FinishQueued, MarkAttempt,
             ReadSettings, ReadSucceeds, ReadFails, Publish, MarkFailure, FinishRefresh,
             ClearRunning, Release, Goto, AfterRefresh
        <4>. QED BY <4>1, <4>2
      <3>. QED BY <1>1, <2>2, <3>1, <3>2, <3>3, OnlyOwnSteps
    <2>. QED BY <2>1, <2>2
  \* Settings are copied, or configurations are counted, with no snapshot replaced.
  <1>2. CASE /\ \A id \in IDs : snapshots'[id] \in {snapshots[id], None}
             /\ reloads' \in {reloads, reloads + 1}
    <2>1. ASSUME NEW w \in Workers, pc'[w] \in {"reading", "publish"}
          PROVE  \/ pc[w] \in {"reading", "publish"} /\ job'[w].version = job[w].version
                 \/ job'[w].version = reloads
      <3>1. CASE ReadSettings(w)
        <4>1. PICK j \in Job : j = job[w]
          BY <3>1 DEF ReadSettings, JobOK
        <4>2. job'[w] = [j EXCEPT !.reader = cfg.reader, !.version = reloads]
          BY <3>1, <4>1 DEF ReadSettings
        <4>. QED BY <4>1, <4>2 DEF Job
      <3>2. CASE ~ReadSettings(w)
        BY <1>1, <2>1, <3>2
      <3>. QED BY <3>1, <3>2
    <2>2. \A w \in Workers : pc[w] \in {"reading", "publish"} => job[w].version \in Nat
      BY BoundAssumption DEF JobOK, Job, Refreshing
    <2>3. \A id \in IDs : snapshots[id] # None => snapshots[id].version \in Nat
      BY BoundAssumption DEF Snapshot
    <2>4. reloads \in Nat
      BY BoundAssumption
    <2>5. \A w \in Workers : pc'[w] \in {"reading", "publish"} => job'[w].version <= reloads'
      BY <1>2, <2>1, <2>2, <2>4 DEF VersionsInOrder
    <2>6. ASSUME NEW id \in IDs, snapshots'[id] # None
          PROVE  /\ snapshots'[id].version <= reloads'
                 /\ \A w \in Workers : pc'[w] \in {"reading", "publish"} =>
                       snapshots'[id].version <= job'[w].version
      <3>1. snapshots'[id] = snapshots[id] /\ snapshots[id] # None
        BY <1>2, <2>6
      <3>2. snapshots[id].version \in Nat /\ snapshots[id].version <= reloads
        BY <2>3, <3>1 DEF VersionsInOrder
      <3>3. \A w \in Workers : pc[w] \in {"reading", "publish"} =>
               snapshots[id].version <= job[w].version
        BY <3>1 DEF VersionsInOrder
      <3>. QED BY <1>2, <2>1, <2>2, <2>4, <3>1, <3>2, <3>3
    <2>. QED BY <2>5, <2>6 DEF VersionsInOrder
  \* The one goroutine that publishes has the settings of its own read.
  <1>3. ASSUME NEW v \in Workers, Publish(v)
        PROVE  VersionsInOrder'
    <2>. DEFINE snap == [image |-> job[v].image, reader |-> job[v].reader, version |-> job[v].version]
    <2>1. /\ pc[v] = "publish" /\ pc'[v] \in {"release", "finish"} /\ reloads' = reloads
          /\ \A id \in IDs : snapshots'[id] = snapshots[id] \/ snapshots'[id] = snap
      BY <1>3 DEF Publish, AfterRefresh, Goto
    <2>2. ASSUME NEW w \in Workers, pc'[w] \in {"reading", "publish"}
          PROVE  FALSE
      <3>1. w # v
        BY <2>1, <2>2
      <3>2. ~ReadSettings(w)
        BY <1>0, <2>1, <3>1 DEF ReadSettings, OneHolder
      <3>3. pc[w] \in {"reading", "publish"}
        BY <1>1, <2>2, <3>2
      <3>. QED BY <1>0, <2>1, <3>1, <3>3 DEF OneHolder
    <2>3. snap.version = job[v].version
      OBVIOUS
    <2>4. job[v].version <= reloads
      BY <2>1 DEF VersionsInOrder
    <2>. HIDE DEF snap
    <2>5. ASSUME NEW id \in IDs, snapshots'[id] # None
          PROVE  snapshots'[id].version <= reloads'
      <3>1. CASE snapshots'[id] = snapshots[id]
        BY <2>1, <2>5, <3>1 DEF VersionsInOrder
      <3>2. CASE snapshots'[id] = snap
        BY <2>1, <2>3, <2>4, <3>2
      <3>. QED BY <2>1, <3>1, <3>2
    <2>. QED BY <2>2, <2>5 DEF VersionsInOrder
  <1>4. ASSUME NEW next \in Configs, Reload(next)
        PROVE  VersionsInOrder'
    BY <1>2, <1>4 DEF Reload, StillCurrent
  <1>5. CASE UNCHANGED <<snapshots, reloads>>
    BY <1>2, <1>5
  <1>6. CASE ~(\E next \in Configs : Reload(next)) /\ ~(\E v \in Workers : Publish(v))
    <2>1. UNCHANGED <<snapshots, reloads>>
      BY <1>6 DEF Next, Scheduler, StartRun, QueueAll, TimerFires, RunExits, Requests,
           RefreshAllHTTP, RefreshOneHTTP, DirectRefresh, Shutdown, vars, Acquire, GiveUp,
           QueueNext, Requeue, Work, Claim, FinishUnconfigured, FinishQueued, MarkAttempt,
           ReadSettings, ReadSucceeds, ReadFails, MarkFailure, FinishRefresh, ClearRunning, Release
    <2>. QED BY <1>5, <2>1
  <1>. QED BY <1>3, <1>4, <1>6

-----------------------------------------------------------------------------
(* No source is forgotten, unless it comes back too late *)

\* Something is there to show for id: a snapshot, or the error of the last refresh.
Shown(id) == snapshots[id] # None \/ (statuses[id] # None /\ statuses[id].error)

\* Goroutine w will refresh id, or will see in the last section of refreshQueued
\* that it has to queue it again.
Attends(w, id) ==
    /\ job[w].id = id /\ job[w].ctx # "caller"
    /\ \/ pc[w] \in {"waiting", "claim", "requeue"} \cup Refreshing
       \/ pc[w] = "finish" /\ job[w].image # cfg.sources[id]

\* Id is not forgotten.
Awaited(id) ==
    \/ Shown(id)
    \/ \E caller \in Callers : id \in todo[caller]
    \/ \E w \in Workers : Attends(w, id)
    \/ runLoop \in {"start", "queue"}
    \/ stopped

\* A goroutine that finds its source unchanged in its last section has published it
\* or has recorded why not.
FinishedShown == \A w \in Workers : pc[w] = "finish" /\ Current(w) => Shown(job[w].id)

\* The inductive strengthening of NoSourceForgotten.
Covered == FinishedShown /\ \A id \in Configured : Awaited(id)

\* A source comes back too late: the goroutine that read it found it gone when it was
\* to publish it, and will find it there in its last section.
ComesBackTooLate ==
    \E w \in Workers : /\ pc[w] = "finish" /\ ~Current(w)
                       /\ job[w].image = cfg'.sources[job[w].id]

\* Only a reload changes what is configured.
LEMMA OnlyReloadConfigures ==
    ASSUME [Next]_vars, \A next \in Configs : ~Reload(next)
    PROVE  cfg' = cfg
  BY DEF Next, Scheduler, StartRun, QueueAll, TimerFires, RunExits, Requests,
         RefreshAllHTTP, RefreshOneHTTP, DirectRefresh, Shutdown, vars, Acquire, GiveUp,
         QueueNext, Requeue, Work, Claim, FinishUnconfigured, FinishQueued, MarkAttempt,
         ReadSettings, ReadSucceeds, ReadFails, Publish, MarkFailure, FinishRefresh,
         ClearRunning, Release

\* QueueRefresh takes nothing away from what is shown.
LEMMA QueueRefreshShows ==
    ASSUME Types, NEW i \in IDs, NEW pcs, QueueRefresh(i, pcs), UNCHANGED snapshots,
           NEW id \in IDs, Shown(id)
    PROVE  Shown(id)'
  <1>1. CASE UNCHANGED statuses
    BY <1>1 DEF Shown
  <1>2. CASE /\ i \in Configured
             /\ statuses' = [statuses EXCEPT ![i] =
                               [StatusFor(i, cfg.sources[i]) EXCEPT !.refreshing = TRUE]]
    <2>1. CASE id # i \/ snapshots[id] # None
      BY <1>2, <2>1 DEF Shown, Types, TypeOK
    <2>2. CASE id = i /\ snapshots[id] = None
      <3>1. PICK s \in Status : s = statuses[i] /\ s.error /\ statuses[i] # None
        BY <2>2 DEF Shown, Types, TypeOK
      <3>. DEFINE t == [[s EXCEPT !.image = cfg.sources[i]] EXCEPT !.refreshing = TRUE]
      <3>2. statuses' = [statuses EXCEPT ![i] = t]
        BY <1>2, <3>1 DEF StatusFor
      <3>3. t.error /\ t \in Status
        <4>1. cfg.sources[i] \in Images
          BY <1>2, ConfigsAssumption DEF Types, TypeOK, Configured, Config
        <4>. QED BY <3>1, <4>1 DEF Status
      <3>. HIDE DEF t
      <3>4. statuses'[i] = t /\ t # None
        BY <3>2, <3>3, NoneAssumption DEF Types, TypeOK
      <3>. QED BY <2>2, <3>3, <3>4 DEF Shown
    <2>. QED BY <2>1, <2>2
  <1>. QED BY <1>1, <1>2 DEF QueueRefresh

\* A refresh that ends while its source is configured has an outcome to show.
LEMMA OutcomeShown ==
    ASSUME Types, NEW w \in Workers, Publish(w) \/ MarkFailure(w), Current(w),
           NEW id \in IDs, id = job[w].id
    PROVE  Shown(id)'
  <1>. USE DEF Types, TypeOK
  <1>1. job[w].image \in Images
    BY DEF Publish, MarkFailure, JobOK, Job, Refreshing
  <1>3. CASE Publish(w)
    <2>. DEFINE snap == [image |-> job[w].image, reader |-> job[w].reader,
                         version |-> job[w].version]
    <2>1. snapshots' = [snapshots EXCEPT ![id] = snap]
      BY <1>3 DEF Publish
    <2>2. snap \in Snapshot
      BY <1>1, <1>3 DEF Publish, JobOK, Job, Refreshing, Snapshot
    <2>. HIDE DEF snap
    <2>3. snapshots'[id] = snap /\ snap # None
      BY <1>1, <2>1, <2>2, NoneAssumption
    <2>. QED BY <2>3 DEF Shown
  <1>4. CASE MarkFailure(w)
    <2>. DEFINE s == [image |-> job[w].image, available |-> snapshots[id] # None,
                      refreshing |-> InProgress(id), error |-> TRUE]
    <2>1. statuses' = [statuses EXCEPT ![id] = s]
      BY <1>4 DEF MarkFailure
    <2>2. s \in Status /\ s.error
      BY <1>1, InProgressBoolean DEF Status
    <2>. HIDE DEF s
    <2>3. statuses'[id] = s /\ s # None
      BY <1>1, <2>1, <2>2, NoneAssumption
    <2>. QED BY <2>2, <2>3 DEF Shown
  <1>. QED BY <1>3, <1>4

\* What is shown for a source stays until the source changes.
LEMMA ShownKept ==
    ASSUME Types, BookkeepingAgrees, [Next]_vars, NEW id \in IDs, Shown(id),
           id \in Configured, cfg'.sources[id] = cfg.sources[id]
    PROVE  Shown(id)'
  <1>. USE DEF Types, TypeOK
  <1>1. CASE UNCHANGED <<snapshots, statuses>>
    BY <1>1 DEF Shown
  <1>2. ASSUME NEW next \in Configs, Reload(next)
        PROVE  Shown(id)'
    BY <1>2 DEF Reload, StillCurrent, Shown, BookkeepingAgrees
  <1>3. ASSUME NEW w \in Workers, job[w].id \in IDs,
               \/ FinishQueued(w, "idle") \/ FinishQueued(w, "release")
               \/ ClearRunning(w),
               UNCHANGED snapshots
        PROVE  Shown(id)'
    <2>. DEFINE i == job[w].id
    <2>1. statuses' = IF statuses[i] = None THEN statuses
                      ELSE [statuses EXCEPT ![i].refreshing = FALSE]
      BY <1>3 DEF FinishQueued, ClearRunning
    <2>2. CASE statuses[i] = None \/ id # i \/ snapshots[id] # None
      BY <1>3, <2>1, <2>2 DEF Shown
    <2>3. CASE statuses[i] # None /\ id = i
      <3>1. PICK s \in Status : s = statuses[i]
        BY <1>3, <2>3
      <3>2. statuses'[i] = [s EXCEPT !.refreshing = FALSE]
        BY <1>3, <2>1, <2>3, <3>1
      <3>3. statuses'[i] \in Status /\ statuses'[i].error = s.error
        BY <3>1, <3>2 DEF Status
      <3>. QED BY <1>3, <2>3, <3>1, <3>3, NoneAssumption DEF Shown
    <2>. QED BY <2>2, <2>3
  <1>4. ASSUME NEW w \in Workers, MarkAttempt(w)
        PROVE  Shown(id)'
    <2>. DEFINE i == job[w].id
    <2>1. i \in IDs /\ job[w].image \in Images
      BY <1>4 DEF MarkAttempt, JobOK, Job, Refreshing
    <2>2. CASE ~Current(w) \/ id # i \/ snapshots[id] # None
      BY <1>4, <2>1, <2>2 DEF MarkAttempt, Shown
    <2>3. CASE Current(w) /\ id = i /\ snapshots[id] = None
      <3>1. PICK s \in Status : s = statuses[i] /\ s.error /\ statuses[i] # None
        BY <2>1, <2>3 DEF Shown
      <3>. DEFINE t == [[s EXCEPT !.image = job[w].image] EXCEPT !.refreshing = InProgress(i)]
      <3>2. statuses' = [statuses EXCEPT ![i] = t]
        BY <1>4, <2>3, <3>1 DEF MarkAttempt, StatusFor
      <3>3. t.error /\ t \in Status
        BY <2>1, <3>1, InProgressBoolean DEF Status
      <3>. HIDE DEF t
      <3>4. statuses'[i] = t /\ t # None
        BY <2>1, <3>2, <3>3, NoneAssumption
      <3>. QED BY <2>3, <3>3, <3>4 DEF Shown
    <2>. QED BY <2>2, <2>3
  <1>5. ASSUME NEW w \in Workers, Publish(w) \/ MarkFailure(w)
        PROVE  Shown(id)'
    <2>. DEFINE i == job[w].id
    <2>1. i \in IDs
      BY <1>5 DEF Publish, MarkFailure, JobOK, Job, Refreshing
    <2>2. CASE ~Current(w) \/ id # i
      BY <1>5, <2>1, <2>2 DEF Publish, MarkFailure, Shown
    <2>3. CASE Current(w) /\ id = i
      BY <1>5, <2>1, <2>3, OutcomeShown
    <2>. QED BY <2>2, <2>3
  <1>6. ASSUME NEW w \in Workers, Requeue(w)
        PROVE  Shown(id)'
    <2>1. /\ QueueRefresh(job[w].id, [pc EXCEPT ![w] = "release"]) /\ UNCHANGED snapshots
          /\ job[w].id \in IDs
      BY <1>6 DEF Requeue, JobOK, Job
    <2>. QED BY <2>1, QueueRefreshShows
  <1>7. ASSUME NEW w \in Workers, Work(w)
        PROVE  Shown(id)'
    <2>1. CASE FinishUnconfigured(w) \/ FinishRefresh(w)
      <3>1. job[w].id \in IDs /\ UNCHANGED snapshots
        BY <2>1 DEF FinishUnconfigured, FinishRefresh, ClearRunning, JobOK, Job
      <3>. QED BY <1>3, <2>1, <3>1 DEF FinishUnconfigured, FinishRefresh
    <2>2. CASE Claim(w) \/ ReadSettings(w) \/ ReadSucceeds(w) \/ ReadFails(w) \/ Release(w)
      BY <1>1, <2>2 DEF Claim, ReadSettings, ReadSucceeds, ReadFails, Release
    <2>. QED BY <1>4, <1>5, <1>6, <1>7, <2>1, <2>2 DEF Work
  <1>8. ASSUME NEW w \in Workers, GiveUp(w)
        PROVE  Shown(id)'
    <2>1. job[w].id \in IDs /\ UNCHANGED snapshots
      BY <1>8 DEF GiveUp, JobOK, Job
    <2>. QED BY <1>1, <1>3, <1>8, <2>1 DEF GiveUp
  <1>9. ASSUME NEW caller \in Callers, QueueNext(caller)
        PROVE  Shown(id)'
    <2>1. PICK i \in IDs : QueueRefresh(i, pc) /\ UNCHANGED snapshots
      BY <1>9 DEF QueueNext
    <2>. QED BY <2>1, QueueRefreshShows
  <1>10. CASE Scheduler \/ Requests \/ Shutdown \/ UNCHANGED vars \/ \E w \in Workers : Acquire(w)
    BY <1>1, <1>10 DEF Scheduler, StartRun, QueueAll, TimerFires, RunExits, Requests,
                       RefreshAllHTTP, RefreshOneHTTP, DirectRefresh, Shutdown, vars, Acquire
  <1>. QED BY <1>2, <1>7, <1>8, <1>9, <1>10 DEF Next

\* Attention is kept by a step that leaves the goroutine and the configuration alone.
LEMMA AttentionKept ==
    ASSUME NEW w \in Workers, NEW id \in IDs, Attends(w, id),
           pc'[w] = pc[w], job'[w] = job[w], cfg'.sources[id] = cfg.sources[id]
    PROVE  Attends(w, id)'
  BY DEF Attends

\* A goroutine that attends to id goes on until there is something to show.
LEMMA AttentionHandedOn ==
    ASSUME Types, OneHolder, BookkeepingAgrees, QueuedHasGoroutine, RunningHasGoroutine,
           FinishedShown, [Next]_vars,
           NEW w \in Workers, NEW id \in IDs, Attends(w, id), id \in Configured,
           GiveUp(w) \/ Acquire(w) \/ Work(w)
    PROVE  Awaited(id)'
  <1>. USE DEF Types, TypeOK
  <1>0. /\ job[w].id = id /\ job[w].ctx # "caller" /\ cfg' = cfg
        /\ pc[w] # "idle" /\ job[w] \in Job
    <2>1. \A next \in Configs : ~Reload(next)
      BY DEF GiveUp, Acquire, Work, FinishQueued, Goto, Reload, Claim, FinishUnconfigured,
             MarkAttempt, ReadSettings, ReadSucceeds, ReadFails, Publish, MarkFailure,
             FinishRefresh, ClearRunning, Requeue, Release
    <2>. QED BY <2>1, OnlyReloadConfigures DEF Attends, JobOK, Refreshing
  <1>1. CASE GiveUp(w)
    BY <1>0, <1>1 DEF GiveUp, Cancelled, Awaited
  <1>2. CASE Acquire(w)
    <2>1. Attends(w, id)'
      BY <1>0, <1>2 DEF Acquire, Goto, Attends
    <2>. QED BY <2>1 DEF Awaited
  <1>3. CASE Claim(w)
    <2>1. Attends(w, id)'
      BY <1>0, <1>3 DEF Claim, Goto, Attends, Refreshing, Job
    <2>. QED BY <2>1 DEF Awaited
  <1>4. CASE MarkAttempt(w) \/ ReadSucceeds(w) \/ ReadFails(w)
    <2>1. Attends(w, id)'
      BY <1>0, <1>4 DEF MarkAttempt, ReadSucceeds, ReadFails, Goto, Attends, Refreshing
    <2>. QED BY <2>1 DEF Awaited
  <1>5. CASE ReadSettings(w)
    <2>1. Attends(w, id)'
      BY <1>0, <1>5 DEF ReadSettings, Goto, Attends, Refreshing, Job
    <2>. QED BY <2>1 DEF Awaited
  <1>6. CASE Publish(w) \/ MarkFailure(w)
    <2>1. CASE Current(w)
      BY <1>0, <1>6, <2>1, OutcomeShown DEF Awaited
    <2>2. CASE ~Current(w)
      <3>1. Attends(w, id)'
        BY <1>0, <1>6, <2>2 DEF Publish, MarkFailure, AfterRefresh, Goto, Attends, Current
      <3>. QED BY <3>1 DEF Awaited
    <2>. QED BY <2>1, <2>2
  <1>7. CASE FinishRefresh(w)
    <2>1. ~Current(w)
      BY <1>0, <1>7 DEF FinishRefresh, ClearRunning, Attends, Current, Refreshing
    <2>2. Attends(w, id)'
      BY <1>0, <1>7, <2>1 DEF FinishRefresh, ClearRunning, Goto, Attends
    <2>. QED BY <2>2 DEF Awaited
  <1>8. CASE Requeue(w)
    <2>. DEFINE pcs == [pc EXCEPT ![w] = "release"]
    <2>1. /\ QueueRefresh(id, pcs) /\ pcs \in [Workers -> Labels] /\ pc[w] = "requeue"
          /\ \A v \in Workers \ {w} : pcs[v] = pc[v]
          /\ running' = running
      BY <1>0, <1>8 DEF Requeue, Labels, Holding
    <2>. HIDE DEF pcs
    <2>2. id \notin running
      <3>1. SUFFICES ASSUME id \in running PROVE FALSE
        OBVIOUS
      <3>2. PICK v \in Workers : pc[v] \in Refreshing \cup {"finish"}
        BY <3>1 DEF RunningHasGoroutine
      <3>3. v # w /\ pc[v] \in Holding /\ pc[w] \in Holding
        BY <2>1, <3>2 DEF Refreshing, Holding
      <3>. QED BY <3>3 DEF OneHolder
    <2>3. CASE id \in queued
      <3>1. PICK v \in Workers : WaitsFor(v, id)
        BY <2>3 DEF QueuedHasGoroutine, WaitsFor
      <3>2. v # w /\ pc'[v] = pc[v] /\ job'[v] = job[v]
        <4>1. v # w /\ pc[v] # "idle" /\ pcs[v] = pc[v]
          BY <2>1, <3>1 DEF WaitsFor
        <4>2. pcs \in [Workers -> {"idle", "waiting"} \cup Holding]
          BY <2>1 DEF Labels
        <4>. QED BY <2>1, <4>1, <4>2, QueueRefreshTypes
      <3>3. Attends(v, id)'
        BY <3>1, <3>2 DEF WaitsFor, Attends
      <3>. QED BY <3>3 DEF Awaited
    <2>4. CASE id \notin queued
      <3>1. queued' = queued \cup {id} /\ id \notin queued
        BY <2>1, <2>2, <2>4 DEF QueueRefresh, InProgress
      <3>2. PICK v \in Workers : WaitsFor(v, id)'
        BY <2>1, <3>1, QueueRefreshStarts
      <3>3. Attends(v, id)'
        BY <3>2 DEF WaitsFor, Attends
      <3>. QED BY <3>3 DEF Awaited
    <2>. QED BY <2>3, <2>4
  <1>9. ~FinishUnconfigured(w) /\ ~Release(w)
    BY DEF Attends, FinishUnconfigured, Release, Refreshing
  <1>. QED BY <1>1, <1>2, <1>3, <1>4, <1>5, <1>6, <1>7, <1>8, <1>9 DEF Work

\* A turn of a loop that queues ids leaves the id to a goroutine.
LEMMA TurnAttended ==
    ASSUME Types, QueuedHasGoroutine, RunningHasGoroutine, FinishedShown,
           NEW caller \in Callers, NEW id \in todo[caller], QueueRefresh(id, pc),
           UNCHANGED <<cfg, snapshots>>, id \in Configured
    PROVE  Shown(id)' \/ \E w \in Workers : Attends(w, id)'
  <1>. USE DEF Types, TypeOK
  <1>0. id \in IDs /\ pc \in [Workers -> Labels]
    BY DEF Labels
  <1>1. ASSUME NEW w \in Workers, Attends(w, id)
        PROVE  Attends(w, id)'
    <2>1. pc[w] # "idle"
      BY <1>1 DEF Attends, Refreshing
    <2>2. pc'[w] = pc[w] /\ job'[w] = job[w]
      BY <1>0, <2>1, QueueRefreshTypes DEF Labels
    <2>. QED BY <1>0, <1>1, <2>2, AttentionKept
  <1>2. CASE id \in queued
    <2>1. PICK w \in Workers : WaitsFor(w, id)
      BY <1>2 DEF QueuedHasGoroutine, WaitsFor
    <2>2. Attends(w, id)
      BY <2>1 DEF WaitsFor, Attends
    <2>. QED BY <1>1, <2>2
  <1>3. CASE id \in running
    <2>1. PICK w \in Workers : WorksOn(w, id)
      BY <1>3 DEF RunningHasGoroutine, WorksOn
    <2>2. CASE Attends(w, id)
      BY <1>1, <2>2
    <2>3. CASE ~Attends(w, id)
      <3>1. pc[w] = "finish" /\ Current(w) /\ job[w].id = id
        BY <2>1, <2>3 DEF WorksOn, Attends, Current
      <3>2. Shown(id)
        BY <3>1 DEF FinishedShown
      <3>. QED BY <1>0, <3>2, QueueRefreshShows
    <2>. QED BY <2>2, <2>3
  <1>4. CASE id \notin queued /\ id \notin running
    <2>1. queued' = queued \cup {id}
      BY <1>4 DEF QueueRefresh, InProgress
    <2>2. PICK w \in Workers : WaitsFor(w, id)'
      BY <1>0, <1>4, <2>1, QueueRefreshStarts
    <2>3. Attends(w, id)'
      BY <2>2 DEF WaitsFor, Attends
    <2>. QED BY <2>3
  <1>. QED BY <1>2, <1>3, <1>4

\* A reload queues what it adds or changes and keeps what is shown for the rest.
LEMMA ReloadCovers ==
    ASSUME Types, BookkeepingAgrees, Covered, NEW next \in Configs, Reload(next),
           ~ComesBackTooLate
    PROVE  Covered'
  <1>. USE DEF Types, TypeOK
  <1>0. /\ cfg' = next /\ UNCHANGED <<pc, job, runLoop, stopped>>
        /\ todo["reload"] = {} /\ "reload" \in Callers
        /\ todo' = [todo EXCEPT !["reload"] =
                      IF next.reader # cfg.reader
                      THEN {id \in IDs : next.sources[id] # None}
                      ELSE SourceChanges(next)]
    BY DEF Reload, Callers
  <1>1. ASSUME NEW id \in IDs, next.sources[id] = cfg.sources[id], Shown(id), id \in Configured
        PROVE  Shown(id)'
    BY <1>1 DEF Reload, StillCurrent, Shown, BookkeepingAgrees
  <1>2. FinishedShown'
    <2>1. SUFFICES ASSUME NEW w \in Workers, pc[w] = "finish",
                          next.sources[job[w].id] = job[w].image
                   PROVE  Shown(job[w].id)'
      BY <1>0 DEF FinishedShown, Current
    <2>2. job[w].id \in IDs /\ job[w].image \in Images
      BY <2>1 DEF JobOK, Job
    <2>3. Current(w)
      BY <1>0, <2>1 DEF ComesBackTooLate, Current
    <2>4. Shown(job[w].id) /\ job[w].id \in Configured
      BY <2>1, <2>2, <2>3, NoneAssumption DEF Covered, FinishedShown, Current, Configured
    <2>5. ASSUME NEW id \in IDs, id = job[w].id PROVE Shown(id)'
      BY <1>1, <2>1, <2>3, <2>4, <2>5 DEF Current
    <2>6. job' = job
      BY <1>0
    <2>. QED BY <2>2, <2>5, <2>6 DEF Shown
  <1>3. ASSUME NEW id \in Configured'
        PROVE  Awaited(id)'
    <2>1. id \in IDs /\ next.sources[id] # None
      BY <1>0 DEF Configured
    <2>2. CASE next.sources[id] # cfg.sources[id]
      <3>1. id \in todo'["reload"]
        BY <1>0, <2>1, <2>2 DEF SourceChanges
      <3>. QED BY <1>0, <3>1 DEF Awaited
    <2>3. CASE next.sources[id] = cfg.sources[id]
      <3>1. id \in Configured /\ Awaited(id)
        BY <2>1, <2>3 DEF Configured, Covered
      <3>2. CASE Shown(id)
        BY <1>1, <2>1, <2>3, <3>1, <3>2 DEF Awaited
      <3>3. ASSUME NEW caller \in Callers, id \in todo[caller]
            PROVE  Awaited(id)'
        <4>1. caller # "reload"
          BY <1>0, <3>3
        <4>2. todo'[caller] = todo[caller]
          BY <1>0, <4>1
        <4>. QED BY <3>3, <4>2 DEF Awaited
      <3>4. ASSUME NEW w \in Workers, Attends(w, id)
            PROVE  Awaited(id)'
        <4>1. Attends(w, id)'
          BY <1>0, <2>1, <2>3, <3>4, AttentionKept
        <4>. QED BY <4>1 DEF Awaited
      <3>5. CASE runLoop \in {"start", "queue"} \/ stopped
        BY <1>0, <3>5 DEF Awaited
      <3>. QED BY <3>1, <3>2, <3>3, <3>4, <3>5 DEF Awaited
    <2>. QED BY <2>2, <2>3
  <1>. QED BY <1>2, <1>3 DEF Covered

\* Whoever arrives at the last section with its source unchanged has something to show.
LEMMA FinishedShownNext ==
    ASSUME Types, OneHolder, BookkeepingAgrees, FinishedShown, [Next]_vars, cfg' = cfg
    PROVE  FinishedShown'
  <1>. USE DEF Types, TypeOK
  <1>. SUFFICES ASSUME NEW w \in Workers, pc'[w] = "finish", Current(w)'
                PROVE  Shown(job[w].id)'
    BY DEF FinishedShown
  <1>1. CASE pc'[w] = pc[w] /\ job'[w] = job[w]
    <2>1. pc[w] = "finish" /\ Current(w) /\ job[w].id \in IDs /\ job[w].image \in Images
      BY <1>1 DEF Current, JobOK, Job
    <2>2. Shown(job[w].id) /\ job[w].id \in Configured
      BY <2>1, NoneAssumption DEF FinishedShown, Current, Configured
    <2>3. ASSUME NEW id \in IDs, id = job[w].id PROVE Shown(id)'
      BY <2>2, <2>3, ShownKept
    <2>. QED BY <1>1, <2>1, <2>3 DEF Shown
  <1>2. ASSUME ~(pc'[w] = pc[w] /\ job'[w] = job[w])
        PROVE  Publish(w) \/ MarkFailure(w)
    <2>1. pc[w] # "idle"
      <3>1. SUFFICES ASSUME pc[w] = "idle" PROVE FALSE
        OBVIOUS
      <3>2. ~Acquire(w) /\ ~Work(w)
        BY <3>1 DEF Acquire, Work, Claim, FinishUnconfigured, MarkAttempt, ReadSettings,
           ReadSucceeds, ReadFails, Publish, MarkFailure, FinishRefresh, ClearRunning,
           Requeue, Release
      <3>3. ASSUME NEW v \in Workers, Acquire(v) PROVE FALSE
        BY <3>1, <3>2, <3>3 DEF Acquire, Goto
      <3>4. ASSUME NEW v \in Workers, Work(v) PROVE FALSE
        BY <3>1, <3>2, <3>4, WorkMoves
      <3>. QED BY <3>1, <3>3, <3>4, OtherMoves
    <2>2. ~GiveUp(w) /\ ~Acquire(w)
      BY DEF GiveUp, FinishQueued, Acquire, Goto
    <2>3. Work(w)
      BY <1>2, <2>1, <2>2, OnlyOwnSteps
    <2>4. ~Requeue(w)
      <3>1. SUFFICES ASSUME Requeue(w) PROVE FALSE
        OBVIOUS
      <3>. DEFINE pcs == [pc EXCEPT ![w] = "release"]
      <3>2. /\ pcs \in [Workers -> Labels] /\ QueueRefresh(job[w].id, pcs)
            /\ job[w].id \in IDs /\ pcs[w] = "release" /\ pc[w] = "requeue"
        BY <3>1 DEF Requeue, JobOK, Job, Labels, Holding
      <3>. HIDE DEF pcs
      <3>. QED BY <3>2, QueueRefreshMoves
    <2>5. ~Claim(w) /\ ~FinishUnconfigured(w) /\ ~MarkAttempt(w) /\ ~ReadSettings(w)
      BY DEF Claim, FinishUnconfigured, FinishQueued, MarkAttempt, ReadSettings, Goto
    <2>6. ~ReadSucceeds(w) /\ ~ReadFails(w) /\ ~FinishRefresh(w) /\ ~Release(w)
      BY DEF ReadSucceeds, ReadFails, FinishRefresh, Release, Goto
    <2>. QED BY <2>3, <2>4, <2>5, <2>6 DEF Work
  <1>3. CASE Publish(w) \/ MarkFailure(w)
    <2>1. job' = job /\ job[w].id \in IDs /\ Current(w)
      BY <1>3 DEF Publish, MarkFailure, JobOK, Job, Refreshing, Current
    <2>2. ASSUME NEW id \in IDs, id = job[w].id PROVE Shown(id)'
      BY <1>3, <2>1, <2>2, OutcomeShown
    <2>. QED BY <2>1, <2>2 DEF Shown
  <1>. QED BY <1>1, <1>2, <1>3

\* Every step but one that brings a source back too late leaves no source forgotten.
LEMMA CoveredNext ==
    ASSUME Types, OneHolder, BookkeepingAgrees, NothingStuck, Covered, [Next]_vars,
           ~ComesBackTooLate
    PROVE  Covered'
  <1>. USE DEF Types, TypeOK
  <1>1. CASE \E next \in Configs : Reload(next)
    BY <1>1, ReloadCovers
  <1>2. CASE \A next \in Configs : ~Reload(next)
    <2>0. cfg' = cfg
      BY <1>2, OnlyReloadConfigures
    <2>1. FinishedShown'
      BY <2>0, FinishedShownNext DEF Covered
    <2>2. SUFFICES ASSUME NEW id \in Configured PROVE Awaited(id)'
      BY <2>0, <2>1 DEF Covered, Configured
    <2>3. id \in IDs /\ Awaited(id) /\ cfg'.sources[id] = cfg.sources[id]
      BY <2>0, <2>2 DEF Configured, Covered
    <2>4. CASE Shown(id)
      BY <2>2, <2>3, <2>4, ShownKept DEF Awaited
    <2>5. ASSUME NEW w \in Workers, Attends(w, id) PROVE Awaited(id)'
      <3>1. CASE GiveUp(w) \/ Acquire(w) \/ Work(w)
        BY <2>2, <2>3, <2>5, <3>1, AttentionHandedOn DEF NothingStuck, Covered
      <3>2. CASE ~(GiveUp(w) \/ Acquire(w) \/ Work(w))
        <4>1. pc[w] # "idle"
          BY <2>5 DEF Attends, Refreshing
        <4>2. Attends(w, id)'
          BY <2>3, <2>5, <3>2, <4>1, OnlyOwnSteps, AttentionKept
        <4>. QED BY <4>2 DEF Awaited
      <3>. QED BY <3>1, <3>2
    <2>6. ASSUME NEW caller \in Callers, id \in todo[caller] PROVE Awaited(id)'
      <3>1. CASE id \in todo'[caller]
        BY <3>1 DEF Awaited
      <3>2. CASE id \notin todo'[caller]
        <4>1. CASE \E c \in Callers : QueueNext(c)
          <5>1. /\ QueueRefresh(id, pc) /\ UNCHANGED <<cfg, snapshots>>
            BY <2>6, <3>2, <4>1 DEF QueueNext
          <5>. QED BY <2>2, <2>6, <5>1, TurnAttended DEF Awaited, NothingStuck, Covered
        <4>2. CASE \A c \in Callers : ~QueueNext(c)
          BY <1>2, <2>2, <2>6, <3>2, <4>2
             DEF Next, Scheduler, StartRun, QueueAll, TimerFires, RunExits, Requests,
                 RefreshAllHTTP, RefreshOneHTTP, DirectRefresh, Shutdown, vars, Acquire, GiveUp,
                 Requeue, Work, Claim, FinishUnconfigured, MarkAttempt,
                 ReadSettings, ReadSucceeds, ReadFails, Publish, MarkFailure, FinishRefresh,
                 ClearRunning, Release
        <4>. QED BY <4>1, <4>2
      <3>. QED BY <3>1, <3>2
    <2>7. CASE stopped
      <3>1. stopped'
        BY <1>2, <2>7
           DEF Next, Scheduler, StartRun, QueueAll, TimerFires, RunExits, Requests,
               RefreshAllHTTP, RefreshOneHTTP, DirectRefresh, Shutdown, vars, Acquire, GiveUp,
               QueueNext, Requeue, Work, Claim, FinishUnconfigured, MarkAttempt,
               ReadSettings, ReadSucceeds, ReadFails, Publish, MarkFailure, FinishRefresh,
               ClearRunning, Release
      <3>. QED BY <3>1 DEF Awaited
    <2>8. CASE runLoop \in {"start", "queue"}
      <3>1. CASE QueueAll
        <4>1. id \in todo'["run"] /\ "run" \in Callers
          BY <2>2, <3>1 DEF QueueAll, Callers
        <4>. QED BY <4>1 DEF Awaited
      <3>2. CASE ~QueueAll
        <4>1. runLoop' \in {"start", "queue"}
          BY <1>2, <2>8, <3>2
             DEF Next, Scheduler, StartRun, TimerFires, RunExits, Requests,
                 RefreshAllHTTP, RefreshOneHTTP, DirectRefresh, Shutdown, vars, Acquire, GiveUp,
                 QueueNext, Requeue, Work, Claim, FinishUnconfigured, MarkAttempt,
                 ReadSettings, ReadSucceeds, ReadFails, Publish, MarkFailure, FinishRefresh,
                 ClearRunning, Release
        <4>. QED BY <4>1 DEF Awaited
      <3>. QED BY <3>1, <3>2
    <2>. QED BY <2>3, <2>4, <2>5, <2>6, <2>7, <2>8 DEF Awaited
  <1>. QED BY <1>1, <1>2

\* What is covered is not forgotten.
LEMMA CoveredEnough == Types /\ Covered => NoSourceForgotten
  <1>. SUFFICES ASSUME Types, Covered, NEW id \in Configured, ~Shown(id), ~stopped,
                       runLoop \notin {"start", "queue"},
                       \A caller \in Callers : id \notin todo[caller]
                PROVE  \E w \in Workers : pc[w] \in Holding \cup {"waiting"} /\ job[w].id = id
    BY DEF NoSourceForgotten, Shown
  <1>1. PICK w \in Workers : Attends(w, id)
    BY DEF Covered, Awaited
  <1>. QED BY <1>1 DEF Attends, Holding

\* Until the first reload every goroutine works for the source that is configured.
FirstRead ==
    reloads = 0 =>
        \A w \in Workers :
            pc[w] = "finish" \/ (pc[w] \in Refreshing /\ job[w].ctx # "caller") => Current(w)

\* Claim takes the source from the configuration, and nothing but a reload changes that.
LEMMA FirstReadNext == Types /\ FirstRead /\ [Next]_vars => FirstRead'
  <1>. SUFFICES ASSUME Types, FirstRead, [Next]_vars, reloads' = 0, NEW w \in Workers,
                       pc'[w] = "finish" \/ (pc'[w] \in Refreshing /\ job'[w].ctx # "caller")
                PROVE  Current(w)'
    BY DEF FirstRead
  <1>. USE DEF Types, TypeOK
  <1>1. \A next \in Configs : ~Reload(next)
    BY BoundAssumption DEF Reload
  <1>2. cfg' = cfg /\ reloads = 0
    <2>1. reloads' = reloads
      BY <1>1 DEF Next, Scheduler, StartRun, QueueAll, TimerFires, RunExits, Requests,
           RefreshAllHTTP, RefreshOneHTTP, DirectRefresh, Shutdown, vars, Acquire, GiveUp,
           QueueNext, Requeue, Work, Claim, FinishUnconfigured, MarkAttempt,
           ReadSettings, ReadSucceeds, ReadFails, Publish, MarkFailure, FinishRefresh,
           ClearRunning, Release
    <2>. QED BY <1>1, <2>1, OnlyReloadConfigures
  <1>3. CASE pc'[w] = pc[w] /\ job'[w] = job[w]
    BY <1>2, <1>3 DEF FirstRead, Current
  <1>4. ASSUME pc[w] = "idle" PROVE FALSE
    <2>1. ~Acquire(w) /\ ~Work(w)
      BY <1>4 DEF Acquire, Work, Claim, FinishUnconfigured, MarkAttempt, ReadSettings,
         ReadSucceeds, ReadFails, Publish, MarkFailure, FinishRefresh, ClearRunning,
         Requeue, Release
    <2>2. ASSUME NEW v \in Workers, Acquire(v) PROVE FALSE
      BY <1>4, <2>1, <2>2 DEF Acquire, Goto, Refreshing
    <2>3. ASSUME NEW v \in Workers, Work(v) PROVE FALSE
      BY <1>4, <2>1, <2>3, WorkMoves DEF Refreshing
    <2>. QED BY <1>4, <2>2, <2>3, OtherMoves DEF Refreshing
  <1>5. ~GiveUp(w)
    BY DEF GiveUp, FinishQueued, Goto, Refreshing
  <1>6. ASSUME Acquire(w) PROVE FALSE
    BY <1>6 DEF Acquire, Goto, Refreshing
  <1>7. CASE Claim(w)
    <2>1. job[w] \in Job /\ job'[w].image = cfg.sources[job[w].id] /\ job'[w].id = job[w].id
      BY <1>7 DEF Claim, Goto, JobOK, Job, Refreshing
    <2>. QED BY <1>2, <2>1 DEF Current
  <1>8. CASE MarkAttempt(w) \/ ReadSettings(w) \/ ReadSucceeds(w) \/ ReadFails(w)
    <2>1. /\ pc[w] \in Refreshing /\ pc'[w] # "finish" /\ job[w] \in Job
          /\ job'[w].ctx = job[w].ctx /\ job'[w].id = job[w].id /\ job'[w].image = job[w].image
      BY <1>8 DEF MarkAttempt, ReadSettings, ReadSucceeds, ReadFails, Goto, Refreshing, JobOK, Job
    <2>. QED BY <1>2, <2>1 DEF FirstRead, Current
  <1>9. CASE Publish(w) \/ MarkFailure(w)
    <2>1. pc[w] \in Refreshing /\ job' = job /\ job[w].ctx # "caller"
      BY <1>9 DEF Publish, MarkFailure, AfterRefresh, Goto, Refreshing
    <2>. QED BY <1>2, <2>1 DEF FirstRead, Current
  <1>10. CASE Requeue(w)
    <2>. DEFINE pcs == [pc EXCEPT ![w] = "release"]
    <2>1. /\ pcs \in [Workers -> Labels] /\ QueueRefresh(job[w].id, pcs)
          /\ job[w].id \in IDs /\ pcs[w] = "release" /\ pc[w] = "requeue"
      BY <1>10 DEF Requeue, JobOK, Job, Labels, Holding
    <2>. HIDE DEF pcs
    <2>. QED BY <2>1, QueueRefreshMoves DEF Refreshing
  <1>11. ~FinishUnconfigured(w) /\ ~FinishRefresh(w) /\ ~Release(w)
    BY DEF FinishUnconfigured, FinishQueued, FinishRefresh, Release, Goto, Refreshing
  <1>. QED BY <1>3, <1>4, <1>5, <1>6, <1>7, <1>8, <1>9, <1>10, <1>11, OnlyOwnSteps DEF Work

-----------------------------------------------------------------------------
(* No source has two goroutines, unless its mark is cleared for another one *)

\* Goroutine w stands for a mark of id.
Busy(w, id) == WaitsFor(w, id) \/ WorksOn(w, id)

\* The inductive strengthening of NoDuplicateJobs: whoever works for an id has marked it,
\* and is alone.
Exclusive ==
    /\ \A w \in Workers, id \in IDs : WaitsFor(w, id) => id \in queued
    /\ \A w \in Workers, id \in IDs : WorksOn(w, id) => id \in running
    /\ \A v, w \in Workers, id \in IDs : Busy(v, id) /\ Busy(w, id) => v = w
    /\ \A w \in Workers : pc[w] = "finish" => job[w].ctx # "caller"

\* A goroutine that found its source gone clears a mark that it does not have any more:
\* the source came back and was queued for another goroutine.
ClearsForeignMark ==
    \E w \in Workers : InProgress(job[w].id) /\ FinishUnconfigured(w)

\* A step that clears no mark and has no goroutine stand for another one.
LEMMA MarksUntouched ==
    ASSUME Exclusive, queued' = queued, running' = running,
           \A v \in Workers, id \in IDs : /\ WaitsFor(v, id)' => WaitsFor(v, id)
                                          /\ WorksOn(v, id)' => WorksOn(v, id),
           \A v \in Workers : pc'[v] = "finish" => job'[v].ctx # "caller"
    PROVE  Exclusive'
  BY DEF Exclusive, Busy

\* A step of goroutine w that changes only the marks of the id that it stands for.
LEMMA OwnMarkOnly ==
    ASSUME Exclusive, NEW w \in Workers, NEW own \in IDs, Busy(w, own),
           \A v \in Workers \ {w} : pc'[v] = pc[v] /\ job'[v] = job[v],
           \A id \in IDs \ {own} : /\ id \in queued => id \in queued'
                                   /\ id \in running => id \in running',
           \A id \in IDs : /\ ~WaitsFor(w, id)'
                           /\ WorksOn(w, id)' => id = own /\ id \in running',
           pc'[w] = "finish" => job'[w].ctx # "caller"
    PROVE  Exclusive'
  <1>1. \A v \in Workers \ {w}, id \in IDs : /\ WaitsFor(v, id)' <=> WaitsFor(v, id)
                                             /\ WorksOn(v, id)' <=> WorksOn(v, id)
    BY DEF WaitsFor, WorksOn
  <1>2. \A v \in Workers \ {w} : ~Busy(v, own)
    BY DEF Exclusive
  <1>3. \A v \in Workers, id \in IDs : WaitsFor(v, id)' => id \in queued'
    BY <1>1, <1>2 DEF Exclusive, Busy
  <1>4. \A v \in Workers, id \in IDs : WorksOn(v, id)' => id \in running'
    BY <1>1, <1>2 DEF Exclusive, Busy
  <1>5. \A u, v \in Workers, id \in IDs : Busy(u, id)' /\ Busy(v, id)' => u = v
    BY <1>1, <1>2 DEF Exclusive, Busy
  <1>6. \A v \in Workers : pc'[v] = "finish" => job'[v].ctx # "caller"
    BY DEF Exclusive
  <1>. QED BY <1>3, <1>4, <1>5, <1>6 DEF Exclusive

\* QueueRefresh starts a goroutine only for an id that has none.
LEMMA QueueRefreshExclusive ==
    ASSUME Types, Exclusive, NEW i \in IDs, NEW pcs \in [Workers -> Labels],
           QueueRefresh(i, pcs), running' = running,
           \A v \in Workers : pcs[v] = pc[v] \/ (pc[v] = "requeue" /\ pcs[v] = "release")
    PROVE  Exclusive'
  <1>. USE DEF Types, TypeOK
  <1>1. \A v \in Workers, id \in IDs : /\ pcs[v] \in {"waiting", "claim"} => pc[v] = pcs[v]
                                       /\ pcs[v] \in Refreshing \cup {"finish"} => pc[v] = pcs[v]
    BY DEF Refreshing
  <1>2. CASE pc' = pcs /\ UNCHANGED <<statuses, queued, job>>
    <2>1. \A v \in Workers, id \in IDs : /\ WaitsFor(v, id)' => WaitsFor(v, id)
                                         /\ WorksOn(v, id)' => WorksOn(v, id)
      BY <1>1, <1>2 DEF WaitsFor, WorksOn
    <2>2. \A v \in Workers : pc'[v] = "finish" => job'[v].ctx # "caller"
      BY <1>1, <1>2 DEF Exclusive
    <2>. QED BY <1>2, <2>1, <2>2, MarksUntouched
  <1>3. CASE ~(pc' = pcs /\ UNCHANGED <<statuses, queued, job>>)
    <2>. DEFINE ctx == IF contextSet THEN "run" ELSE "background"
    <2>1. PICK w \in Workers : /\ ~InProgress(i) /\ queued' = queued \cup {i}
                               /\ Spawn(w, i, ctx, None, pcs)
      BY <1>3 DEF QueueRefresh
    <2>2. ctx \in Contexts /\ ctx # "caller"
      BY DEF Contexts
    <2>. HIDE DEF ctx
    <2>3. /\ pc' = [pcs EXCEPT ![w] = "waiting"]
          /\ job'[w] = [id |-> i, ctx |-> ctx, image |-> None, reader |-> None, version |-> 0]
          /\ \A v \in Workers \ {w} : job'[v] = job[v]
      BY <2>1, <2>2, SpawnTypes DEF Labels
    <2>4. \A v \in Workers \ {w} : pc'[v] = pcs[v] /\ job'[v] = job[v]
      BY <2>3
    <2>5. pc'[w] = "waiting" /\ job'[w].id = i
      BY <2>3
    <2>6. \A v \in Workers : ~Busy(v, i)
      BY <2>1 DEF Exclusive, Busy, InProgress
    <2>7. \A v \in Workers \ {w}, id \in IDs : /\ WaitsFor(v, id)' => WaitsFor(v, id)
                                               /\ WorksOn(v, id)' => WorksOn(v, id)
      BY <1>1, <2>4 DEF WaitsFor, WorksOn
    <2>8. \A id \in IDs : ~WorksOn(w, id)' /\ (WaitsFor(w, id)' => id = i)
      BY <2>5 DEF WaitsFor, WorksOn, Refreshing
    <2>9. \A v \in Workers, id \in IDs : WaitsFor(v, id)' => id \in queued'
      BY <2>1, <2>7, <2>8 DEF Exclusive
    <2>10. \A v \in Workers, id \in IDs : WorksOn(v, id)' => id \in running'
      BY <2>7, <2>8 DEF Exclusive
    <2>11. \A u, v \in Workers, id \in IDs : Busy(u, id)' /\ Busy(v, id)' => u = v
      BY <2>6, <2>7, <2>8 DEF Exclusive, Busy
    <2>12. \A v \in Workers : pc'[v] = "finish" => job'[v].ctx # "caller"
      BY <1>1, <2>4, <2>5 DEF Exclusive
    <2>. QED BY <2>9, <2>10, <2>11, <2>12 DEF Exclusive
  <1>. QED BY <1>2, <1>3

\* Every step but that one keeps the marks exclusive.
LEMMA ExclusiveNext ==
    Types /\ Exclusive /\ [Next]_vars /\ ~ClearsForeignMark => Exclusive'
  <1>. SUFFICES ASSUME Types, Exclusive, [Next]_vars, ~ClearsForeignMark
                PROVE  Exclusive'
    OBVIOUS
  <1>. USE DEF Types, TypeOK
  <1>1. CASE Scheduler \/ Shutdown \/ UNCHANGED vars \/ \E next \in Configs : Reload(next)
    <2>1. UNCHANGED <<pc, job, queued, running>>
      BY <1>1 DEF Scheduler, StartRun, QueueAll, TimerFires, RunExits, Shutdown, Reload, vars
    <2>. QED BY <2>1, MarksUntouched DEF WaitsFor, WorksOn, Exclusive
  <1>2. CASE Requests
    <2>1. queued' = queued /\ running' = running
      BY <1>2 DEF Requests, RefreshAllHTTP, RefreshOneHTTP, DirectRefresh
    <2>2. \A v \in Workers : \/ pc'[v] = pc[v] /\ job'[v] = job[v]
                             \/ pc'[v] = "waiting" /\ job'[v].ctx = "caller"
      BY <1>2 DEF Requests, RefreshAllHTTP, RefreshOneHTTP, DirectRefresh, Spawn
    <2>3. \A v \in Workers, id \in IDs : /\ WaitsFor(v, id)' => WaitsFor(v, id)
                                         /\ WorksOn(v, id)' => WorksOn(v, id)
      BY <2>2 DEF WaitsFor, WorksOn, Refreshing
    <2>4. \A v \in Workers : pc'[v] = "finish" => job'[v].ctx # "caller"
      BY <2>2 DEF Exclusive
    <2>. QED BY <2>1, <2>3, <2>4, MarksUntouched
  <1>3. ASSUME NEW caller \in Callers, QueueNext(caller)
        PROVE  Exclusive'
    <2>1. PICK id \in IDs : QueueRefresh(id, pc) /\ running' = running
      BY <1>3 DEF QueueNext
    <2>2. pc \in [Workers -> Labels]
      BY DEF Labels
    <2>. QED BY <2>1, <2>2, QueueRefreshExclusive
  <1>4. ASSUME NEW w \in Workers, GiveUp(w)
        PROVE  Exclusive'
    <2>1. pc[w] = "waiting" /\ pc'[w] = "idle" /\ job[w] \in Job
          /\ \A v \in Workers \ {w} : pc'[v] = pc[v] /\ job'[v] = job[v]
      BY <1>4 DEF GiveUp, FinishQueued, Goto, JobOK
    <2>2. \A id \in IDs : ~WaitsFor(w, id)' /\ ~WorksOn(w, id)'
      BY <2>1 DEF WaitsFor, WorksOn, Refreshing
    <2>3. CASE job[w].ctx = "caller"
      <3>1. queued' = queued /\ running' = running
        BY <1>4, <2>3 DEF GiveUp, Cancelled
      <3>2. \A v \in Workers, id \in IDs : /\ WaitsFor(v, id)' => WaitsFor(v, id)
                                           /\ WorksOn(v, id)' => WorksOn(v, id)
        BY <2>1, <2>2 DEF WaitsFor, WorksOn
      <3>3. \A v \in Workers : pc'[v] = "finish" => job'[v].ctx # "caller"
        BY <2>1 DEF Exclusive
      <3>. QED BY <3>1, <3>2, <3>3, MarksUntouched
    <2>4. CASE job[w].ctx # "caller"
      <3>1. PICK own \in IDs : own = job[w].id
        BY <2>1 DEF Job
      <3>2. queued' = queued \ {own} /\ running' = running \ {own}
        BY <1>4, <2>4, <3>1 DEF GiveUp, FinishQueued
      <3>3. Busy(w, own)
        BY <2>1, <2>4, <3>1 DEF Busy, WaitsFor
      <3>. QED BY <2>1, <2>2, <3>2, <3>3, OwnMarkOnly
    <2>. QED BY <2>3, <2>4
  <1>5. ASSUME NEW w \in Workers, Claim(w)
        PROVE  Exclusive'
    <2>1. /\ pc[w] = "claim" /\ job[w] \in Job /\ job[w].ctx # "caller"
          /\ \A v \in Workers \ {w} : pc'[v] = pc[v] /\ job'[v] = job[v]
      BY <1>5 DEF Claim, Goto, JobOK
    <2>2. PICK own \in IDs : own = job[w].id
      BY <2>1 DEF Job
    <2>3. Busy(w, own)
      BY <2>1, <2>2 DEF Busy, WaitsFor
    <2>4. queued' = queued \ {own} /\ running \subseteq running'
      BY <1>5, <2>2 DEF Claim
    <2>5. \/ pc'[w] = "attempt" /\ own \in running' /\ job'[w].id = own
          \/ pc'[w] = "unconfigured"
      BY <1>5, <2>1, <2>2 DEF Claim, Goto, Job
    <2>6. \A id \in IDs : ~WaitsFor(w, id)' /\ (WorksOn(w, id)' => id = own /\ id \in running')
      BY <2>5 DEF WaitsFor, WorksOn, Refreshing
    <2>7. pc'[w] # "finish"
      BY <2>5
    <2>. QED BY <2>1, <2>3, <2>4, <2>6, <2>7, OwnMarkOnly
  <1>6. ASSUME NEW w \in Workers, FinishUnconfigured(w)
        PROVE  Exclusive'
    <2>1. ~InProgress(job[w].id)
      BY <1>6 DEF ClearsForeignMark
    <2>2. queued' = queued /\ running' = running
      BY <1>6, <2>1 DEF FinishUnconfigured, FinishQueued, InProgress
    <2>3. \A v \in Workers : (pc'[v] = pc[v] \/ pc'[v] = "release") /\ job'[v] = job[v]
      BY <1>6 DEF FinishUnconfigured, FinishQueued, Goto
    <2>4. \A v \in Workers, id \in IDs : /\ WaitsFor(v, id)' => WaitsFor(v, id)
                                         /\ WorksOn(v, id)' => WorksOn(v, id)
      BY <2>3 DEF WaitsFor, WorksOn, Refreshing
    <2>5. \A v \in Workers : pc'[v] = "finish" => job'[v].ctx # "caller"
      BY <2>3 DEF Exclusive
    <2>. QED BY <2>2, <2>4, <2>5, MarksUntouched
  <1>7. ASSUME NEW w \in Workers,
               \/ Acquire(w) \/ MarkAttempt(w) \/ ReadSettings(w) \/ ReadSucceeds(w)
               \/ ReadFails(w) \/ Publish(w) \/ MarkFailure(w) \/ Release(w)
        PROVE  Exclusive'
    <2>1. queued' = queued /\ running' = running
      BY <1>7 DEF Acquire, MarkAttempt, ReadSettings, ReadSucceeds, ReadFails, Publish,
                  MarkFailure, Release
    <2>2. \A v \in Workers \ {w} : pc'[v] = pc[v] /\ job'[v] = job[v]
      BY <1>7 DEF Acquire, MarkAttempt, ReadSettings, ReadSucceeds, ReadFails, Publish,
                  MarkFailure, Release, Goto
    <2>3. \/ pc'[w] = "idle"
          \/ /\ job'[w].id = job[w].id /\ job'[w].ctx = job[w].ctx
             /\ \/ pc[w] = "waiting" /\ pc'[w] = "claim"
                \/ pc'[w] \in Refreshing /\ (pc[w] \in Refreshing \/ job[w].ctx = "caller")
                \/ pc[w] \in Refreshing /\ pc'[w] = "finish" /\ job[w].ctx # "caller"
                \/ pc'[w] = "release"
      <3>1. CASE Acquire(w)
        BY <3>1 DEF Acquire, Goto, Refreshing
      <3>2. CASE MarkAttempt(w) \/ ReadSucceeds(w) \/ ReadFails(w)
        BY <3>2 DEF MarkAttempt, ReadSucceeds, ReadFails, Goto, Refreshing
      <3>3. CASE ReadSettings(w)
        BY <3>3 DEF ReadSettings, Goto, Refreshing, JobOK, Job
      <3>4. CASE Publish(w) \/ MarkFailure(w)
        BY <3>4 DEF Publish, MarkFailure, AfterRefresh, Goto, Refreshing
      <3>5. CASE Release(w)
        BY <3>5 DEF Release, Goto
      <3>. QED BY <1>7, <3>1, <3>2, <3>3, <3>4, <3>5
    <2>4. \A v \in Workers, id \in IDs : /\ WaitsFor(v, id)' => WaitsFor(v, id)
                                         /\ WorksOn(v, id)' => WorksOn(v, id)
      BY <2>2, <2>3 DEF WaitsFor, WorksOn, Refreshing
    <2>5. \A v \in Workers : pc'[v] = "finish" => job'[v].ctx # "caller"
      BY <2>2, <2>3 DEF Exclusive, Refreshing
    <2>. QED BY <2>1, <2>4, <2>5, MarksUntouched
  <1>8. ASSUME NEW w \in Workers, FinishRefresh(w)
        PROVE  Exclusive'
    <2>1. /\ pc[w] = "finish" /\ job[w] \in Job /\ job[w].ctx # "caller"
          /\ pc'[w] \in {"release", "requeue"} /\ queued' = queued
          /\ \A v \in Workers \ {w} : pc'[v] = pc[v] /\ job'[v] = job[v]
      BY <1>8 DEF FinishRefresh, ClearRunning, Goto, JobOK, Exclusive
    <2>2. PICK own \in IDs : own = job[w].id
      BY <2>1 DEF Job
    <2>3. Busy(w, own) /\ running' = running \ {own}
      BY <1>8, <2>1, <2>2 DEF Busy, WorksOn, FinishRefresh, ClearRunning
    <2>4. \A id \in IDs : ~WaitsFor(w, id)' /\ ~WorksOn(w, id)'
      BY <2>1 DEF WaitsFor, WorksOn, Refreshing
    <2>. QED BY <2>1, <2>3, <2>4, OwnMarkOnly
  <1>9. ASSUME NEW w \in Workers, Requeue(w)
        PROVE  Exclusive'
    <2>. DEFINE pcs == [pc EXCEPT ![w] = "release"]
    <2>1. /\ pcs \in [Workers -> Labels] /\ QueueRefresh(job[w].id, pcs)
          /\ job[w].id \in IDs /\ running' = running
          /\ \A v \in Workers : pcs[v] = pc[v] \/ (pc[v] = "requeue" /\ pcs[v] = "release")
      BY <1>9 DEF Requeue, JobOK, Job, Labels, Holding
    <2>. HIDE DEF pcs
    <2>. QED BY <2>1, QueueRefreshExclusive
  <1>. QED BY <1>1, <1>2, <1>3, <1>4, <1>5, <1>6, <1>7, <1>8, <1>9 DEF Next, Work

\* Goroutines that stand for no id twice are not duplicates of each other.
LEMMA ExclusiveEnough == Types /\ Exclusive => NoDuplicateJobs
  <1>. SUFFICES ASSUME Types, Exclusive, NEW v \in Workers, NEW w \in Workers,
                       pc[v] \in {"waiting", "claim", "finish"} \cup Refreshing,
                       pc[w] \in {"waiting", "claim", "finish"} \cup Refreshing,
                       job[v].ctx # "caller", job[w].ctx # "caller", job[v].id = job[w].id
                PROVE  v = w
    BY DEF NoDuplicateJobs
  <1>1. job[v].id \in IDs
    BY DEF Types, JobOK, Job, Refreshing
  <1>2. Busy(v, job[v].id) /\ Busy(w, job[v].id)
    BY DEF Busy, WaitsFor, WorksOn
  <1>. QED BY <1>1, <1>2 DEF Exclusive

\* A reload that removes a source.
RemovesSource == \E id \in Configured : cfg'.sources[id] = None

\* Nothing is queued but sources that are configured, and no goroutine finds its source gone.
AllFound == queued \subseteq Configured /\ \A w \in Workers : pc[w] # "unconfigured"

\* Only configured sources are queued.
LEMMA QueuesConfigured ==
    ASSUME [Next]_vars
    PROVE  queued' \subseteq queued \cup Configured
  <1>. USE DEF QueueRefresh
  <1>1. CASE Scheduler \/ Requests \/ Shutdown \/ UNCHANGED vars \/ \E next \in Configs : Reload(next)
    BY <1>1 DEF Scheduler, StartRun, QueueAll, TimerFires, RunExits, Requests, RefreshAllHTTP,
                RefreshOneHTTP, DirectRefresh, Shutdown, Reload, vars
  <1>2. CASE \E caller \in Callers : QueueNext(caller)
    BY <1>2 DEF QueueNext
  <1>3. CASE \E w \in Workers : Acquire(w) \/ GiveUp(w) \/ Requeue(w)
    BY <1>3 DEF Acquire, GiveUp, FinishQueued, Requeue
  <1>4. CASE \E w \in Workers : Work(w) /\ ~Requeue(w)
    BY <1>4 DEF Work, Claim, FinishUnconfigured, FinishQueued, MarkAttempt, ReadSettings,
                ReadSucceeds, ReadFails, Publish, MarkFailure, FinishRefresh, ClearRunning, Release
  <1>. QED BY <1>1, <1>2, <1>3, <1>4 DEF Next

\* While no source is removed, every goroutine finds its source.
LEMMA AllFoundNext ==
    ASSUME Types, Exclusive, AllFound, [Next]_vars, ~RemovesSource
    PROVE  AllFound'
  <1>1. queued' \subseteq Configured'
    <2>1. Configured \subseteq Configured'
      BY DEF RemovesSource, Configured
    <2>. QED BY <2>1, QueuesConfigured DEF AllFound
  <1>2. ASSUME NEW w \in Workers, pc[w] # "unconfigured", pc'[w] = "unconfigured"
        PROVE  FALSE
    <2>1. pc[w] # "idle"
      <3>1. ASSUME pc[w] = "idle" PROVE FALSE
        <4>1. ASSUME NEW v \in Workers, Acquire(v) \/ Work(v) PROVE FALSE
          <5>1. CASE Acquire(v)
            BY <1>2, <3>1, <5>1 DEF Acquire, Goto, Types, TypeOK
          <5>2. CASE Work(v)
            <6>1. pc[v] \in Holding /\ v # w
              BY <3>1, <5>2, <1>2, WorkMoves DEF Holding, Refreshing
            <6>. QED BY <1>2, <3>1, <5>2, <6>1, WorkMoves
          <5>. QED BY <4>1, <5>1, <5>2
        <4>. QED BY <1>2, <3>1, <4>1, OtherMoves
      <3>. QED BY <3>1
    <2>2. Acquire(w) \/ GiveUp(w) \/ Work(w)
      BY <1>2, <2>1, OnlyOwnSteps
    <2>3. ~Acquire(w) /\ ~GiveUp(w)
      BY <1>2 DEF Acquire, GiveUp, FinishQueued, Goto, Types, TypeOK
    <2>4. ~Requeue(w)
      <3>1. ASSUME Requeue(w) PROVE FALSE
        <4>. DEFINE pcs == [pc EXCEPT ![w] = "release"]
        <4>1. /\ pcs \in [Workers -> Labels] /\ QueueRefresh(job[w].id, pcs)
              /\ job[w].id \in IDs /\ pcs[w] = "release"
          BY <1>2, <3>1 DEF Requeue, JobOK, Job, Labels, Holding, Types, TypeOK
        <4>. HIDE DEF pcs
        <4>. QED BY <1>2, <4>1, QueueRefreshMoves
      <3>. QED BY <3>1
    <2>5. Claim(w)
      BY <1>2, <2>2, <2>3, <2>4
         DEF Work, FinishUnconfigured, FinishQueued, MarkAttempt, ReadSettings, ReadSucceeds,
             ReadFails, Publish, MarkFailure, AfterRefresh, FinishRefresh, Release, Goto, Types,
             TypeOK
    <2>6. WaitsFor(w, job[w].id) /\ job[w].id \in IDs
      BY <2>5 DEF WaitsFor, Claim, Types, JobOK, Job
    <2>7. job[w].id \in Configured
      BY <2>6 DEF Exclusive, AllFound
    <2>. QED BY <1>2, <2>5, <2>7 DEF Claim, Goto, Types, TypeOK
  <1>. QED BY <1>1, <1>2 DEF AllFound

-----------------------------------------------------------------------------
(* The theorems *)

\* The inductive invariant.
IInv == Types /\ OneHolder /\ BookkeepingAgrees /\ NothingStuck /\ VersionsInOrder

\* The initial states satisfy the inductive invariant.
THEOREM IInvInit == Init => IInv
  <1>. SUFFICES ASSUME Init PROVE IInv
    OBVIOUS
  <1>1. Types
    BY TypesInit
  <1>2. OneHolder
    BY DEF Init, OneHolder, Holding, Refreshing
  <1>3. BookkeepingAgrees
    BY DEF Init, BookkeepingAgrees
  <1>4. NothingStuck
    BY DEF Init, NothingStuck, QueuedHasGoroutine, RunningHasGoroutine, ReportedInProgress
  <1>5. VersionsInOrder
    BY DEF Init, VersionsInOrder
  <1>. QED BY <1>1, <1>2, <1>3, <1>4, <1>5 DEF IInv

\* Every step keeps the inductive invariant.
THEOREM IInvNext == IInv /\ [Next]_vars => IInv'
  BY TypesNext, OneHolderNext, BookkeepingNext, QueuedNext, RunningNext, ReportedNext, VersionsNext
  DEF IInv, NothingStuck

\* So it holds of every reachable state.
THEOREM Invariance == Spec => []IInv
  BY IInvInit, IInvNext, PTL DEF Spec

\* The state of the service keeps its types.
THEOREM TypeCorrect == Spec => []TypeOK
  <1>1. IInv => TypeOK
    BY DEF IInv, Types
  <1>. QED BY <1>1, Invariance, PTL

\* No two refreshes overlap, however many goroutines there are.
THEOREM MutualExclusion == Spec => []OneRefreshAtATime
  <1>1. IInv => OneRefreshAtATime
    BY DEF IInv, OneHolder, OneRefreshAtATime, Holding
  <1>. QED BY <1>1, Invariance, PTL

\* Snapshots and statuses always belong to the sources configured now.
THEOREM Bookkeeping == Spec => []BookkeepingAgrees
  <1>1. IInv => BookkeepingAgrees
    BY DEF IInv
  <1>. QED BY <1>1, Invariance, PTL

\* No id stays marked queued, running or refreshing without a goroutine.
THEOREM NeverStuck == Spec => []NothingStuck
  <1>1. IInv => NothingStuck
    BY DEF IInv
  <1>. QED BY <1>1, Invariance, PTL

\* A source is forgotten in one way only, the one that RefreshForgotten shows: it comes
\* back between the publication section and the last section of the goroutine that read
\* it.  Whatever else reloads, requests, callers of Refresh and the shutdown do, a
\* configured source has a snapshot, an error, or a refresh on its way.
THEOREM OnlyLateReturnsForget ==
    Spec /\ [][~ComesBackTooLate]_vars => []NoSourceForgotten
  <1>1. Init => Covered
    <2>1. Init => runLoop = "start" /\ \A w \in Workers : pc[w] = "idle"
      BY DEF Init
    <2>. QED BY <2>1 DEF Covered, FinishedShown, Awaited
  <1>2. UNCHANGED vars => ~ComesBackTooLate
    BY DEF vars, ComesBackTooLate, Current
  <1>3. IInv /\ Covered /\ [Next]_vars /\ [~ComesBackTooLate]_vars => Covered'
    BY <1>2, CoveredNext DEF IInv
  <1>4. IInv /\ Covered => NoSourceForgotten
    BY CoveredEnough DEF IInv
  <1>. QED BY <1>1, <1>3, <1>4, Invariance, PTL DEF Spec

\* One reload at any moment forgets no source.
THEOREM OneReloadForgetsNothing ==
    ASSUME MaxReloads <= 1
    PROVE  Spec => []NoSourceForgotten
  <1>1. Init => FirstRead
    BY DEF Init, FirstRead, Refreshing
  <1>2. IInv /\ FirstRead /\ [Next]_vars => FirstRead'
    BY FirstReadNext DEF IInv
  <1>3. IInv /\ FirstRead /\ [Next]_vars => [~ComesBackTooLate]_vars
    <2>1. SUFFICES ASSUME IInv, FirstRead, [Next]_vars, ComesBackTooLate PROVE FALSE
      OBVIOUS
    <2>2. PICK w \in Workers : /\ pc[w] = "finish" /\ ~Current(w)
                               /\ job[w].image = cfg'.sources[job[w].id]
      BY <2>1 DEF ComesBackTooLate
    <2>3. reloads # 0
      BY <2>2, <2>1 DEF FirstRead
    <2>4. \A next \in Configs : ~Reload(next)
      BY <2>1, <2>3, BoundAssumption DEF Reload, IInv, Types, TypeOK
    <2>5. cfg' = cfg
      BY <2>1, <2>4, OnlyReloadConfigures
    <2>. QED BY <2>2, <2>5 DEF Current
  <1>. QED BY <1>1, <1>2, <1>3, Invariance, OnlyLateReturnsForget, PTL DEF Spec

\* A source has two goroutines in one way only, the one that RefreshDuplicated shows: a
\* goroutine that found it gone, in a section of its own, clears the mark of a newer one
\* after the source has come back.
THEOREM OnlyForeignClearsDuplicate ==
    Spec /\ [][~ClearsForeignMark]_vars => []NoDuplicateJobs
  <1>1. Init => Exclusive
    <2>1. Init => \A w \in Workers : pc[w] = "idle"
      BY DEF Init
    <2>. QED BY <2>1 DEF Exclusive, Busy, WaitsFor, WorksOn, Refreshing
  <1>2. IInv /\ UNCHANGED vars => ~ClearsForeignMark
    <2>1. SUFFICES ASSUME IInv, UNCHANGED vars,
                          NEW w \in Workers, FinishUnconfigured(w)
                   PROVE  FALSE
      BY DEF ClearsForeignMark
    <2>2. pc[w] = "unconfigured" /\ pc' = [pc EXCEPT ![w] = "release"]
      BY <2>1 DEF FinishUnconfigured, FinishQueued, Goto
    <2>3. pc' = pc /\ w \in DOMAIN pc
      BY <2>1 DEF vars, IInv, Types, TypeOK
    <2>. QED BY <2>2, <2>3
  <1>3. IInv /\ Exclusive /\ [Next]_vars /\ [~ClearsForeignMark]_vars => Exclusive'
    BY <1>2, ExclusiveNext DEF IInv
  <1>4. IInv /\ Exclusive => NoDuplicateJobs
    BY ExclusiveEnough DEF IInv
  <1>. QED BY <1>1, <1>3, <1>4, Invariance, PTL DEF Spec

\* Reloads that add sources and change them, and remove none, duplicate nothing.
THEOREM NothingRemovedNoDuplicates ==
    Spec /\ [][~RemovesSource]_vars => []NoDuplicateJobs
  <1>1. Init => Exclusive /\ AllFound
    <2>1. Init => queued = {} /\ \A w \in Workers : pc[w] = "idle"
      BY DEF Init
    <2>. QED BY <2>1 DEF Exclusive, Busy, WaitsFor, WorksOn, Refreshing, AllFound
  <1>2. IInv /\ UNCHANGED vars => ~RemovesSource
    BY DEF vars, RemovesSource, Configured
  <1>3. AllFound => ~ClearsForeignMark
    BY DEF AllFound, ClearsForeignMark, FinishUnconfigured
  <1>4. IInv /\ Exclusive /\ AllFound /\ [Next]_vars /\ [~RemovesSource]_vars
          => (Exclusive /\ AllFound)'
    BY <1>2, <1>3, ExclusiveNext, AllFoundNext DEF IInv
  <1>5. IInv /\ Exclusive => NoDuplicateJobs
    BY ExclusiveEnough DEF IInv
  <1>. QED BY <1>1, <1>4, <1>5, Invariance, PTL DEF Spec

\* A publication is a replacement that CatalogStore allows, or nothing.
LEMMA PublishReplaces ==
    ASSUME IInv, NEW w \in Workers, Publish(w)
    PROVE  Store!StoreNext \/ UNCHANGED <<cfg, reloads, snapshots>>
  <1>. DEFINE id == job[w].id  image == job[w].image  reader == job[w].reader  v == job[w].version
  <1>1. /\ id \in IDs /\ image \in Images /\ reader \in Readers /\ v \in Nat /\ v <= reloads
        /\ reloads \in Nat /\ pc[w] = "publish"
    BY BoundAssumption DEF IInv, Types, TypeOK, Publish, JobOK, Job, Refreshing, VersionsInOrder
  <1>2. CASE ~Current(w)
    BY <1>2 DEF Publish
  <1>3. CASE Current(w)
    <2>1. /\ cfg.sources[id] = image
          /\ snapshots' = [snapshots EXCEPT ![id] = Store!Snapshot(image, reader, v)]
          /\ UNCHANGED <<cfg, reloads>>
      BY <1>3 DEF Publish, Current, Store!Snapshot
    <2>2. snapshots[id] # None => snapshots[id].version <= v
      BY <1>1 DEF IInv, VersionsInOrder
    <2>3. v \in 0..reloads
      BY <1>1
    <2>. HIDE DEF id, image, reader, v
    <2>4. Store!Replace(id, image, reader, v)
      BY <2>1, <2>2 DEF Store!Replace
    <2>. QED BY <1>1, <2>3, <2>4 DEF Store!StoreNext
  <1>. QED BY <1>2, <1>3

\* The service implements the store its readers see: whole snapshots of the
\* configured source, read with settings that never go back, and dropped only
\* by a new configuration.
THEOREM Refinement == Spec => StoreImplemented
  <1>1. Init => Store!StoreInit
    BY DEF Init, Store!StoreInit
  <1>2. IInv /\ [Next]_vars => [Store!StoreNext]_<<cfg, reloads, snapshots>>
    <2>. SUFFICES ASSUME IInv, [Next]_vars
                  PROVE  Store!StoreNext \/ UNCHANGED <<cfg, reloads, snapshots>>
      OBVIOUS
    <2>1. ASSUME NEW w \in Workers, Publish(w)
          PROVE  Store!StoreNext \/ UNCHANGED <<cfg, reloads, snapshots>>
      BY <2>1, PublishReplaces
    <2>2. ASSUME NEW next \in Configs, Reload(next)
          PROVE  Store!StoreNext
      BY <2>2 DEF Reload, StillCurrent, Store!StoreNext, Store!Configure, Store!RetainedBy
    <2>3. CASE ~(\E next \in Configs : Reload(next)) /\ ~(\E w \in Workers : Publish(w))
      BY <2>3 DEF Next, Scheduler, StartRun, QueueAll, TimerFires, RunExits, Requests,
           RefreshAllHTTP, RefreshOneHTTP, DirectRefresh, Shutdown, vars, Acquire, GiveUp,
           QueueNext, Requeue, Work, Claim, FinishUnconfigured, FinishQueued, MarkAttempt,
           ReadSettings, ReadSucceeds, ReadFails, MarkFailure, FinishRefresh, ClearRunning, Release
    <2>. QED BY <2>1, <2>2, <2>3
  <1>. QED BY <1>1, <1>2, Invariance, PTL DEF Spec, StoreImplemented, Store!StoreSpec, Store!storeVars
=============================================================================

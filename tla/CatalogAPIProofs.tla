--------------------------- MODULE CatalogAPIProofs ---------------------------
(***************************************************************************)
(* Theorems about ConfigWatch and CatalogAPI for all configurations,       *)
(* sources, token files and tokens, and any number of changes to the file. *)
(***************************************************************************)
EXTENDS CatalogAPI, TLAPS

-----------------------------------------------------------------------------
(* The watcher by itself *)

\* Before the server serves, nothing waits for Reload.
NothingPending == process = "starting" => pending = None

WatchInv == WatchTypeOK /\ RememberedIsActive /\ NothingPending

LEMMA WatchStarts == WatchInit => WatchInv
  BY EditsAssumption
  DEF WatchInit, WatchInv, WatchTypeOK, RememberedIsActive, NothingPending, Serving

\* What a content means.
LEMMA ParsedHasType == \A c \in Contents : Parsed[c] \in Configs \cup {None}
  BY ParsedAssumption

LEMMA WatchKeepsType ==
    ASSUME WatchTypeOK, [WatchNext]_watchVars
    PROVE  WatchTypeOK'
  <1>. USE DEF WatchTypeOK
  <1>1. CASE Start
    BY <1>1, ParsedHasType DEF Start, Valid
  <1>2. CASE StartFails
    BY <1>2 DEF StartFails
  <1>3. CASE Exit
    BY <1>3 DEF Exit
  <1>4. CASE Edit
    BY <1>4, EditsAssumption DEF Edit
  <1>5. CASE Poll
    BY <1>5, ParsedHasType DEF Poll
  <1>6. CASE Apply
    BY <1>6 DEF Apply
  <1>7. CASE UNCHANGED watchVars
    BY <1>7 DEF watchVars
  <1>. QED BY <1>1, <1>2, <1>3, <1>4, <1>5, <1>6, <1>7 DEF WatchNext

LEMMA WatchKeeps ==
    ASSUME WatchInv, [WatchNext]_watchVars
    PROVE  WatchInv'
  <1>1. WatchTypeOK /\ WatchTypeOK'
    BY WatchKeepsType DEF WatchInv
  <1>2. RememberedIsActive' /\ NothingPending'
    <2>. USE DEF WatchInv, RememberedIsActive, NothingPending, Serving
    <2>1. CASE Start
      BY <1>1, <2>1, AbsentAssumption DEF Start, Valid, WatchTypeOK
    <2>2. CASE StartFails
      BY <2>2 DEF StartFails
    <2>3. CASE Exit
      BY <2>3 DEF Exit
    <2>4. CASE Edit
      BY <2>4 DEF Edit, Valid
    <2>5. CASE Poll
      BY <2>5 DEF Poll, Valid
    <2>6. CASE Apply
      BY <2>6 DEF Apply, Valid
    <2>7. CASE UNCHANGED watchVars
      BY <2>7 DEF watchVars, Valid
    <2>. QED BY <2>1, <2>2, <2>3, <2>4, <2>5, <2>6, <2>7 DEF WatchNext
  <1>. QED BY <1>1, <1>2 DEF WatchInv

-----------------------------------------------------------------------------
(* The API moves the configuration as the watcher does *)

LEMMA NextIsWatch == [Next]_vars => [WatchNext]_watchVars
  <1>. SUFFICES ASSUME [Next]_vars PROVE [WatchNext]_watchVars
    OBVIOUS
  <1>1. CASE Watch
    BY <1>1 DEF Watch, WatchNext
  <1>2. CASE Reload
    BY <1>2 DEF Reload, WatchNext
  <1>3. CASE Rotate
    BY <1>3 DEF Rotate
  <1>4. CASE Arrive
    BY <1>4 DEF Arrive, Unmoved
  <1>5. CASE Handle
    BY <1>5 DEF Handle, FindSource, ReadSetting, ReadToken, QueueOne, Collect, QueueEach,
                RespondAll, Unmoved
  <1>6. ASSUME NEW id \in IDs, Schedule(id) \/ End(id) \/ Expire(id)
        PROVE  UNCHANGED watchVars
    BY <1>6 DEF Schedule, End, Expire
  <1>7. CASE UNCHANGED vars
    BY <1>7 DEF vars
  <1>. QED BY <1>1, <1>2, <1>3, <1>4, <1>5, <1>6, <1>7 DEF Next

\* The composition follows the file as the watcher by itself: the handlers and the
\* refreshes never touch the configuration (its fairness, which says when the file has to
\* take effect, is beyond this theorem).
THEOREM FollowsTheFile == Spec => WatchInit /\ [][WatchNext]_watchVars
  <1>1. Init => WatchInit
    BY DEF Init
  <1>. QED BY <1>1, NextIsWatch, PTL DEF Spec

LEMMA WatchInvariance == Spec => []WatchInv
  BY FollowsTheFile, WatchStarts, WatchKeeps, PTL

\* The content that the watcher will not read again is in force, waits to be, or was
\* refused, however often the file changes.
THEOREM RememberedContentInForce == Spec => []RememberedIsActive
  <1>1. WatchInv => RememberedIsActive
    BY DEF WatchInv
  <1>. QED BY <1>1, WatchInvariance, PTL

-----------------------------------------------------------------------------
(* Types *)

\* What a configuration says.
LEMMA ConfigFields ==
    ASSUME NEW c \in Configs
    PROVE  /\ c.sources \in [IDs -> Images \cup {None}]
           /\ c.tokenFile \in TokenFiles \cup {None}
           /\ ConfiguredIn(c) \subseteq IDs
  <1>1. c \in Config
    BY ConfigsAssumption
  <1>2. PICK sources \in [IDs -> Images \cup {None}], tokenFile \in TokenFiles \cup {None} :
           c = [sources |-> sources, tokenFile |-> tokenFile]
    BY <1>1 DEF Config
  <1>. QED BY <1>2 DEF ConfiguredIn

\* A server has a configuration.
LEMMA ServingHasConfig ==
    ASSUME WatchInv, Serving
    PROVE  cfg \in Configs /\ Configured \subseteq IDs
  <1>1. cfg \in Configs
    BY DEF WatchInv, WatchTypeOK, RememberedIsActive
  <1>. QED BY <1>1, ConfigFields DEF Configured

LEMMA NoRequestHasType == NoRequest \in Request
  BY DEF NoRequest, Request, Steps

LEMMA RespondHasType ==
    ASSUME NEW status \in Statuses
    PROVE  [NoRequest EXCEPT !.status = status] \in Request
  BY DEF NoRequest, Request, Steps

\* What is noted is a request.
LEMMA WitnessHasType ==
    ASSUME request \in Request, NEW tokenFile \in TokenFiles \cup {None}, NEW contents,
           NEW configured \in SUBSET IDs
    PROVE  Witness(tokenFile, contents, configured) \in Request
  BY DEF Witness, Request, Matching

\* The part of TypeOK that the watcher does not know.
CatalogTypeOK ==
    /\ snapshots \in [IDs -> Images \cup {None}]
    /\ expired \subseteq IDs
    /\ inProgress \subseteq IDs
    /\ secrets \in [TokenFiles -> Tokens \cup {None}]
    /\ request \in Request

LEMMA HandlersKeepType ==
    ASSUME WatchInv, CatalogTypeOK, Arrive \/ Handle
    PROVE  CatalogTypeOK'
  <1>. USE DEF CatalogTypeOK
  <1>0. Serving /\ cfg \in Configs /\ Configured \subseteq IDs
        /\ cfg.tokenFile \in TokenFiles \cup {None}
    <2>1. Serving
      BY DEF Arrive, Handle, FindSource, ReadSetting, ReadToken, QueueOne, Collect,
             QueueEach, RespondAll, At
    <2>. QED BY <2>1, ServingHasConfig, ConfigFields
  <1>1. ASSUME Unmoved, inProgress' \subseteq IDs, request' \in Request PROVE CatalogTypeOK'
    BY <1>1 DEF Unmoved
  <1>2. \A step \in Steps : Continue(step) => request' \in Request
    BY DEF Continue, Request
  <1>3. \A status \in Statuses : Respond(status) => request' \in Request
    BY RespondHasType DEF Respond
  <1>4. CASE Arrive
    <2>1. PICK all \in BOOLEAN, id \in IDs, credential \in Credentials :
            request' = [NoRequest EXCEPT
                        !.step = IF all THEN "setting" ELSE "find", !.all = all, !.id = id,
                        !.credential = credential, !.enabled = {cfg.tokenFile} \ {None},
                        !.matched = Matching(secrets, credential),
                        !.throughout = Configured]
      BY <1>4 DEF Arrive
    <2>2. request' \in Request
      <3>1. Matching(secrets, credential) \subseteq TokenFiles
        BY DEF Matching
      <3>2. (IF all THEN "setting" ELSE "find") \in Steps /\ {cfg.tokenFile} \ {None} \subseteq TokenFiles
        BY <1>0 DEF Steps
      <3>3. \A step \in Steps, files, matched \in SUBSET TokenFiles, throughout \in SUBSET IDs :
               [NoRequest EXCEPT !.step = step, !.all = all, !.id = id,
                                 !.credential = credential, !.enabled = files,
                                 !.matched = matched, !.throughout = throughout] \in Request
        BY NoRequestHasType DEF Request
      <3>. QED BY <1>0, <2>1, <3>1, <3>2, <3>3
    <2>. QED BY <1>1, <1>4, <2>2 DEF Arrive
  <1>5. CASE FindSource
    BY <1>1, <1>2, <1>3, <1>5 DEF FindSource, Steps, Statuses
  <1>6. CASE ReadSetting
    <2>1. CASE cfg.tokenFile = None
      BY <1>1, <1>3, <1>6, <2>1 DEF ReadSetting, Statuses
    <2>2. CASE cfg.tokenFile # None
      <3>. DEFINE path == cfg.tokenFile
      <3>1. request' = [request EXCEPT !.step = "token", !.tokenFile = path]
        BY <1>6, <2>2 DEF ReadSetting
      <3>2. path \in TokenFiles \cup {None} /\ "token" \in Steps
        BY <1>0 DEF Steps
      <3>. HIDE DEF path
      <3>3. request' \in Request
        <4>1. \A r \in Request, step \in Steps, f \in TokenFiles \cup {None} :
                 [r EXCEPT !.step = step, !.tokenFile = f] \in Request
          BY DEF Request
        <4>2. request \in Request
          OBVIOUS
        <4>. QED BY <3>1, <3>2, <4>1, <4>2
      <3>. QED BY <1>1, <1>6, <3>3 DEF ReadSetting
    <2>. QED BY <2>1, <2>2
  <1>7. CASE ReadToken
    BY <1>1, <1>2, <1>3, <1>7 DEF ReadToken, Authorized, Steps, Statuses
  <1>8. CASE QueueOne
    BY <1>0, <1>1, <1>3, <1>8 DEF QueueOne, Queued, Statuses
  <1>9. CASE Collect
    <2>1. request' \in Request
      BY <1>0, <1>9 DEF Collect, Request, Steps
    <2>. QED BY <1>1, <1>9, <2>1 DEF Collect
  <1>10. CASE QueueEach
    <2>1. PICK id \in request.todo :
            /\ inProgress' = inProgress \cup Queued(id)
            /\ request' = [request EXCEPT !.todo = @ \ {id}, !.accepted = @ \cup Queued(id)]
      BY <1>10 DEF QueueEach
    <2>2. Queued(id) \subseteq IDs
      BY <1>0 DEF Queued
    <2>3. request' \in Request /\ inProgress' \subseteq IDs
      BY <2>1, <2>2 DEF Request
    <2>. QED BY <1>1, <1>10, <2>3 DEF QueueEach
  <1>11. CASE RespondAll
    BY <1>1, <1>3, <1>11 DEF RespondAll, Statuses
  <1>. QED BY <1>4, <1>5, <1>6, <1>7, <1>8, <1>9, <1>10, <1>11 DEF Handle

LEMMA CatalogsKeepType ==
    ASSUME WatchInv, CatalogTypeOK, [Next]_vars
    PROVE  CatalogTypeOK'
  <1>. USE DEF CatalogTypeOK
  <1>1. CASE Watch
    BY <1>1 DEF Watch, catalogVars
  <1>2. CASE Reload
    <2>1. pending \in Configs /\ pending.sources \in [IDs -> Images \cup {None}]
          /\ pending.tokenFile \in TokenFiles \cup {None} /\ ConfiguredIn(pending) \subseteq IDs
      BY <1>2, ConfigFields DEF Reload, Apply, WatchInv, WatchTypeOK
    <2>2. snapshots' \in [IDs -> Images \cup {None}]
      BY <1>2 DEF Reload, StillCurrent
    <2>3. request' \in Request
      BY <1>2, <2>1, WitnessHasType DEF Reload
    <2>. QED BY <1>2, <2>2, <2>3 DEF Reload
  <1>3. CASE Rotate
    <2>1. secrets' \in [TokenFiles -> Tokens \cup {None}]
      BY <1>3 DEF Rotate
    <2>2. request' \in Request
      <3>1. CASE Serving
        <4>1. cfg.tokenFile \in TokenFiles \cup {None} /\ Configured \in SUBSET IDs
          BY <3>1, ServingHasConfig, ConfigFields
        <4>2. request' = Witness(cfg.tokenFile, secrets', Configured)
          BY <1>3, <3>1 DEF Rotate
        <4>. QED BY <4>1, <4>2, WitnessHasType
      <3>2. CASE ~Serving
        BY <1>3, <3>2 DEF Rotate
      <3>. QED BY <3>1, <3>2
    <2>. QED BY <1>3, <2>1, <2>2 DEF Rotate
  <1>4. CASE Arrive \/ Handle
    BY <1>4, HandlersKeepType
  <1>5. ASSUME NEW id \in IDs, Schedule(id) PROVE CatalogTypeOK'
    BY <1>5 DEF Schedule
  <1>6. ASSUME NEW id \in IDs, End(id) PROVE CatalogTypeOK'
    <2>1. cfg \in Configs /\ cfg.sources \in [IDs -> Images \cup {None}]
      BY <1>6, ServingHasConfig, ConfigFields DEF End
    <2>2. snapshots' \in [IDs -> Images \cup {None}] /\ expired' \subseteq IDs
      BY <1>6, <2>1 DEF End
    <2>. QED BY <1>6, <2>2 DEF End
  <1>7. ASSUME NEW id \in IDs, Expire(id) PROVE CatalogTypeOK'
    BY <1>7 DEF Expire
  <1>8. CASE UNCHANGED vars
    BY <1>8 DEF vars, catalogVars
  <1>. QED BY <1>1, <1>2, <1>3, <1>4, <1>5, <1>6, <1>7, <1>8 DEF Next

-----------------------------------------------------------------------------
(* The catalogs *)

\* Nothing happens before the server serves.
Untouched ==
    process = "starting" => request = NoRequest /\ \A id \in IDs : snapshots[id] = None

\* Lookups go by the id, but a snapshot of anything else than what this id means now is
\* not kept.
SnapshotsCurrent ==
    Serving => \A id \in IDs : snapshots[id] \in {None, cfg.sources[id]}

LEMMA CatalogsStayCurrent ==
    ASSUME WatchInv, CatalogTypeOK, Untouched, SnapshotsCurrent, [Next]_vars
    PROVE  Untouched' /\ SnapshotsCurrent'
  <1>. USE DEF Untouched, SnapshotsCurrent, Serving
  <1>1. CASE Watch
    BY <1>1 DEF Watch, catalogVars, Start, StartFails, Exit, Edit, Poll
  <1>2. CASE Reload
    BY <1>2 DEF Reload, Apply, StillCurrent
  <1>3. CASE Rotate
    BY <1>3 DEF Rotate, watchVars
  <1>4. CASE Arrive \/ Handle
    BY <1>4 DEF Arrive, Handle, FindSource, ReadSetting, ReadToken, QueueOne, Collect,
                QueueEach, RespondAll, At, Unmoved, watchVars
  <1>5. ASSUME NEW id \in IDs, Schedule(id) PROVE Untouched' /\ SnapshotsCurrent'
    BY <1>5 DEF Schedule, watchVars
  <1>6. ASSUME NEW id \in IDs, End(id) PROVE Untouched' /\ SnapshotsCurrent'
    BY <1>6 DEF End, watchVars, CatalogTypeOK
  <1>7. ASSUME NEW id \in IDs, Expire(id) PROVE Untouched' /\ SnapshotsCurrent'
    BY <1>7 DEF Expire, watchVars
  <1>8. CASE UNCHANGED vars
    BY <1>8 DEF vars, watchVars, catalogVars
  <1>. QED BY <1>1, <1>2, <1>3, <1>4, <1>5, <1>6, <1>7, <1>8 DEF Next

-----------------------------------------------------------------------------
(* The request *)

\* What is noted of a request covers the present moment, and it has no response yet.
NotedNow ==
    /\ Handling => request.status = None
    /\ Serving /\ Handling =>
         /\ {cfg.tokenFile} \ {None} \subseteq request.enabled
         /\ Matching(secrets, request.credential) \subseteq request.matched
         /\ request.throughout \subseteq Configured

\* Beyond the token the request is authorized; a source that was there throughout is
\* behind the loop or still before it.
StepsInOrder ==
    Serving =>
      /\ request.step = "token" => request.tokenFile \in request.enabled
      /\ request.step \in {"queue", "collect", "each"} =>
            request.enabled \cap request.matched # {}
      /\ request.step = "queue" => ~request.all
      /\ request.step \in {"collect", "each"} => request.all
      /\ request.step = "each" => request.throughout \subseteq request.accepted \cup request.todo

RequestInv == NotedNow /\ StepsInOrder

\* What is noted when the configuration or a Secret changes.
LEMMA WitnessFields ==
    ASSUME request \in Request, NEW tokenFile, NEW contents, NEW configured
    PROVE  LET noted == Witness(tokenFile, contents, configured) IN
           /\ noted.step = request.step /\ noted.all = request.all
           /\ noted.credential = request.credential /\ noted.tokenFile = request.tokenFile
           /\ noted.todo = request.todo /\ noted.accepted = request.accepted
           /\ noted.status = request.status
           /\ Handling =>
                 /\ noted.enabled = request.enabled \cup ({tokenFile} \ {None})
                 /\ noted.matched = request.matched \cup Matching(contents, request.credential)
                 /\ noted.throughout = request.throughout \cap configured
  BY DEF Witness, Request

\* A change is noted.
LEMMA ChangeIsNoted ==
    ASSUME CatalogTypeOK, RequestInv, Serving, Serving',
           request' = Witness(cfg'.tokenFile, secrets', Configured')
    PROVE  RequestInv'
  <1>1. CASE request.step = "idle"
    BY <1>1, WitnessFields DEF CatalogTypeOK, RequestInv, NotedNow, StepsInOrder, Handling
  <1>2. CASE request.step # "idle"
    BY <1>2, WitnessFields DEF CatalogTypeOK, RequestInv, NotedNow, StepsInOrder, Handling
  <1>. QED BY <1>1, <1>2

\* From step to step of a handler.
LEMMA HandlersKeepOrder ==
    ASSUME WatchInv, CatalogTypeOK, RequestInv, Arrive \/ Handle
    PROVE  RequestInv'
  <1>. USE DEF RequestInv, NotedNow, StepsInOrder, Handling
  <1>0. Serving /\ cfg \in Configs /\ Configured \subseteq IDs
        /\ cfg.tokenFile \in TokenFiles \cup {None} /\ request \in Request
    <2>1. Serving
      BY DEF Arrive, Handle, FindSource, ReadSetting, ReadToken, QueueOne, Collect,
             QueueEach, RespondAll, At
    <2>. QED BY <2>1, ServingHasConfig, ConfigFields DEF CatalogTypeOK
  <1>a. Unmoved => cfg' = cfg /\ secrets' = secrets /\ Configured' = Configured
    BY DEF Unmoved, watchVars, Configured
  <1>b. \A status \in Statuses : Respond(status) => RequestInv'
    BY DEF Respond, NoRequest
  <1>c. \A step \in Steps : Continue(step) =>
          /\ request'.step = step /\ request'.all = request.all
          /\ request'.credential = request.credential
          /\ request'.tokenFile = request.tokenFile
          /\ request'.todo = request.todo /\ request'.accepted = request.accepted
          /\ request'.status = request.status /\ request'.enabled = request.enabled
          /\ request'.matched = request.matched /\ request'.throughout = request.throughout
    BY <1>0 DEF Continue, Request
  <1>1. CASE Arrive
    <2>1. PICK all \in BOOLEAN, id \in IDs, credential \in Credentials :
            request' = [NoRequest EXCEPT
                        !.step = IF all THEN "setting" ELSE "find", !.all = all, !.id = id,
                        !.credential = credential, !.enabled = {cfg.tokenFile} \ {None},
                        !.matched = Matching(secrets, credential),
                        !.throughout = Configured]
      BY <1>1 DEF Arrive
    <2>2. /\ request'.step \in {"setting", "find"} /\ request'.status = None
          /\ request'.enabled = {cfg.tokenFile} \ {None}
          /\ request'.matched = Matching(secrets, request'.credential)
          /\ request'.throughout = Configured
      BY <2>1 DEF NoRequest
    <2>. QED BY <1>1, <1>a, <2>2 DEF Arrive, Matching
  <1>2. CASE FindSource
    BY <1>0, <1>2, <1>a, <1>b, <1>c DEF FindSource, Steps, Statuses, At, Matching
  <1>3. CASE ReadSetting
    <2>1. CASE cfg.tokenFile = None
      BY <1>3, <1>b, <2>1 DEF ReadSetting, Statuses
    <2>2. CASE cfg.tokenFile # None
      <3>1. request' = [request EXCEPT !.step = "token", !.tokenFile = cfg.tokenFile]
        BY <1>3, <2>2 DEF ReadSetting
      <3>2. /\ request'.step = "token" /\ request'.tokenFile = cfg.tokenFile
            /\ request'.credential = request.credential
            /\ request'.status = request.status /\ request'.enabled = request.enabled
            /\ request'.matched = request.matched
            /\ request'.throughout = request.throughout
        BY <1>0, <3>1 DEF Request
      <3>. QED BY <1>0, <1>3, <1>a, <2>2, <3>2 DEF ReadSetting, At, Matching
    <2>. QED BY <2>1, <2>2
  <1>4. CASE ReadToken
    <2>1. CASE secrets[request.tokenFile] = None \/ secrets[request.tokenFile] # request.credential
      BY <1>4, <1>b, <2>1 DEF ReadToken, Statuses
    <2>2. CASE secrets[request.tokenFile] # None /\ secrets[request.tokenFile] = request.credential
      <3>1. request.tokenFile \in request.enabled \cap request.matched
        BY <1>0, <1>4, <2>2 DEF ReadToken, At, Matching, Request
      <3>2. Continue(IF request.all THEN "collect" ELSE "queue") /\ Unmoved
        BY <1>4, <2>2 DEF ReadToken, Authorized
      <3>. QED BY <1>0, <1>4, <1>a, <1>c, <3>1, <3>2 DEF ReadToken, Steps, Matching, At
    <2>. QED BY <2>1, <2>2
  <1>5. CASE QueueOne
    BY <1>5, <1>b DEF QueueOne, Statuses
  <1>6. CASE Collect
    BY <1>0, <1>6, <1>a DEF Collect, At, Request, Matching
  <1>7. CASE QueueEach
    <2>1. PICK id \in request.todo :
            request' = [request EXCEPT !.todo = @ \ {id}, !.accepted = @ \cup Queued(id)]
      BY <1>7 DEF QueueEach
    <2>2. request.throughout \subseteq Configured
      BY <1>0, <1>7 DEF QueueEach, At
    <2>3. request.throughout \subseteq request'.accepted \cup request'.todo
      BY <1>0, <1>7, <2>1, <2>2 DEF QueueEach, At, Request, Queued
    <2>. QED BY <1>0, <1>7, <1>a, <2>1, <2>3 DEF QueueEach, At, Request, Matching
  <1>8. CASE RespondAll
    BY <1>8, <1>b DEF RespondAll, Statuses
  <1>. QED BY <1>1, <1>2, <1>3, <1>4, <1>5, <1>6, <1>7, <1>8 DEF Handle

LEMMA RequestStaysInOrder ==
    ASSUME WatchInv, CatalogTypeOK, Untouched, RequestInv, [Next]_vars
    PROVE  RequestInv'
  <1>a. ASSUME UNCHANGED <<cfg, process, secrets, request>> PROVE RequestInv'
    BY <1>a DEF RequestInv, NotedNow, StepsInOrder, Handling, Serving, Configured
  <1>1. CASE Watch
    <2>1. CASE Start
      BY <1>1, <2>1 DEF Watch, catalogVars, Start, Untouched, NoRequest, RequestInv, NotedNow,
                        StepsInOrder, Handling
    <2>2. CASE StartFails \/ Exit
      BY <1>1, <2>2 DEF Watch, catalogVars, StartFails, Exit, RequestInv, NotedNow, StepsInOrder,
                        Serving, Handling
    <2>3. CASE Edit \/ Poll
      BY <1>1, <1>a, <2>3 DEF Watch, catalogVars, Edit, Poll
    <2>. QED BY <1>1, <2>1, <2>2, <2>3 DEF Watch
  <1>2. CASE Reload
    BY <1>2, ChangeIsNoted DEF Reload, Apply, Configured, Serving
  <1>3. CASE Rotate
    <2>1. CASE Serving
      BY <1>3, <2>1, ChangeIsNoted DEF Rotate, watchVars, Configured, Serving
    <2>2. CASE ~Serving
      BY <1>3, <2>2 DEF Rotate, watchVars, Serving, RequestInv, NotedNow, StepsInOrder,
                        Handling
    <2>. QED BY <2>1, <2>2
  <1>4. CASE Arrive \/ Handle
    BY <1>4, HandlersKeepOrder
  <1>5. ASSUME NEW id \in IDs, Schedule(id) \/ End(id) \/ Expire(id) PROVE RequestInv'
    BY <1>5, <1>a DEF Schedule, End, Expire, watchVars
  <1>6. CASE UNCHANGED vars
    BY <1>6, <1>a DEF vars, watchVars, catalogVars
  <1>. QED BY <1>1, <1>2, <1>3, <1>4, <1>5, <1>6 DEF Next

-----------------------------------------------------------------------------
(* What holds at all times *)

IInv == WatchInv /\ CatalogTypeOK /\ Untouched /\ SnapshotsCurrent /\ RequestInv

LEMMA InitHolds == Init => IInv
  <1>. SUFFICES ASSUME Init PROVE IInv
    OBVIOUS
  <1>1. WatchInv
    BY WatchStarts DEF Init
  <1>2. CatalogTypeOK
    BY NoRequestHasType DEF Init, CatalogTypeOK
  <1>3. Untouched /\ SnapshotsCurrent /\ RequestInv
    BY DEF Init, WatchInit, Untouched, SnapshotsCurrent, RequestInv, NotedNow, StepsInOrder,
           Serving, Handling, NoRequest
  <1>. QED BY <1>1, <1>2, <1>3 DEF IInv

LEMMA Inductive == IInv /\ [Next]_vars => IInv'
  BY NextIsWatch, WatchKeeps, CatalogsKeepType, CatalogsStayCurrent, RequestStaysInOrder
  DEF IInv

THEOREM Invariance == Spec => []IInv
  BY InitHolds, Inductive, PTL DEF Spec

\* Every variable has its type, through every change of the configuration.
THEOREM TypeCorrect == Spec => []TypeOK
  <1>1. IInv => TypeOK
    BY DEF IInv, WatchInv, TypeOK, CatalogTypeOK
  <1>. QED BY <1>1, Invariance, PTL

\* Readiness and lookups agree, and no lookup is served what its id meant before.
THEOREM ReadinessMatchesLookups == Spec => []ViewsAgree
  <1>1. ASSUME IInv PROVE ViewsAgree
    <2>. SUFFICES ASSUME Serving
                  PROVE  /\ Ready <=> Configured # {} /\ \A id \in Configured : Serves(id)
                         /\ \A id \in IDs : Serves(id) => snapshots[id] = cfg.sources[id]
      BY DEF ViewsAgree
    <2>1. \A id \in IDs : snapshots[id] \in {None, cfg.sources[id]}
      BY <1>1 DEF IInv, SnapshotsCurrent
    <2>2. \A id \in IDs : id \in Configured <=> cfg.sources[id] # None
      BY DEF Configured, ConfiguredIn
    <2>3. Configured \subseteq IDs
      BY DEF Configured, ConfiguredIn
    <2>. QED BY <2>1, <2>2, <2>3 DEF Ready, Serves
  <1>. QED BY <1>1, Invariance, PTL

\* Of a request, only the two steps behind the authorization queue anything.
LEMMA OnlyQueueingQueues ==
    ASSUME [Next]_vars, request' # request, inProgress' # inProgress
    PROVE  QueueOne \/ QueueEach
  BY DEF Next, Watch, Reload, Rotate, Arrive, Handle, FindSource, ReadSetting, ReadToken,
         Collect, RespondAll, Schedule, End, Expire, catalogVars, vars

\* No refresh begins at a request that was not authorized at some moment.
THEOREM OnlyAuthorizedRefreshes == Spec => RefreshesAuthorized
  <1>1. ASSUME IInv, [Next]_vars, request' # request /\ inProgress' # inProgress
        PROVE  request.enabled \cap request.matched # {}
    BY <1>1, OnlyQueueingQueues
    DEF IInv, RequestInv, StepsInOrder, QueueOne, QueueEach, At
  <1>2. IInv /\ [Next]_vars =>
          [request' # request /\ inProgress' # inProgress =>
              request.enabled \cap request.matched # {}]_vars
    BY <1>1
  <1>. QED BY <1>2, Invariance, PTL DEF Spec, RefreshesAuthorized

\* Nothing else accepts a request that is handled.
LEMMA AcceptedAtTheEnd ==
    ASSUME IInv, [Next]_vars, Handling, request'.status = 202
    PROVE  QueueOne \/ RespondAll
  <1>. SUFFICES ASSUME ~QueueOne, ~RespondAll PROVE FALSE
    OBVIOUS
  <1>1. request \in Request /\ request.status = None /\ None # 202
    BY StatusAssumption DEF IInv, CatalogTypeOK, RequestInv, NotedNow, Statuses
  <1>2. request'.status = 202 /\ request' # request
    BY <1>1
  <1>3. \A step \in Steps : Continue(step) => request'.status = None
    BY <1>1 DEF Continue, Request
  <1>4. \A status \in Statuses \ {202} : Respond(status) => request'.status # 202
    BY DEF Respond, NoRequest
  <1>5. CASE Reload \/ Rotate
    BY <1>1, <1>2, <1>5, WitnessFields DEF Reload, Rotate
  <1>6. CASE Arrive \/ Watch
    BY <1>2, <1>6 DEF Arrive, At, Handling, Watch, catalogVars
  <1>7. CASE FindSource \/ ReadSetting \/ ReadToken
    <2>1. CASE FindSource
      BY <1>1, <1>2, <1>3, <1>4, <2>1 DEF FindSource, Steps, Statuses
    <2>2. CASE ReadSetting
      <3>1. CASE cfg.tokenFile = None
        BY <1>2, <1>4, <2>2, <3>1 DEF ReadSetting, Statuses
      <3>2. CASE cfg.tokenFile # None
        <4>1. request' = [request EXCEPT !.step = "token", !.tokenFile = cfg.tokenFile]
          BY <2>2, <3>2 DEF ReadSetting
        <4>. QED BY <1>1, <1>2, <4>1 DEF Request
      <3>. QED BY <3>1, <3>2
    <2>3. CASE ReadToken
      BY <1>1, <1>2, <1>3, <1>4, <2>3 DEF ReadToken, Authorized, Steps, Statuses
    <2>. QED BY <1>7, <2>1, <2>2, <2>3
  <1>8. CASE Collect \/ QueueEach
    <2>1. CASE Collect
      <3>1. request' = [request EXCEPT !.step = "each", !.todo = Configured]
        BY <2>1 DEF Collect
      <3>. QED BY <1>1, <1>2, <3>1 DEF Request
    <2>2. CASE QueueEach
      <3>1. PICK id \in request.todo :
              request' = [request EXCEPT !.todo = @ \ {id}, !.accepted = @ \cup Queued(id)]
        BY <2>2 DEF QueueEach
      <3>. QED BY <1>1, <1>2, <3>1 DEF Request
    <2>. QED BY <1>8, <2>1, <2>2
  <1>9. ASSUME NEW id \in IDs, Schedule(id) \/ End(id) \/ Expire(id) PROVE FALSE
    BY <1>2, <1>9 DEF Schedule, End, Expire
  <1>10. CASE UNCHANGED vars
    BY <1>2, <1>10 DEF vars, catalogVars
  <1>. QED BY <1>5, <1>6, <1>7, <1>8, <1>9, <1>10 DEF Next, Handle

\* "Queues every configured catalog": none that was configured all the time is passed
\* over, and one that is named and accepted is queued or running.
THEOREM EveryCatalogQueued == Spec => NothingPassedOver
  <1>1. ASSUME IInv, [Next]_vars, Handling /\ request'.status = 202
        PROVE  IF request.all THEN request.throughout \subseteq request.accepted
               ELSE request.id \in Configured \cap inProgress'
    <2>1. CASE RespondAll
      BY <1>1, <2>1 DEF IInv, RequestInv, StepsInOrder, RespondAll, At
    <2>2. CASE QueueOne
      <3>1. ~request.all
        BY <1>1, <2>2 DEF IInv, RequestInv, StepsInOrder, QueueOne, At
      <3>2. request.id \in Configured
        BY <1>1, <2>2 DEF QueueOne, Respond, NoRequest
      <3>. QED BY <2>2, <3>1, <3>2 DEF QueueOne, Queued
    <2>. QED BY <1>1, <2>1, <2>2, AcceptedAtTheEnd
  <1>2. IInv /\ [Next]_vars =>
          [Handling /\ request'.status = 202 =>
              IF request.all THEN request.throughout \subseteq request.accepted
              ELSE request.id \in Configured \cap inProgress']_vars
    BY <1>1
  <1>. QED BY <1>2, Invariance, PTL DEF Spec, NothingPassedOver
=============================================================================

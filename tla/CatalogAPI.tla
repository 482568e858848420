------------------------------ MODULE CatalogAPI ------------------------------
(***************************************************************************)
(* The handlers of the HTTP API that look at the catalogs or ask for a     *)
(* refresh, on top of a configuration that follows its file (ConfigWatch)  *)
(* and of a store of snapshots that refreshes fill (CatalogStore).         *)
(*                                                                         *)
(* A handler that reads takes one look under Service.mu.  A handler that   *)
(* asks for a refresh takes several, and reads the token file between two  *)
(* of them with no lock held: the configuration, the token and the         *)
(* refreshes can change before, between and after.                         *)
(***************************************************************************)
EXTENDS ConfigWatch, FiniteSets

CONSTANTS
    IDs,         \* source identifiers
    Images,      \* the rest of a source
    TokenFiles,  \* where refreshTokenFile can point to
    Tokens,      \* bearer tokens
    Credentials  \* the tokens that clients send

\* What the handlers use of a configuration.
Config == [sources : [IDs -> Images \cup {None}], tokenFile : TokenFiles \cup {None}]

\* The responses to a request for a refresh.
Statuses == {202, 401, 404, 503}

ASSUME ConfigsAssumption == Configs \subseteq Config
ASSUME NoneAssumption    == None \notin Images \cup TokenFiles \cup Tokens
ASSUME StatusAssumption  == None \notin Statuses
ASSUME ClientsAssumption == Credentials \subseteq Tokens

VARIABLES
    snapshots,  \* Service.snapshots: the source each one was read from, or None
    expired,    \* the ids of the snapshots that are older than maxSnapshotAge
    inProgress, \* Service.queued and Service.running, which are not told apart
    secrets,    \* the token in each file; None if there is none to be read
    request     \* one request for a refresh

catalogVars == <<snapshots, expired, inProgress, secrets, request>>
vars == <<watchVars, catalogVars>>

Steps == {"idle", "find", "setting", "token", "queue", "collect", "each"}

\* The locals of refreshOneHTTP and refreshAllHTTP with authorizeRefresh, the status of
\* the last response and, as auxiliary fields, what was the case at some moment or all
\* the time while the request was handled: the settings in force, the files that held
\* its credential, and the sources that were configured throughout.
Request ==
    [step : Steps, all : BOOLEAN, id : IDs \cup {None}, credential : Credentials \cup {None},
     tokenFile : TokenFiles \cup {None}, todo : SUBSET IDs, accepted : SUBSET IDs,
     status : Statuses \cup {None},
     enabled : SUBSET TokenFiles, matched : SUBSET TokenFiles, throughout : SUBSET IDs]

ConfiguredIn(c) == {id \in IDs : c.sources[id] # None}
Configured == ConfiguredIn(cfg)
Handling == request.step # "idle"
At(step) == Serving /\ request.step = step

-----------------------------------------------------------------------------
(* One look: readiness, status, lists, lookups *)

\* ready compares the source of each snapshot with the configured one.
Ready ==
    /\ Configured # {}
    /\ \A id \in Configured : snapshots[id] = cfg.sources[id] /\ id \notin expired

\* snapshot and freshStatusLocked do not: they go by the id.
Serves(id) == snapshots[id] # None /\ id \notin expired

-----------------------------------------------------------------------------
(* The configuration changes *)

\* The files that hold a credential.
Matching(contents, credential) == {f \in TokenFiles : contents[f] = credential}

\* What is noted for the request that is being handled.
Witness(tokenFile, contents, configured) ==
    IF Handling
    THEN [request EXCEPT !.enabled = @ \cup ({tokenFile} \ {None}),
                         !.matched = @ \cup Matching(contents, request.credential),
                         !.throughout = @ \cap configured]
    ELSE request

\* Seeded fault: only the snapshots of removed ids are dropped, not those of ids that
\* now mean something else.
StillCurrentByID(next) ==
    [id \in IDs |-> IF next.sources[id] = None THEN None ELSE snapshots[id]]

\* Reload: a snapshot stays if its source is still configured as it was; whether it has
\* expired is a question for the new maxSnapshotAge.
StillCurrent(next) ==
    [id \in IDs |-> IF snapshots[id] = next.sources[id] THEN snapshots[id] ELSE None]

Reload ==
    /\ Apply
    /\ snapshots' = StillCurrent(pending)
    /\ expired' \in SUBSET {id \in IDs : snapshots'[id] # None}
    /\ request' = Witness(pending.tokenFile, secrets, ConfiguredIn(pending))
    /\ UNCHANGED <<inProgress, secrets>>

\* The steps of the watcher that the handlers do not see.
Watch ==
    /\ Start \/ StartFails \/ Exit \/ Edit \/ Poll
    /\ UNCHANGED catalogVars

\* A mounted Secret is rotated, or cannot be read for a while.
Rotate ==
    /\ \E f \in TokenFiles, t \in Tokens \cup {None} :
          secrets' = [secrets EXCEPT ![f] = t]
    /\ request' = IF Serving THEN Witness(cfg.tokenFile, secrets', Configured) ELSE request
    /\ UNCHANGED <<watchVars, snapshots, expired, inProgress>>

-----------------------------------------------------------------------------
(* The refreshes, as far as the handlers see them *)

\* QueueRefresh by Run or Reload.
Schedule(id) ==
    /\ Serving /\ id \in Configured
    /\ inProgress' = inProgress \cup {id}
    /\ UNCHANGED <<watchVars, snapshots, expired, secrets, request>>

\* A refresh ends.  It publishes a snapshot of the source that is configured now, or
\* nothing, because it has failed or what it read is not configured any more.
End(id) ==
    /\ Serving /\ id \in inProgress
    /\ inProgress' = inProgress \ {id}
    /\ \/ /\ id \in Configured
          /\ snapshots' = [snapshots EXCEPT ![id] = cfg.sources[id]]
          /\ expired' = expired \ {id}
       \/ UNCHANGED <<snapshots, expired>>
    /\ UNCHANGED <<watchVars, secrets, request>>

\* A snapshot gets older than maxSnapshotAge.
Expire(id) ==
    /\ Serving /\ Serves(id)
    /\ expired' = expired \cup {id}
    /\ UNCHANGED <<watchVars, snapshots, inProgress, secrets, request>>

-----------------------------------------------------------------------------
(* A request for a refresh *)

\* Everything but the request and the refreshes stays as it is.
Unmoved == UNCHANGED <<watchVars, snapshots, expired, secrets>>

NoRequest ==
    [step |-> "idle", all |-> FALSE, id |-> None, credential |-> None,
     tokenFile |-> None, todo |-> {}, accepted |-> {}, status |-> None,
     enabled |-> {}, matched |-> {}, throughout |-> {}]

\* POST for one source, or for all of them, with some bearer token.
Arrive ==
    /\ At("idle")
    /\ \E all \in BOOLEAN, id \in IDs, credential \in Credentials :
          request' = [NoRequest EXCEPT
                        !.step = IF all THEN "setting" ELSE "find", !.all = all, !.id = id,
                        !.credential = credential, !.enabled = {cfg.tokenFile} \ {None},
                        !.matched = Matching(secrets, credential),
                        !.throughout = Configured]
    /\ Unmoved /\ UNCHANGED inProgress

Continue(step)  == request' = [request EXCEPT !.step = step]
Respond(status) == request' = [NoRequest EXCEPT !.status = status]

\* hasSource: an unknown source is not found, whoever asks.
FindSource ==
    /\ At("find")
    /\ IF request.id \in Configured THEN Continue("setting") ELSE Respond(404)
    /\ Unmoved /\ UNCHANGED inProgress

\* authorizeRefresh looks for the name of the token file under the lock.
ReadSetting ==
    /\ At("setting")
    /\ IF cfg.tokenFile = None THEN Respond(404)
       ELSE request' = [request EXCEPT !.step = "token", !.tokenFile = cfg.tokenFile]
    /\ Unmoved /\ UNCHANGED inProgress

Authorized == Continue(IF request.all THEN "collect" ELSE "queue")

\* Seeded fault: a token file that cannot be read does not stop the request.
ReadTokenLenient ==
    /\ At("token")
    /\ IF secrets[request.tokenFile] \in {None, request.credential}
       THEN Authorized ELSE Respond(401)
    /\ Unmoved /\ UNCHANGED inProgress

\* Then it reads the file, for each request anew, and compares.
ReadToken ==
    /\ At("token")
    /\ LET token == secrets[request.tokenFile] IN
       IF token = None THEN Respond(503)
       ELSE IF token # request.credential THEN Respond(401) ELSE Authorized
    /\ Unmoved /\ UNCHANGED inProgress

\* QueueRefresh: a source that is configured is queued, running, or queued from now on;
\* of any other the state is empty.
Queued(id) == {id} \cap Configured

\* refreshHTTP, for one source that can be gone by now.
QueueOne ==
    /\ At("queue")
    /\ inProgress' = inProgress \cup Queued(request.id)
    /\ Respond(IF request.id \in Configured THEN 202 ELSE 404)
    /\ Unmoved

\* refreshAllHTTP collects the ids under the lock ...
Collect ==
    /\ At("collect")
    /\ request' = [request EXCEPT !.step = "each", !.todo = Configured]
    /\ Unmoved /\ UNCHANGED inProgress

\* Seeded fault: the loop stops at a source that is gone.
QueueEachUntilGone ==
    /\ At("each")
    /\ \E id \in request.todo :
          /\ inProgress' = inProgress \cup Queued(id)
          /\ request' = [request EXCEPT
                           !.todo = IF id \in Configured THEN @ \ {id} ELSE {},
                           !.accepted = @ \cup Queued(id)]
    /\ Unmoved

\* ... and queues them one by one afterwards.
QueueEach ==
    /\ At("each")
    /\ \E id \in request.todo :
          /\ inProgress' = inProgress \cup Queued(id)
          /\ request' = [request EXCEPT !.todo = @ \ {id}, !.accepted = @ \cup Queued(id)]
    /\ Unmoved

RespondAll ==
    /\ At("each") /\ request.todo = {}
    /\ Respond(202)
    /\ Unmoved /\ UNCHANGED inProgress

Handle ==
    \/ FindSource \/ ReadSetting \/ ReadToken \/ QueueOne
    \/ Collect \/ QueueEach \/ RespondAll

-----------------------------------------------------------------------------
(* Specification *)

Init ==
    /\ WatchInit
    /\ snapshots = [id \in IDs |-> None]
    /\ expired = {} /\ inProgress = {}
    /\ secrets \in [TokenFiles -> Tokens \cup {None}]
    /\ request = NoRequest

Next ==
    \/ Watch \/ Reload \/ Rotate \/ Arrive \/ Handle
    \/ \E id \in IDs : Schedule(id) \/ End(id) \/ Expire(id)

\* The watcher's, as in ConfigWatch.
Fairness ==
    /\ WF_vars(Start /\ UNCHANGED catalogVars)
    /\ WF_vars(Poll /\ UNCHANGED catalogVars)
    /\ WF_vars(Reload)

Spec == Init /\ [][Next]_vars /\ Fairness

-----------------------------------------------------------------------------
(* Properties *)

TypeOK ==
    /\ WatchTypeOK
    /\ snapshots \in [IDs -> Images \cup {None}]
    /\ expired \subseteq IDs
    /\ inProgress \subseteq IDs
    /\ secrets \in [TokenFiles -> Tokens \cup {None}]
    /\ request \in Request

\* The handlers agree about the catalogs at every moment: the service is ready exactly
\* when every lookup of a configured source would be served, and what any lookup by id
\* is served is the source that this id means now, although snapshot does not ask.
ViewsAgree ==
    Serving =>
      /\ Ready <=> Configured # {} /\ \A id \in Configured : Serves(id)
      /\ \A id \in IDs : Serves(id) => snapshots[id] = cfg.sources[id]

\* No request makes a refresh begin unless, while it was handled, the control was
\* enabled with some token file and that file held the token that the request carries,
\* however the configuration and the Secret changed in between.
RefreshesAuthorized ==
    [][request' # request /\ inProgress' # inProgress =>
          request.enabled \cap request.matched # {}]_vars

\* docs/API.md, POST /v1/refresh: "Queues every configured catalog."  A source that is
\* configured all the time is queued or running when it is passed, whatever else is
\* removed or added meanwhile; and a single source that was accepted is.
NothingPassedOver ==
    [][Handling /\ request'.status = 202 =>
          IF request.all THEN request.throughout \subseteq request.accepted
          ELSE request.id \in Configured \cap inProgress']_vars
=============================================================================

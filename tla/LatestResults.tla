--------------------------- MODULE LatestResults ---------------------------
(***************************************************************************)
(* What retaining OpenShift lookups promises: for each exact lookup at     *)
(* most one complete result, always from the upstream that is configured   *)
(* now and from a lookup started under this configuration, and never       *)
(* replaced by the result of a lookup that was started earlier, not even   *)
(* after the result was forgotten to make room for another one.            *)
(***************************************************************************)
EXTENDS Naturals

CONSTANTS Requests,  \* exact lookups: channel, architecture, version and lag
          URLs,      \* upstream graphs
          None

VARIABLES url,     \* the configured upstream
          epoch,   \* how often the upstream has changed
          newest,  \* the latest started lookup that has ever been published
          results  \* the result kept for each request, or None

latestVars == <<url, epoch, newest, results>>

LatestInit ==
    /\ url \in URLs
    /\ epoch = 0
    /\ newest = [r \in Requests |-> 0]
    /\ results = [r \in Requests |-> None]

\* Another upstream: nothing learnt from the previous one is kept.
Switch(next) ==
    /\ next # url
    /\ url' = next
    /\ epoch' = epoch + 1
    /\ results' = [r \in Requests |-> None]
    /\ UNCHANGED newest

\* A later lookup replaces the result of r; at most one other one is forgotten.
Keep(r, forgotten) ==
    /\ newest' \in [Requests -> Nat]
    /\ newest'[r] > newest[r]
    /\ \A k \in Requests \ {r} : newest'[k] = newest[k]
    /\ results' = [k \in Requests |->
                     IF k = r THEN [url |-> url, epoch |-> epoch, attempt |-> newest'[r]]
                     ELSE IF k = forgotten THEN None ELSE results[k]]
    /\ UNCHANGED <<url, epoch>>

LatestNext ==
    \/ \E next \in URLs : Switch(next)
    \/ \E r \in Requests, forgotten \in Requests \cup {None} : Keep(r, forgotten)

LatestSpec == LatestInit /\ [][LatestNext]_latestVars
=============================================================================

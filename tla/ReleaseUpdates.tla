--------------------------- MODULE ReleaseUpdates ---------------------------
(***************************************************************************)
(* internal/openshift: one lookup of OpenShift releases, Client.Updates.   *)
(*                                                                         *)
(* The lookup asks the update graph for the direct successors of the       *)
(* installed release, holds the newest of them back, asks the release      *)
(* controller for the releases in between, and fits the advisory texts     *)
(* into one response.  The two upstreams are read one after the other:     *)
(* either can fail, and what they publish need not agree.                  *)
(*                                                                         *)
(* Versions are numbers in their order, and a list of releases in that     *)
(* order is a set.                                                         *)
(***************************************************************************)
EXTENDS Naturals, FiniteSetsExt

CONSTANTS
    Versions,  \* versions of releases
    Previews,  \* those that are prereleases
    Requests,  \* what clients ask for
    Graphs,    \* what the update graph can be
    Streams,   \* what the tags of the release controller can be
    Sizes,     \* the sizes of advisory texts
    MaxBytes,  \* maxAggregateChangelogBytes
    Summary,   \* the size of the text that stands for one that is left out
    None

\* Whether a stream is known to describe the releases of the graph depends on the
\* configured URLs and on the architecture.
Request == [current : Versions, lag : Nat, streamKnown : BOOLEAN]
Graph   == {g \in [nodes : SUBSET Versions, edges : SUBSET (Versions \X Versions),
                   advisories : SUBSET Versions] :
               g.edges \subseteq g.nodes \X g.nodes /\ g.advisories \subseteq g.nodes}
Stream  == [Versions -> {"Accepted", "Rejected", None}]

ASSUME VersionsAssumption == Versions \subseteq Nat /\ IsFiniteSet(Versions)
ASSUME InputsAssumption   == Requests \subseteq Request /\ Graphs \subseteq Graph /\ Streams \subseteq Stream
ASSUME SizesAssumption    == Sizes \subseteq Nat \ {0} /\ MaxBytes \in Nat /\ Summary \in Nat
ASSUME NoneAssumption     == None \notin Request \cup Graph \cup Stream \cup {"Accepted", "Rejected"}

VARIABLES
    pc,          \* what the lookup is doing
    req,         \* the request
    graph,       \* the update graph as it was read
    tags,        \* the tags as they were read
    candidates,  \* the installed release and those it may be updated to
    deprecated,  \* the releases listed for their texts only
    content,     \* the size of the text of each release, 0 if it has none
    fetched,     \* auxiliary: the same before texts were left out
    unfitted,    \* the releases whose texts have not been fitted in
    remaining    \* what is left of MaxBytes

vars == <<pc, req, graph, tags, candidates, deprecated, content, fetched, unfitted, remaining>>

\* No text.
Blank == [v \in Versions |-> 0]

\* The releases of the response.
Listed == candidates \cup deprecated

-----------------------------------------------------------------------------
(* The update graph *)

Successors(g, v) == {t \in Versions : <<v, t>> \in g.edges} \ {v}

Newer(S, v) == {u \in S : u > v}

\* Seeded fault: one too many is held back.
UpdatesLess(g, r) ==
    LET targets == Successors(g, r.current)
    IN  {t \in targets : Cardinality(Newer(targets, t)) > r.lag}

\* The successors without the newest, as many as the lag says.
Updates(g, r) ==
    LET targets == Successors(g, r.current)
    IN  {t \in targets : Cardinality(Newer(targets, t)) >= r.lag}

Ask(r) ==
    /\ pc \in {"idle", "answered", "failed"}
    /\ req' = r /\ graph' = None /\ tags' = None
    /\ candidates' = {} /\ deprecated' = {}
    /\ content' = Blank /\ fetched' = Blank /\ unfitted' = {} /\ remaining' = MaxBytes
    /\ pc' = "graph"

\* Without an update there is no history to look for.
ReceiveGraph(g) ==
    /\ pc = "graph" /\ req.current \in g.nodes
    /\ graph' = g
    /\ candidates' = {req.current} \cup Updates(g, req)
    /\ pc' = IF Updates(g, req) # {} /\ req.streamKnown THEN "stream" ELSE "enrich"
    /\ UNCHANGED <<req, tags, deprecated, content, fetched, unfitted, remaining>>

\* The request or the graph is bad, or the graph does not have the installed release.
GraphFails ==
    /\ pc = "graph" /\ pc' = "failed"
    /\ UNCHANGED <<req, graph, tags, candidates, deprecated, content, fetched, unfitted, remaining>>

-----------------------------------------------------------------------------
(* The release stream *)

Accepted(t) == {v \in Versions : t[v] = "Accepted"} \ Previews

\* Seeded fault: the history ends at the newest successor.
ReceiveTagsToNewest(t) ==
    /\ pc = "stream"
    /\ tags' = t
    /\ deprecated' = {v \in Accepted(t) :
                        req.current < v /\ v <= Max(Successors(graph, req.current) \cup candidates)} \ candidates
    /\ pc' = "enrich"
    /\ UNCHANGED <<req, graph, candidates, content, fetched, unfitted, remaining>>

\* The accepted releases after the installed one, up to the newest candidate.
ReceiveTags(t) ==
    /\ pc = "stream"
    /\ tags' = t
    /\ deprecated' = {v \in Accepted(t) : req.current < v /\ v <= Max(candidates)} \ candidates
    /\ pc' = "enrich"
    /\ UNCHANGED <<req, graph, candidates, content, fetched, unfitted, remaining>>

\* Seeded fault: the graph alone is good enough.
StreamFailsPartial ==
    /\ pc = "stream" /\ pc' = "enrich"
    /\ UNCHANGED <<req, graph, tags, candidates, deprecated, content, fetched, unfitted, remaining>>

\* No list at all is returned.
StreamFails ==
    /\ pc = "stream" /\ pc' = "failed"
    /\ candidates' = {}
    /\ UNCHANGED <<req, graph, tags, deprecated, content, fetched, unfitted, remaining>>

-----------------------------------------------------------------------------
(* Advisory texts *)

\* The first release of the list is not enriched.  Any advisory may have no text.
Enrich ==
    LET enriched == Listed \ {Min(Listed)} IN
    /\ pc = "enrich"
    /\ content' \in [Versions -> Sizes \cup {0}]
    /\ \A v \in Versions : content'[v] # 0 => v \in enriched \cap graph.advisories
    /\ fetched' = content'
    /\ unfitted' = enriched
    /\ pc' = "fit"
    /\ UNCHANGED <<req, graph, tags, candidates, deprecated, remaining>>

\* What becomes of the text of release v and of what remains.
Keep(v)      == UNCHANGED content /\ remaining' = remaining - content[v]
Summarise(v) == content' = [content EXCEPT ![v] = Summary] /\ remaining' = remaining - Summary
Drop(v)      == content' = [content EXCEPT ![v] = 0] /\ UNCHANGED remaining

\* Seeded fault: a summary always fits.
FitAlways ==
    /\ pc = "fit" /\ unfitted # {}
    /\ LET v == Max(unfitted) IN
          /\ unfitted' = unfitted \ {v}
          /\ IF content[v] <= remaining THEN Keep(v) ELSE Summarise(v)
    /\ UNCHANGED <<pc, req, graph, tags, candidates, deprecated, fetched>>

\* Seeded fault: summaries do not count.
FitFree ==
    /\ pc = "fit" /\ unfitted # {}
    /\ LET v == Max(unfitted) IN
          /\ unfitted' = unfitted \ {v}
          /\ \/ content[v] <= remaining /\ Keep(v)
             \/ /\ content[v] > remaining /\ Summary <= remaining
                /\ content' = [content EXCEPT ![v] = Summary] /\ UNCHANGED remaining
             \/ content[v] > remaining /\ Summary > remaining /\ Drop(v)
    /\ UNCHANGED <<pc, req, graph, tags, candidates, deprecated, fetched>>

\* Seeded fault: the oldest release comes first.
FitOldest ==
    /\ pc = "fit" /\ unfitted # {}
    /\ LET v == Min(unfitted) IN
          /\ unfitted' = unfitted \ {v}
          /\ \/ content[v] <= remaining /\ Keep(v)
             \/ content[v] > remaining /\ Summary <= remaining /\ Summarise(v)
             \/ content[v] > remaining /\ Summary > remaining /\ Drop(v)
    /\ UNCHANGED <<pc, req, graph, tags, candidates, deprecated, fetched>>

\* The newest release comes first.
Fit ==
    /\ pc = "fit" /\ unfitted # {}
    /\ LET v == Max(unfitted) IN
          /\ unfitted' = unfitted \ {v}
          /\ \/ content[v] <= remaining /\ Keep(v)
             \/ content[v] > remaining /\ Summary <= remaining /\ Summarise(v)
             \/ content[v] > remaining /\ Summary > remaining /\ Drop(v)
    /\ UNCHANGED <<pc, req, graph, tags, candidates, deprecated, fetched>>

Answer ==
    /\ pc = "fit" /\ unfitted = {}
    /\ pc' = "answered"
    /\ UNCHANGED <<req, graph, tags, candidates, deprecated, content, fetched, unfitted, remaining>>

-----------------------------------------------------------------------------
(* Specification *)

Init ==
    /\ pc = "idle" /\ req = None /\ graph = None /\ tags = None
    /\ candidates = {} /\ deprecated = {}
    /\ content = Blank /\ fetched = Blank /\ unfitted = {} /\ remaining = MaxBytes

Next ==
    \/ \E r \in Requests : Ask(r)
    \/ \E g \in Graphs : ReceiveGraph(g)
    \/ \E t \in Streams : ReceiveTags(t)
    \/ GraphFails \/ StreamFails \/ Enrich \/ Fit \/ Answer

Spec == Init /\ [][Next]_vars

-----------------------------------------------------------------------------
(* Properties *)

\* What the variables hold: what remains of the budget never falls below zero.
TypeOK ==
    /\ pc \in {"idle", "graph", "stream", "enrich", "fit", "answered", "failed"}
    /\ req \in Requests \cup {None}
    /\ graph \in Graphs \cup {None}
    /\ tags \in Streams \cup {None}
    /\ candidates \subseteq Versions /\ deprecated \subseteq Versions /\ unfitted \subseteq Versions
    /\ content \in [Versions -> Nat] /\ fetched \in [Versions -> Nat]
    /\ remaining \in Nat

\* docs/API.md:333: lag is the "number of newest direct successors to omit": just
\* that many are, all of them if there are no more, and they are the newest; the
\* installed release is retained.
LagExact ==
    pc = "answered" =>
        LET targets == Successors(graph, req.current)
            omitted == targets \ candidates
        IN  /\ candidates \subseteq targets \cup {req.current} /\ req.current \in candidates
            /\ Cardinality(omitted) = Min({req.lag, Cardinality(targets)})
            /\ \A t \in omitted, u \in targets \cap candidates : u < t

\* A release that the lag holds back does not come back as history either, although
\* the release controller has accepted it long ago.
WithheldHidden ==
    \A t \in Versions :
        pc = "answered" /\ t \in Successors(graph, req.current) \ candidates => t \notin Listed

\* docs/OPENSHIFT_RELEASE_ADVISORIES.md: where a stream is known, the response has
\* every accepted release between the installed one and any update it offers; what
\* the stream adds is not eligible, and there is no response without it.
RangeComplete ==
    pc = "answered" =>
        /\ req.streamKnown =>
              \A u \in candidates \ {req.current} :
                  /\ tags # None
                  /\ {v \in Accepted(tags) : req.current < v /\ v < u} \subseteq Listed
        /\ candidates \cap deprecated = {}
        /\ \A v \in deprecated : v \in Accepted(tags) /\ req.current < v /\ \E u \in candidates : v < u

Total(S) == MapThenSumSet(LAMBDA v : content[v], S)

\* The texts of one response stay within MaxBytes, summaries included.
TextsFit == pc = "answered" => Total(Listed) <= MaxBytes

\* A text is left out only if it does not fit beside those of newer releases, and not
\* even summarised only if a summary does not fit either.
NothingOmittedInVain ==
    pc = "answered" =>
        \A v \in Listed :
            LET before == Total(Newer(Listed, v)) IN
            \/ content[v] = fetched[v]
            \/ content[v] = Summary /\ before + fetched[v] > MaxBytes
            \/ content[v] = 0 /\ before + fetched[v] > MaxBytes /\ before + Summary > MaxBytes
=============================================================================

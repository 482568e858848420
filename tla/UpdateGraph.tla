---------------------------- MODULE UpdateGraph ----------------------------
(***************************************************************************)
(* pkg/catalog/resolve.go: the searches that answer a client which follows *)
(* the updates of one package, as Renovate does: it asks for updates from  *)
(* where it is, takes one, and asks again from there.                      *)
(*                                                                         *)
(* The order in which a search takes names from its queue does not show,   *)
(* so the queue is a set.  The order in which it meets channels does: Go   *)
(* visits the keys of a map in any order.                                  *)
(***************************************************************************)
EXTENDS PackageGraph

\* The packages that a catalog may hold.  The reader of this repository marks no
\* bundle and no channel as deprecated; other users of the package can.
CONSTANT Packages

ASSUME PackagesAssumption == Packages \subseteq Package

VARIABLES
    pkg,       \* the package; it does not change while the client follows it
    at,        \* what the client has
    home,      \* auxiliary: the bundle with which it came to its channel
    pc,        \* what the service is doing
    mode,      \* the mode or the selection of the request
    current,   \* the installed bundle
    graph,     \* the channel that is being searched
    queue,     \* names to visit
    seen,      \* names visited, or about to be
    found,     \* versions, or heads, found so far
    todo,      \* channels that have not been looked at
    out        \* releases of channels found so far

search == <<mode, current, graph, queue, seen, found, todo, out>>
vars   == <<pkg, at, home, pc, search>>

Modes    == {"direct", "reachable", "next", "all"}
Releases == [channel : Channels, bundle : Bundles]

\* Nothing is being searched.
NoSearch ==
    /\ mode' = None /\ current' = None /\ graph' = None
    /\ queue' = {} /\ seen' = {} /\ found' = {} /\ todo' = {} /\ out' = <<>>

-----------------------------------------------------------------------------
(* VersionUpdates *)

\* The search starts at the installed bundle, whose version is always offered.
AskVersions(m) ==
    /\ pc = "ready" /\ mode' = m
    /\ \E b \in Bundles :
          /\ Installed(pkg, at, b)
          /\ current' = b /\ queue' = {b} /\ seen' = {b}
          /\ found' = {pkg.version[b]}
    /\ graph' = at.channel
    /\ pc' = "versions"
    /\ UNCHANGED <<pkg, at, home, todo, out>>

\* Seeded fault: a deprecated bundle is not passed through.
VisitBundleSupported(b) ==
    /\ pc = "versions" /\ b \in queue
    /\ LET next == (Successors(pkg, graph, b) \ pkg.deprecated) \ seen IN
          /\ seen' = seen \cup next
          /\ found' = found \cup {pkg.version[s] : s \in next}
          /\ queue' = IF mode = "reachable" THEN (queue \ {b}) \cup next ELSE {}
    /\ UNCHANGED <<pkg, at, home, pc, mode, current, graph, todo, out>>

\* Seeded fault: names are offered.
VisitBundleName(b) ==
    /\ pc = "versions" /\ b \in queue
    /\ LET next == Successors(pkg, graph, b) \ seen IN
          /\ seen' = seen \cup next
          /\ found' = found \cup (next \ pkg.deprecated)
          /\ queue' = IF mode = "reachable" THEN (queue \ {b}) \cup next ELSE {}
    /\ UNCHANGED <<pkg, at, home, pc, mode, current, graph, todo, out>>

\* One bundle is visited.  Deprecated successors are passed through, not offered.
VisitBundle(b) ==
    /\ pc = "versions" /\ b \in queue
    /\ LET next == Successors(pkg, graph, b) \ seen IN
          /\ seen' = seen \cup next
          /\ found' = found \cup {pkg.version[s] : s \in next \ pkg.deprecated}
          /\ queue' = IF mode = "reachable" THEN (queue \ {b}) \cup next ELSE {}
    /\ UNCHANGED <<pkg, at, home, pc, mode, current, graph, todo, out>>

AnswerVersions ==
    /\ pc = "versions" /\ queue = {}
    /\ pc' = "answered"
    /\ UNCHANGED <<pkg, at, home, search>>

-----------------------------------------------------------------------------
(* ChannelReleases *)

AskChannels(m) ==
    /\ pc = "ready" /\ mode' = m
    /\ \E b \in Bundles : Installed(pkg, at, b) /\ current' = b
    /\ todo' = Channels \ (pkg.retired \cup {at.channel})
    /\ pc' = "channels"
    /\ UNCHANGED <<pkg, at, home, graph, queue, seen, found, out>>

\* The next channel is searched from the entries that accept the installed bundle.
VisitChannel(c) ==
    /\ pc = "channels" /\ c \in todo
    /\ todo' = todo \ {c}
    /\ graph' = c
    /\ queue' = Entered(pkg, c, current) /\ seen' = {} /\ found' = {}
    /\ pc' = "heads"
    /\ UNCHANGED <<pkg, at, home, mode, current, out>>

\* Seeded fault: a bundle whose successors have all been seen is a head.
FollowNewPath(b) ==
    /\ pc = "heads" /\ b \in queue
    /\ LET next == Successors(pkg, graph, b) \ seen IN
          /\ seen' = seen \cup {b}
          /\ queue' = (queue \ {b}) \cup next
          /\ found' = IF next \ {b} = {} THEN found \cup ({b} \ pkg.deprecated) ELSE found
    /\ UNCHANGED <<pkg, at, home, pc, mode, current, graph, todo, out>>

\* Seeded fault: a bundle is visited as often as it is met.
FollowAnyPath(b) ==
    /\ pc = "heads" /\ b \in queue
    /\ LET next == Successors(pkg, graph, b) IN
          /\ seen' = seen \cup {b}
          /\ queue' = (queue \ {b}) \cup next
          /\ found' = IF next = {} THEN found \cup ({b} \ pkg.deprecated) ELSE found
    /\ UNCHANGED <<pkg, at, home, pc, mode, current, graph, todo, out>>

\* A bundle that leads nowhere is a head.
FollowPath(b) ==
    /\ pc = "heads" /\ b \in queue
    /\ IF b \in seen
       THEN queue' = queue \ {b} /\ UNCHANGED <<seen, found>>
       ELSE LET next == Successors(pkg, graph, b) IN
            /\ seen' = seen \cup {b}
            /\ queue' = (queue \ {b}) \cup next
            /\ found' = IF next = {} THEN found \cup ({b} \ pkg.deprecated) ELSE found
    /\ UNCHANGED <<pkg, at, home, pc, mode, current, graph, todo, out>>

\* Seeded fault: the installed bundle is returned as the next state.
EndChannelInstalled ==
    /\ pc = "heads" /\ queue = {}
    /\ out' = IF found = {} THEN out
              ELSE Inserted(at.channel, out, [channel |-> graph, bundle |-> current])
    /\ graph' = None /\ seen' = {} /\ found' = {}
    /\ pc' = "channels"
    /\ UNCHANGED <<pkg, at, home, mode, current, queue, todo>>

\* The greatest head stands for the channel; without any the channel is left out.
\* Sorting the releases at the end comes to the same as inserting each of them when
\* it is found.
EndChannel ==
    /\ pc = "heads" /\ queue = {}
    /\ \/ found = {} /\ out' = out
       \/ \E h \in Bundles :
             /\ Greatest(pkg, found, h)
             /\ out' = Inserted(at.channel, out, [channel |-> graph, bundle |-> h])
    /\ graph' = None /\ seen' = {} /\ found' = {}
    /\ pc' = "channels"
    /\ UNCHANGED <<pkg, at, home, mode, current, queue, todo>>

\* The answer is cut to one channel if the client wants the next one.
AnswerChannels ==
    /\ pc = "channels" /\ todo = {}
    /\ out' = IF mode = "next" THEN NextRelease(at.channel, out) ELSE out
    /\ pc' = "answered"
    /\ UNCHANGED <<pkg, at, home, mode, current, graph, queue, seen, found, todo>>

-----------------------------------------------------------------------------
(* The client *)

\* Its position is refused: there is no path from it, or it is not clear which
\* bundle it means.
Refuse ==
    /\ pc = "ready" /\ \A b \in Bundles : ~Installed(pkg, at, b)
    /\ pc' = IF Meant(pkg, at) = {} THEN "no path" ELSE "ambiguous"
    /\ UNCHANGED <<pkg, at, home, search>>

\* It takes a version, and remembers nothing but that.
TakeVersion(v) ==
    /\ pc = "answered" /\ mode \in {"direct", "reachable"} /\ v \in found
    /\ at' = [at EXCEPT !.bundle = None, !.version = v]
    /\ NoSearch
    /\ pc' = "ready" /\ UNCHANGED <<pkg, home>>

\* It takes a channel together with the bundle that comes with it.
TakeChannel(r) ==
    /\ pc = "answered" /\ mode \in {"next", "all"} /\ r \in ToSet(out)
    /\ at' = [channel |-> r.channel, bundle |-> r.bundle, version |-> None]
    /\ home' = r.bundle
    /\ NoSearch
    /\ pc' = "ready" /\ UNCHANGED pkg

\* It stays where it is.
Stay ==
    /\ pc = "answered"
    /\ NoSearch
    /\ pc' = "ready" /\ UNCHANGED <<pkg, at, home>>

-----------------------------------------------------------------------------
(* Specification *)

\* The client has a bundle of one of the channels.
Init ==
    /\ pkg \in Packages
    /\ \E c \in Channels : \E b \in Listed(pkg, c) :
          /\ home = b
          /\ at \in {[channel |-> c, bundle |-> b, version |-> None],
                     [channel |-> c, bundle |-> None, version |-> pkg.version[b]]}
    /\ pc = "ready" /\ mode = None
    /\ current = None /\ graph = None
    /\ queue = {} /\ seen = {} /\ found = {} /\ todo = {} /\ out = <<>>

Next ==
    \/ \E m \in {"direct", "reachable"} : AskVersions(m)
    \/ \E m \in {"next", "all"} : AskChannels(m)
    \/ \E b \in Bundles : VisitBundle(b) \/ FollowPath(b)
    \/ \E c \in Channels : VisitChannel(c)
    \/ \E v \in Versions : TakeVersion(v)
    \/ \E r \in Releases : TakeChannel(r)
    \/ AnswerVersions \/ EndChannel \/ AnswerChannels \/ Refuse \/ Stay

Spec == Init /\ [][Next]_vars

\* A request is worked on until it is answered.
Searching ==
    \/ \E b \in Bundles : VisitBundle(b) \/ FollowPath(b)
    \/ \E c \in Channels : VisitChannel(c)
    \/ AnswerVersions \/ EndChannel \/ AnswerChannels

FairSpec == Spec /\ WF_vars(Searching)

-----------------------------------------------------------------------------
(* Properties *)

\* What is reached from the bundles in start: every set that holds them and the
\* successors of its members holds it.
Reach(p, c, start) ==
    {b \in Bundles : \A closed \in SUBSET Bundles :
        start \subseteq closed /\ (\A x \in closed : Successors(p, c, x) \subseteq closed)
            => b \in closed}

\* The supported bundles of channel c that an update from b may end at.
Heads(p, c, b) ==
    {h \in Reach(p, c, Entered(p, c, b)) \ p.deprecated : Successors(p, c, h) = {}}

\* The variables between two steps of a search.
TypeOK ==
    /\ pkg \in Packages
    /\ at \in Position /\ home \in Bundles
    /\ pc \in {"ready", "versions", "channels", "heads", "answered", "no path", "ambiguous"}
    /\ mode \in Modes \cup {None}
    /\ current \in Bundles \cup {None} /\ graph \in Channels \cup {None}
    /\ queue \subseteq Bundles /\ seen \subseteq Bundles
    /\ found \subseteq IF pc = "heads" THEN Bundles ELSE Versions
    /\ todo \subseteq Channels
    /\ out \in Seq(Releases)

\* The versions offered are those of the supported bundles that the edges of the
\* channel lead to, through deprecated ones, round cycles and along any branch: all
\* of them, and besides the installed version no other.
OffersExact ==
    pc = "answered" /\ mode \in {"direct", "reachable"} =>
        LET next == Successors(pkg, at.channel, current)
            path == IF mode = "direct" THEN next ELSE Reach(pkg, at.channel, next)
        IN  found = {pkg.version[current]} \cup
                    {pkg.version[b] : b \in path \ (pkg.deprecated \cup {current})}

\* The channels offered are those that accept the installed bundle and lead to a
\* supported head, each with the greatest such head, whatever order they were
\* searched in.
ReleasesExact ==
    pc = "answered" /\ mode = "all" =>
        ToSet(out) =
            {r \in Releases : /\ r.channel \notin pkg.retired \cup {at.channel}
                              /\ Greatest(pkg, Heads(pkg, r.channel, current), r.bundle)}

\* A client that takes what it was offered is never told that there is no path from
\* where it then is, and a bundle that it was given is never ambiguous.
NeverLost ==
    /\ pc # "no path"
    /\ pc = "ambiguous" => at.bundle = None

\* A client that goes from version to version, and remembers only the version, stays
\* on the paths of the bundle with which it came to the channel.
StaysOnPath ==
    pc = "answered" /\ mode \in {"direct", "reachable"} =>
        found \subseteq {pkg.version[b] : b \in Reach(pkg, at.channel, {home})}

\* A newer channel of the family is preferred to any other, and the oldest of those.
NextPrefersNewer ==
    LET newer == {c \in Channels \ pkg.retired :
                     /\ SameFamily(at.channel, c) /\ Suffix[c] > Suffix[at.channel]
                     /\ Heads(pkg, c, current) # {}}
    IN  pc = "answered" /\ mode = "next" /\ newer # {} =>
            Len(out) = 1 /\ out[1].channel \in newer
                /\ \A c \in newer : Suffix[out[1].channel] <= Suffix[c]

\* Every request is answered, also when the edges of a channel form a cycle.
SearchesEnd == pc \in {"versions", "channels", "heads"} ~> pc = "answered"
=============================================================================

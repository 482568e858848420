---------------------------- MODULE MCUpdateGraph ----------------------------
(* Instances of UpdateGraph for TLC. *)
EXTENDS UpdateGraph

\* stable-5.10, stable-5.10-eus, stable-5.8 and stable-5.9, in lexical order.
MCChannels == 1 .. 4
MCFamily   == <<"stable", None, "stable", "stable">>
MCSuffix   == <<10, 0, 8, 9>>
MCBundles  == 1 .. 3
MCVersions == {0, 10, 20, 30}

Edge(b, from, range) == [name |-> b, from |-> from, range |-> range]

\* Channel stable-5.8 has all bundles with most edges between them, cycles included.
Eighth ==
    {{Edge(1, from1, {}), Edge(2, from2, {}), Edge(3, from3, range3)} :
        from1 \in {{}, {2}}, from2 \in SUBSET {1, 3}, from3 \in {{1}, {2}}, range3 \in {{}, {10, 30}}}

\* The other channels have an edge or two from them.
OtherChannels ==
    {[tenth |-> {Edge(3, {1, 2}, {})}, eus |-> {Edge(3, {1, 2}, {})}, ninth |-> {Edge(2, {1}, {})}],
     [tenth |-> {Edge(2, {1}, {}), Edge(3, {}, {20})}, eus |-> {},
      ninth |-> {Edge(2, {3}, {}), Edge(3, {1}, {})}],
     [tenth |-> {}, eus |-> {Edge(3, {1}, {})}, ninth |-> {Edge(2, {1}, {})}]}

MCPackages ==
    [channels   : {<<other.tenth, other.eus, eighth, other.ninth>> :
                      other \in OtherChannels, eighth \in Eighth},
     version    : {<<10, 20, 30>>, <<10, 20, 20>>, <<10, 0, 30>>},
     deprecated : {{}, {2}},
     retired    : {{}, {4}}]
=============================================================================

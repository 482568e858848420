-------------------------- MODULE MCReleaseUpdates --------------------------
(* Instances of ReleaseUpdates for TLC. *)
EXTENDS ReleaseUpdates

MCVersions == 1 .. 5
MCPreviews == {4}

\* The installed release is one of the first two.
MCRequests == [current : {1, 2}, lag : 0 .. 2, streamKnown : BOOLEAN]

\* Every set of successors, edges back included; the graph may lack the second
\* release, and all releases have an advisory or only some.
MCGraphs ==
    UNION {{[nodes |-> nodes, edges |-> (nodes \cap {1, 2}) \X targets, advisories |-> advisories] :
               targets \in SUBSET nodes, advisories \in {nodes, {3, 5}}} :
           nodes \in {1 .. 5, {1, 3, 4, 5}}}

\* The stream has accepted the preview and any of the other releases.
MCStreams ==
    {[v \in 1 .. 5 |-> IF v \in accepted \cup {4} THEN "Accepted" ELSE IF v = 3 THEN "Rejected" ELSE None] :
        accepted \in SUBSET {2, 3, 5}}
=============================================================================

-------------------------- MODULE MCSourceExpansion --------------------------
(* Decoded configuration files of every kind, for TLC. *)
EXTENDS SourceExpansion, TLC

CONSTANTS redhat, community, foreign, custom, v1, v2, amd, arm, mips, index

MCBuiltIn == <<redhat, community>>

\* A file that sets nothing but these three lists.
Plain(channels, catalogs, sources) ==
    [channels |-> channels, catalogs |-> catalogs, sources |-> sources,
     platform |-> Unset, interval |-> Unset, timeout |-> Unset, age |-> Unset,
     openshiftTimeout |-> Unset, concurrency |-> 0, tokenFile |-> Unset]

Spelled(version, prefixed) == [version |-> version, prefixed |-> prefixed]
Explicit(id, image, platform) == [id |-> id, image |-> image, platform |-> platform]

Channels == {Spelled(v1, TRUE), Spelled(v1, FALSE), Spelled(v2, FALSE),
             Spelled(Malformed, FALSE)}
Explicits ==
    {Explicit(<<redhat, v1>>, index, Unset), Explicit(<<community, v2>>, index, mips),
     Explicit(<<custom>>, index, Unset), Explicit(<<custom>>, Unset, arm),
     Explicit(Unset, index, Unset)}

\* Up to two channels, catalogs and explicit sources of every kind.
SourceFiles ==
    {[Plain(channels, catalogs, sources) EXCEPT !.platform = platform] :
        channels \in BoundedSeq(Channels, 2),
        catalogs \in BoundedSeq({redhat, community, foreign}, 2),
        sources \in BoundedSeq(Explicits, 2), platform \in {Unset, mips}}

\* Every combination of durations of four bits.
Durations == (-8..7) \cup {Unset, Malformed}
DurationFiles ==
    {[Plain(<<Spelled(v1, TRUE)>>, <<>>, <<>>)
        EXCEPT !.interval = i, !.timeout = t, !.age = a] :
        i \in Durations, t \in Durations, a \in Durations}

\* The other settings.
SettingFiles ==
    {[Plain(<<Spelled(v1, TRUE)>>, <<>>, <<>>) EXCEPT !.openshiftTimeout = o, !.concurrency = n] :
        o \in {Unset, Malformed, 0}, n \in -1..1}

MCFiles == SourceFiles \cup DurationFiles \cup SettingFiles
=============================================================================

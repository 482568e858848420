------------------------------ MODULE ConfigFile ------------------------------
(***************************************************************************)
(* One file is loaded and resolved, as by every command that takes one.    *)
(* The result is compared with what docs/CONFIGURATION.md says of a file:  *)
(* SourceExpansion is how the code computes it, the definitions here say   *)
(* what it should be.                                                      *)
(***************************************************************************)
EXTENDS SourceExpansion

CONSTANT Files   \* the decoded files that are looked at

\* What the decoder makes of a file of any content.
ASSUME FilesAssumption ==
    \A f \in Files :
        /\ \A list \in {f.channels, f.catalogs, f.sources} : list \in Seq(ToSet(list))
        /\ \A s \in ToSet(f.sources) : s = [id |-> s.id, image |-> s.image, platform |-> s.platform]
        /\ {f.interval, f.timeout, f.age} \subseteq Duration \cup {Unset, Malformed}
        /\ f.concurrency \in Int

VARIABLES
    raw,      \* the decoded file
    loaded,   \* whether it has been loaded
    result    \* the verdict, and the sources that it stands for

fileVars == <<raw, loaded, result>>

FileInit == raw \in Files /\ loaded = FALSE /\ result = Rejected

\* load: Parse and resolve.
Load ==
    /\ ~loaded /\ loaded' = TRUE
    /\ result' = Resolve(raw)
    /\ UNCHANGED raw

FileSpec == FileInit /\ [][Load]_fileVars

-----------------------------------------------------------------------------
(* What a file means *)

Accepted == loaded /\ result.ok
Refused  == loaded /\ ~result.ok

\* The channels of the file without their spelling, the ids that it generates and the
\* ids that it names.
Versions     == {Canonical(c) : c \in ToSet(raw.channels)}
GeneratedIDs == ToSet(Definitions(raw)) \X Versions
ExplicitIDs  == {s.id : s \in ToSet(raw.sources)}

\* What an id of the file stands for.
Meaning(id) ==
    LET platform == OrDefault(raw.platform, DefaultPlatform) IN
    IF id \in ExplicitIDs
    THEN Inherit(CHOOSE s \in ToSet(raw.sources) : s.id = id, platform)
    ELSE Generated(id[1], id[2], platform)

\* The fields that the documentation requires, and no duplicates.
ListsWellFormed ==
    /\ raw.channels # <<>> \/ (raw.sources # <<>> /\ raw.catalogs = <<>>)
    /\ Cardinality(Versions) = Len(raw.channels) /\ Malformed \notin Versions
    /\ Cardinality(ToSet(raw.catalogs)) = Len(raw.catalogs)
    /\ ToSet(raw.catalogs) \subseteq ToSet(BuiltIn)
    /\ Cardinality(ExplicitIDs) = Len(raw.sources)
    /\ \A s \in ToSet(raw.sources) :
          s.id # Unset /\ s.image # Unset /\ s.platform \in Platforms \cup {Unset}

\* The values of the settings, each by itself.
SettingsWellFormed ==
    /\ raw.platform \in Platforms \cup {Unset}
    /\ Malformed \notin {raw.interval, raw.openshiftTimeout}
    /\ ~NotPositive(raw.timeout) /\ ~NotPositive(raw.age)
    /\ raw.concurrency >= 0

\* "maxSnapshotAge must strictly exceed the scheduled refresh interval plus one refresh
\* timeout", as numbers without a width.
RoomForRefresh ==
    OrDefault(raw.age, DefaultAge)
        > EffectiveInterval(raw) + OrDefault(raw.timeout, DefaultTimeout)

-----------------------------------------------------------------------------
(* Properties *)

\* A file is accepted only if it is well formed, and then every id that it generates or
\* names is the id of one source, the explicit one if there is one: the maps of the
\* service and its lookups go by the id.  One that is refused has a defect.
ExpansionExact ==
    /\ Accepted =>
          LET ids == GeneratedIDs \cup ExplicitIDs IN
          /\ ListsWellFormed /\ SettingsWellFormed
          /\ Len(result.list) = Cardinality(ids)
          /\ ToSet(result.list) = {Meaning(id) : id \in ids}
    /\ Refused => ~(ListsWellFormed /\ SettingsWellFormed /\ RoomForRefresh)

\* No accepted file has too short a maxSnapshotAge, up to the greatest durations there
\* are, and none is refused for it that leaves the room.
AgeCheckExact ==
    /\ Accepted => RoomForRefresh
    /\ Refused /\ ListsWellFormed /\ SettingsWellFormed => ~RoomForRefresh
=============================================================================

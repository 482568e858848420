--------------------------- MODULE SourceExpansion ---------------------------
(***************************************************************************)
(* internal/config: what a decoded configuration file means.  resolve      *)
(* applies the defaults, checks the durations against each other, and      *)
(* expands channels, catalogs and explicit sources into one list of        *)
(* sources.                                                                *)
(*                                                                         *)
(* Pure functions: each is a fold over the lists of the file, with the     *)
(* early returns of the code.                                              *)
(***************************************************************************)
EXTENDS Integers, SequencesExt

CONSTANTS
    BuiltIn,           \* builtInCatalogs: a sequence of catalog names
    Platforms,         \* the platforms that ValidatePlatform accepts
    DefaultPlatform,
    DefaultInterval, DefaultTimeout, DefaultAge,  \* durations
    MaxDuration,       \* the greatest duration, math.MaxInt64
    Malformed,         \* anything that does not parse
    Unset              \* a field that the file leaves out

ASSUME DurationsAssumption ==
    /\ MaxDuration \in Nat
    /\ {DefaultInterval, DefaultTimeout, DefaultAge} \subseteq 1 .. MaxDuration
ASSUME BuiltInAssumption  == BuiltIn \in Seq(ToSet(BuiltIn)) /\ IsInjective(BuiltIn)
ASSUME PlatformAssumption == DefaultPlatform \in Platforms

\* Durations are signed integers of the width that MaxDuration fills: they wrap.
MinDuration == -MaxDuration - 1
Duration    == MinDuration .. MaxDuration
Wrap(n) == ((n - MinDuration) % (2 * (MaxDuration + 1))) + MinDuration

Rejected == [ok |-> FALSE]
HasDuplicates(s) == ~IsInjective(s)

-----------------------------------------------------------------------------
(* Durations *)

\* parseDuration: a field that is left out has its default.
OrDefault(value, fallback) == IF value = Unset THEN fallback ELSE value

\* parsePositiveDuration fails.
NotPositive(value) == value # Unset /\ (value = Malformed \/ value <= 0)

\* An interval that is zero or less stands for the default.
EffectiveInterval(raw) ==
    LET interval == OrDefault(raw.interval, DefaultInterval)
    IN  IF interval <= 0 THEN DefaultInterval ELSE interval

\* Seeded fault: the window is added up, and the sum overflows.
AgeTooShortBySum(raw) ==
    OrDefault(raw.age, DefaultAge)
        <= Wrap(EffectiveInterval(raw) + OrDefault(raw.timeout, DefaultTimeout))

\* "Subtract positive durations instead of adding a potentially overflowing sum."
AgeTooShort(raw) ==
    Wrap(OrDefault(raw.age, DefaultAge) - OrDefault(raw.timeout, DefaultTimeout))
        <= EffectiveInterval(raw)

\* The durations and numbers of resolve, in its order.
SettingsAccepted(raw) ==
    /\ raw.platform = Unset \/ raw.platform \in Platforms
    /\ raw.interval # Malformed
    /\ ~NotPositive(raw.timeout)
    /\ ~NotPositive(raw.age)
    /\ ~AgeTooShort(raw)
    /\ raw.openshiftTimeout # Malformed
    /\ raw.concurrency >= 0

-----------------------------------------------------------------------------
(* Sources *)

\* UnmarshalYAML: "4.22" and "v4.22" are the same channel.
Canonical(channel) == channel.version

\* A source that is generated for a catalog and a channel.
Generated(name, version, platform) ==
    [id |-> <<name, version>>, image |-> <<name, version>>, platform |-> platform]

\* selectCatalogs: all built-in catalogs, or the ones that are named.
Definitions(raw) == IF raw.catalogs = <<>> THEN BuiltIn ELSE raw.catalogs

\* The two loops over channels and catalogs.
GeneratedSources(raw, platform) ==
    FlattenSeq([i \in DOMAIN raw.channels |->
        [j \in DOMAIN Definitions(raw) |->
            Generated(Definitions(raw)[j], Canonical(raw.channels[i]), platform)]])

\* Seeded fault: an explicit source never takes the place of a generated one.
OverrideAppending(list, source) == Append(list, source)

\* An explicit source takes the place of the generated one with its id, or comes last.
Override(list, source) ==
    LET position == SelectInSeq(list, LAMBDA s : s.id = source.id)
    IN  IF position # 0 THEN [list EXCEPT ![position] = source] ELSE Append(list, source)

\* An explicit source inherits the platform of the file.
Inherit(source, platform) ==
    IF source.platform = Unset THEN [source EXCEPT !.platform = platform] ELSE source

\* One turn of the loop over the explicit sources.
AddExplicit(acc, source, platform) ==
    LET complete == Inherit(source, platform) IN
    IF ~acc.ok \/ source.id = Unset \/ source.image = Unset \/ source.id \in acc.seen
       \/ complete.platform \notin Platforms
    THEN Rejected
    ELSE [ok |-> TRUE, seen |-> acc.seen \cup {source.id},
          list |-> Override(acc.list, complete)]

\* expandSources, with a verdict and the list.
ExpandSources(raw) ==
    LET platform == OrDefault(raw.platform, DefaultPlatform)
        channels == [i \in DOMAIN raw.channels |-> Canonical(raw.channels[i])]
    IN  IF \/ raw.channels = <<>> /\ raw.sources = <<>>
           \/ raw.channels = <<>> /\ raw.catalogs # <<>>
           \/ HasDuplicates(channels) \/ HasDuplicates(raw.catalogs)
           \/ ~(ToSet(raw.catalogs) \subseteq ToSet(BuiltIn))
        THEN Rejected
        ELSE FoldLeft(LAMBDA acc, source : AddExplicit(acc, source, platform),
                      [ok |-> TRUE, seen |-> {}, list |-> GeneratedSources(raw, platform)],
                      raw.sources)

\* Parse and resolve: the verdict and, of a file that is accepted, the sources.
Resolve(raw) ==
    IF Malformed \notin {Canonical(raw.channels[i]) : i \in DOMAIN raw.channels}
       /\ SettingsAccepted(raw)
    THEN ExpandSources(raw) ELSE Rejected
=============================================================================

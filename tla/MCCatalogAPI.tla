---------------------------- MODULE MCCatalogAPI ----------------------------
(* An instance of CatalogAPI for TLC: the files that the watcher finds are      *)
(* decoded and resolved as in internal/config.                                  *)
EXTENDS CatalogAPI, MCSourceExpansion

CONSTANTS f1, t1, t2, base, moved, openly, broken

MCIDs      == {<<redhat, v1>>, <<custom>>}
MCImages   == {<<redhat, v1>>, index}
MCContents == {base, moved, openly, broken}

\* One generated source and the control enabled; the same source overridden and a
\* second one; the first one alone, and the control disabled; one that is refused.
Decoded ==
    base   :> [Plain(<<Spelled(v1, TRUE)>>, <<redhat>>, <<>>) EXCEPT !.tokenFile = f1] @@
    moved  :> [Plain(<<Spelled(v1, FALSE)>>, <<redhat>>,
                     <<Explicit(<<redhat, v1>>, index, Unset),
                       Explicit(<<custom>>, index, Unset)>>) EXCEPT !.tokenFile = f1] @@
    openly :> Plain(<<Spelled(v1, TRUE)>>, <<redhat>>, <<>>) @@
    broken :> Plain(<<Spelled(v1, TRUE), Spelled(v1, FALSE)>>, <<>>, <<>>)

\* What the handlers use of a resolved file.
Effective(raw) ==
    LET resolved == Resolve(raw)
        list == resolved.list
    IN
    IF ~resolved.ok THEN None
    ELSE [sources   |-> [id \in IDs |->
                           IF \E s \in ToSet(list) : s.id = id
                           THEN (CHOOSE s \in ToSet(list) : s.id = id).image ELSE None],
          tokenFile |-> IF raw.tokenFile = Unset THEN None ELSE raw.tokenFile]

\* The result, spelled out.
Meaning(first, second, tokenFile) ==
    [sources |-> <<redhat, v1>> :> first @@ <<custom>> :> second, tokenFile |-> tokenFile]
MCParsed ==
    base   :> Meaning(<<redhat, v1>>, None, f1)   @@ moved  :> Meaning(index, index, f1) @@
    openly :> Meaning(<<redhat, v1>>, None, None) @@ broken :> None
MCConfigs == {MCParsed[c] : c \in Contents} \ {None}

ASSUME ParsedIsResolved == \A c \in Contents : Parsed[c] = Effective(Decoded[c])
=============================================================================

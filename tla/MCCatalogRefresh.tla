-------------------------- MODULE MCCatalogRefresh --------------------------
(* Instances of CatalogRefresh for TLC. *)
EXTENDS CatalogRefresh, TLC

CONSTANTS redhat, certified, old, new, strict, lax, w1, w2, w3, w4

MCIDs     == {redhat, certified}
MCImages  == {old, new}

\* The images and the reader settings of a configuration.
Cfg(a, b, reader) == [sources |-> (redhat :> a @@ certified :> b), reader |-> reader]

\* One source that is replaced, removed and comes back.
OneSource == {Cfg(old, None, strict), Cfg(new, None, strict), Cfg(None, old, strict)}

\* Two sources; a reload replaces one and removes the other, or brings them back.
TwoSources == {Cfg(old, old, strict), Cfg(new, None, strict)}

\* Two sources, of which a reload replaces one and removes the other, or changes
\* the settings of both.
AndSettings == TwoSources \cup {Cfg(old, old, lax)}

\* A caller of Refresh that passes a source it took from an older configuration.
DirectRedhat == {[id |-> redhat, image |-> old]}

Symmetry == Permutations(Workers)
=============================================================================

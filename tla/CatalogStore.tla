---------------------------- MODULE CatalogStore ----------------------------
(***************************************************************************)
(* What the catalog side of the service promises its readers, without      *)
(* queues, goroutines or locks: a store that holds at most one complete    *)
(* snapshot per configured source.  A snapshot is replaced as a whole by a *)
(* snapshot of the source that is configured at that moment, read with     *)
(* settings at least as recent, and it is dropped only when a new          *)
(* configuration no longer names its source.                               *)
(*                                                                         *)
(* CatalogRefresh is the program that keeps this promise.                  *)
(***************************************************************************)
EXTENDS Naturals

CONSTANTS IDs,      \* source identifiers
          Images,   \* what else makes a source: its image and platform
          Readers,  \* reader settings: signature policy and parse concurrency
          Configs,  \* the configurations that can be loaded
          None      \* no source, no snapshot

Config   == [sources : [IDs -> Images \cup {None}], reader : Readers]

\* A complete snapshot: the source it was read from, the settings it was read
\* with, and how many configurations had been loaded when these were read.
Snapshot(image, reader, v) == [image |-> image, reader |-> reader, version |-> v]

VARIABLES cfg,        \* the active configuration
          version,    \* how many configurations have been loaded
          snapshots   \* the snapshot served for each id, or None

storeVars == <<cfg, version, snapshots>>

StoreInit ==
    /\ cfg \in Configs
    /\ version = 0
    /\ snapshots = [id \in IDs |-> None]

\* The snapshots that a configuration change leaves in place.
RetainedBy(next) ==
    [id \in IDs |-> IF snapshots[id] # None /\ snapshots[id].image # next.sources[id]
                    THEN None ELSE snapshots[id]]

Configure(next) ==
    /\ cfg' = next
    /\ version' = version + 1
    /\ snapshots' = RetainedBy(next)

Replace(id, image, reader, v) ==
    /\ cfg.sources[id] = image
    /\ snapshots[id] # None => snapshots[id].version <= v
    /\ snapshots' = [snapshots EXCEPT ![id] = Snapshot(image, reader, v)]
    /\ UNCHANGED <<cfg, version>>

StoreNext ==
    \/ \E next \in Configs : Configure(next)
    \/ \E id \in IDs, image \in Images, reader \in Readers, v \in 0..version :
          Replace(id, image, reader, v)

StoreSpec == StoreInit /\ [][StoreNext]_storeVars
=============================================================================

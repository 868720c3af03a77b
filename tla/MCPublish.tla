------------------------------ MODULE MCPublish ------------------------------
(***************************************************************************)
(* data-snapshot.yml's job, cut to the steps that differ in kind, racing   *)
(* listings.yml, which was started twice: the second execution waits for   *)
(* the first one.  Both jobs publish registry/universe: the listings live  *)
(* there, and so does the snapshot's universe frontier.                    *)
(***************************************************************************)
EXTENDS PublishGenerated

CONSTANTS snapshot, listings, dispatched, frontier, manifest, record, us

Universe == {us, frontier}   \* registry/universe

MCGroup == [r \in Runs |-> IF r = snapshot THEN "data-snapshot" ELSE "listings"]

(* universe frontier (the stress, impact and power reports before it are   *)
(* steps of the same kind, with a path of their own); submissions with     *)
(* their manifests; manifests.                                             *)
SnapshotSteps ==
  << [writes |-> {frontier}, path |-> Universe,
      always |-> TRUE, tolerant |-> TRUE, pins |-> TRUE],
     [writes |-> {record, manifest}, path |-> {record},
      always |-> TRUE, tolerant |-> FALSE, pins |-> TRUE],
     [writes |-> {}, path |-> {manifest},
      always |-> TRUE, tolerant |-> FALSE, pins |-> FALSE] >>

(* listings.yml commits under the default `if: success()`.                 *)
ListingsSteps ==
  << [writes |-> {us}, path |-> Universe,
      always |-> FALSE, tolerant |-> FALSE, pins |-> FALSE] >>

MCSteps == [r \in Runs |-> IF r = snapshot THEN SnapshotSteps ELSE ListingsSteps]
=============================================================================

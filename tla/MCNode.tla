-------------------------------- MODULE MCNode ---------------------------------
(***************************************************************************)
(* Two readings beside null; every cluster of the node and one it does not *)
(* have, and every id of a command or an attribute below 16, besides       *)
(* TriggerEffect's and ClusterRevision's.                                  *)
(***************************************************************************)
EXTENDS Node

CONSTANTS cold, warm

MCReadings == {cold, warm}

OnOff == \h6

MCClusterIds == {Clusters[k].id : k \in DOMAIN Clusters} \cup {OnOff}
MCIds == 0 .. 15 \cup {64, ClusterRevision}
=============================================================================

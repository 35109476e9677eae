--------------------------- MODULE MCSceneAlerts ---------------------------
(* Instances of SceneAlerts for TLC. *)
EXTENDS SceneAlerts

MCTracks == Persons \cup Bags

(* The person walks by, the bag stays where it is put. *)
MCPlaces == [t \in MCTracks |-> IF t \in Persons THEN 0 .. 2 ELSE {1}]

MCKeys == Key

=============================================================================

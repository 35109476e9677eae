-------------------------- MODULE MCRelayPipeline --------------------------
(* Instances of RelayPipeline for TLC.  The configurations give every      *)
(* constant; the channels are interchangeable, but symmetry is not used,   *)
(* because the larger run checks liveness too.                             *)
EXTENDS RelayPipeline

=============================================================================

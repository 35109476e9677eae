--------------------------- MODULE MCDirectChannel ---------------------------
(* Instances of DirectChannel for TLC.  The channels are interchangeable;  *)
(* symmetry is used where no liveness property is checked.                 *)
EXTENDS DirectChannel, TLC

ChannelSymmetry == Permutations(Channels)

=============================================================================

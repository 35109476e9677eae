------------------------------ MODULE MCMsgAgg ------------------------------
(* Instances of MsgAgg for TLC. *)
EXTENDS MsgAgg

=============================================================================

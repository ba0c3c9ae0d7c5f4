------------------------------ MODULE MCBuyer ------------------------------
(* A run of three steps and two model calls of up to two tool calls over two sessions. *)
EXTENDS Buyer
=============================================================================

---------------------------- MODULE MCSessionSlot ----------------------------
(***************************************************************************)
(* SessionSlot on small instances: two or three connections from two       *)
(* devices, with and without outbound sessions and disconnects.            *)
(***************************************************************************)
EXTENDS SessionSlot

=============================================================================

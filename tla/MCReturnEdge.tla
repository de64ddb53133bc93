----------------------------- MODULE MCReturnEdge -----------------------------
(***************************************************************************)
(* ReturnEdge on a screen of 12 pixels in which every zone has a member:   *)
(* 0-1, 2-3, 4-5, 6, 7, 8-10 and 11 on, from the left edge to the right.   *)
(***************************************************************************)
EXTENDS ReturnEdge

MCEntries == {1, 6, 10, 11}
MCDeltas  == {-7, -3, -1, 1, 3, 7}

=============================================================================

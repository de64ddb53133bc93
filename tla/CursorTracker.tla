---------------------------- MODULE CursorTracker ----------------------------
(***************************************************************************)
(* The cursor tracker a receiver keeps while a controller drives it        *)
(* (handle_controller in network/server.rs): where the driven cursor is,   *)
(* which edge it came in from, whether it has left that edge since, and so *)
(* when pushing back across the edge hands control back.                   *)
(*                                                                         *)
(* Positions are zones.  Along one axis the code compares a position with  *)
(* three distances from an edge: under 10 px names it the entry edge, up   *)
(* to 15 px hands back, past 60 px counts as departed.  L0, L1 and L2 are  *)
(* the three bands of the left edge, from the outside in, R0, R1 and R2    *)
(* those of the right one, and M is the rest.  Top and bottom behave the   *)
(* same way on the other axis and are not repeated.                        *)
(***************************************************************************)

NoEdge == "none"
NoPos  == "unknown"
Edges  == {"left", "right"}

AllZones == {"L0", "L1", "L2", "M", "R2", "R1", "R0"}

\* The edge a first position names (proximity under 10 px), if any.
EntryEdgeAt(z) ==
  CASE z = "L0" -> "left"
    [] z = "R0" -> "right"
    [] OTHER    -> NoEdge

\* Within 60 px of edge e, and within 15 px of it.
NearZones(e)   == IF e = "left" THEN {"L0", "L1", "L2"} ELSE {"R0", "R1", "R2"}
ReturnZones(e) == IF e = "left" THEN {"L0", "L1"} ELSE {"R0", "R1"}

Trackers ==
  [ entry : Edges \cup {NoEdge}, returnSent : BOOLEAN,
    departed : BOOLEAN, pos : AllZones \cup {NoPos} ]

InitTracker ==
  [entry |-> NoEdge, returnSent |-> FALSE, departed |-> FALSE, pos |-> NoPos]

DepartedAfter(t, z) == t.departed \/ z \notin NearZones(t.entry)

\* A motion event that leaves the cursor at z hands control back.
HandsBack(t, z) ==
  /\ t.entry # NoEdge
  /\ ~t.returnSent
  /\ DepartedAfter(t, z)
  /\ z \in ReturnZones(t.entry)

\* The tracker after a motion event that leaves the cursor at z.
AfterMotion(t, z) ==
  IF t.entry = NoEdge
  THEN IF EntryEdgeAt(z) = NoEdge
       THEN [t EXCEPT !.pos = z]
       ELSE [entry |-> EntryEdgeAt(z), returnSent |-> FALSE,
             departed |-> FALSE, pos |-> z]
  ELSE IF HandsBack(t, z)
       THEN [entry |-> NoEdge, returnSent |-> TRUE, departed |-> FALSE, pos |-> z]
       ELSE [t EXCEPT !.pos = z,
                      !.departed = IF t.returnSent THEN @ ELSE DepartedAfter(t, z)]

\* FocusAcquired forgets the edge but keeps the position of the entry warp.
AfterAcquired(t) ==
  [entry |-> NoEdge, returnSent |-> FALSE, departed |-> FALSE, pos |-> t.pos]

\* FocusReleased forgets both.
AfterReleased(t) ==
  [entry |-> NoEdge, returnSent |-> FALSE, departed |-> FALSE, pos |-> NoPos]

=============================================================================

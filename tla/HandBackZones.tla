----------------------------- MODULE HandBackZones ----------------------------
(***************************************************************************)
(* What a receiver promises about handing control back, in zones: the      *)
(* steps the tracker of CursorTracker may take, and when one of them sends *)
(* ReturnToSender.  FocusHandoff builds on these steps; ReturnEdge shows   *)
(* that the pixel arithmetic of the code takes no others.                  *)
(***************************************************************************)
EXTENDS CursorTracker

VARIABLES
  tracker,    \* the tracker, its position a zone
  controlled, \* is_controlled
  parity      \* whether an odd number of ReturnToSender has been sent

zoneVars == <<tracker, controlled, parity>>

Init == tracker = InitTracker /\ controlled = FALSE /\ parity = FALSE

Motion(z) ==
  /\ tracker' = AfterMotion(tracker, z)
  /\ IF HandsBack(tracker, z)
     THEN controlled' = FALSE /\ parity' = ~parity
     ELSE UNCHANGED <<controlled, parity>>

Acquire ==
  tracker' = AfterAcquired(tracker) /\ controlled' = TRUE /\ UNCHANGED parity

Release ==
  tracker' = AfterReleased(tracker) /\ controlled' = FALSE /\ UNCHANGED parity

Next == (\E z \in AllZones : Motion(z)) \/ Acquire \/ Release

Spec == Init /\ [][Next]_zoneVars

=============================================================================

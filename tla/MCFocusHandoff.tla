---------------------------- MODULE MCFocusHandoff ----------------------------
(***************************************************************************)
(* FocusHandoff on small instances.  The .cfg files choose the modifiers,  *)
(* the threads and the queue bounds.  Three zones are enough for every     *)
(* branch of the tracker: an entry edge, the middle, and a band next to    *)
(* the edge that hands back without being an entry.                        *)
(***************************************************************************)
EXTENDS FocusHandoff

MCZones == {"L0", "L1", "M"}
MCTwoZones == {"L0", "M"}

\* The receiver's own relaying changes nothing else: it is explored while
\* nothing is under way.
ReceiverRelaysAtRest == relaying["rcv"] => AllIdle /\ toRcv = <<>> /\ toCtl = <<>>

=============================================================================

------------------------------ MODULE ReturnEdge ------------------------------
(***************************************************************************)
(* The cursor arithmetic of a controlled session, in pixels, along one     *)
(* axis (network/server.rs, the Input arm of the read loop).  The receiver *)
(* follows the driven cursor itself: the entry warp sets a position, each  *)
(* relative delta is added to it, and the operating system moves the real  *)
(* cursor, which stops at the screen's edges.  The controller's side is    *)
(* reduced to the order it puts its messages in: warp, FocusAcquired,      *)
(* deltas throughout, and FocusReleased or, after a ReturnToSender,        *)
(* silence.                                                                *)
(***************************************************************************)
EXTENDS CursorTracker, Integers

CONSTANTS
  Width,       \* width of the receiver's screen
  EntryBand,   \* 10 px: closer than this names the entry edge
  ReturnBand,  \* 15 px: this close hands control back
  DepartBand,  \* 60 px: farther than this counts as departed
  Entries,     \* positions a warp may enter at
  Deltas,      \* relative motions to explore
  Reach        \* how far outside the screen the tracker is explored

ASSUME BandsAssumption ==
  /\ Width \in Nat /\ EntryBand \in Nat /\ ReturnBand \in Nat /\ DepartBand \in Nat
  /\ 0 < EntryBand /\ EntryBand <= ReturnBand /\ ReturnBand < DepartBand
  /\ 2 * DepartBand < Width
ASSUME MotionAssumption ==
  Entries \subseteq 0 .. Width - 1 /\ Deltas \subseteq Int /\ Reach \in Nat

VARIABLES
  entry,      \* entry_edge
  returnSent, \* return_sent
  departed,   \* departed
  known,      \* cursor_pos is there: a warp has been read
  cursor,     \* its value (0 while there is none)
  real,       \* where the operating system has the cursor
  controlled, \* is_controlled
  driver,     \* the controller is "off", has "warped" or is "on"
  parity,     \* whether an odd number of ReturnToSender has been sent
  away,       \* history: edges the tracked cursor has left behind since focus last changed hands
  warpAway,   \* history: edges the real cursor has left behind since the last entry warp
  warpEdge    \* history: the edge the current takeover came in at

trackVars == <<entry, returnSent, departed, known, cursor>>
history   == <<away, warpAway, warpEdge>>
edgeVars      == <<trackVars, real, controlled, driver, parity, history>>

Positions == (-Reach) .. (Width + Reach)

EdgeTypeOK ==
  /\ entry \in Edges \cup {NoEdge}
  /\ returnSent \in BOOLEAN /\ departed \in BOOLEAN
  /\ known \in BOOLEAN /\ cursor \in Positions
  /\ real \in 0 .. Width - 1
  /\ controlled \in BOOLEAN /\ parity \in BOOLEAN
  /\ driver \in {"off", "warped", "on"}
  /\ away \subseteq Edges /\ warpAway \subseteq Edges
  /\ warpEdge \in Edges \cup {NoEdge}

EdgeInit ==
  /\ entry = NoEdge /\ returnSent = FALSE /\ departed = FALSE
  /\ known = FALSE /\ cursor = 0
  /\ real = Width \div 2
  /\ controlled = FALSE /\ driver = "off" /\ parity = FALSE
  /\ away = {} /\ warpAway = {} /\ warpEdge = NoEdge

-----------------------------------------------------------------------------
(* The comparisons of the code.                                            *)

EdgeAt(x) ==
  IF x < EntryBand THEN "left"
  ELSE IF x > Width - EntryBand THEN "right"
  ELSE NoEdge

\* Mutation: the right edge departs on the wrong side.
DepartsFromUnmirrored(e, x) == x > DepartBand

DepartsFrom(e, x) ==
  IF e = "left" THEN x > DepartBand ELSE x < Width - DepartBand

\* Mutation: the right band is one pixel short.
ReturnsAtShort(e, x) ==
  IF e = "left" THEN x <= ReturnBand ELSE x >= Width - ReturnBand

ReturnsAt(e, x) ==
  IF e = "left" THEN x <= ReturnBand ELSE x >= Width - ReturnBand - 1

\* For the histories: the edges x is more than 60 px away from.
LeftBehind(x) ==
  (IF x > DepartBand THEN {"left"} ELSE {}) \cup
  (IF Width - x > DepartBand THEN {"right"} ELSE {})

\* The operating system keeps the real cursor on the screen.
Clamp(x) == IF x < 0 THEN 0 ELSE IF x > Width - 1 THEN Width - 1 ELSE x

-----------------------------------------------------------------------------
(* One motion event that takes the tracked cursor to x.                    *)

NameEntry(x) ==
  /\ entry = NoEdge
  /\ entry' = EdgeAt(x)
  /\ IF EdgeAt(x) # NoEdge
     THEN returnSent' = FALSE /\ departed' = FALSE
     ELSE UNCHANGED <<returnSent, departed>>
  /\ away' = IF EdgeAt(x) # NoEdge THEN {} ELSE away
  /\ UNCHANGED <<controlled, parity>>

HandBackAt(x) ==
  /\ entry # NoEdge /\ ~returnSent
  /\ (departed \/ DepartsFrom(entry, x)) /\ ReturnsAt(entry, x)
  /\ returnSent' = TRUE /\ entry' = NoEdge /\ departed' = FALSE
  /\ controlled' = FALSE /\ parity' = ~parity
  /\ away' = {}

StayWithin(x) ==
  /\ entry # NoEdge
  /\ ~(~returnSent /\ (departed \/ DepartsFrom(entry, x)) /\ ReturnsAt(entry, x))
  /\ departed' = IF returnSent THEN departed ELSE departed \/ DepartsFrom(entry, x)
  /\ away' = away \cup LeftBehind(x)
  /\ UNCHANGED <<entry, returnSent, controlled, parity>>

MotionTo(x) ==
  /\ known' = TRUE /\ cursor' = x
  /\ NameEntry(x) \/ HandBackAt(x) \/ StayWithin(x)

-----------------------------------------------------------------------------
(* The messages, in the order a controller sends them.                     *)

\* Crossing an edge needs an idle controller; Take Control, which enters
\* mid-screen, does not look.
Warp(x) ==
  /\ driver = "off" \/ (driver = "on" /\ EdgeAt(x) = NoEdge)
  /\ driver' = "warped"
  /\ MotionTo(x)
  /\ real' = x
  /\ warpAway' = {} /\ warpEdge' = EdgeAt(x)

Rel(d) ==
  /\ driver # "off"
  /\ IF ~known
     THEN UNCHANGED <<trackVars, controlled, parity, away>>
     ELSE cursor + d \in Positions /\ MotionTo(cursor + d)
  /\ real' = Clamp(real + d)
  /\ warpAway' = warpAway \cup LeftBehind(real')
  /\ UNCHANGED <<driver, warpEdge>>

FocusAcquired ==
  /\ driver = "warped"
  /\ driver' = "on"
  /\ controlled' = TRUE
  /\ entry' = NoEdge /\ returnSent' = FALSE /\ departed' = FALSE
  /\ away' = {}
  /\ UNCHANGED <<known, cursor, real, parity, warpAway, warpEdge>>

FocusReleased ==
  /\ driver = "on"
  /\ driver' = "off"
  /\ controlled' = FALSE
  /\ entry' = NoEdge /\ returnSent' = FALSE /\ departed' = FALSE
  /\ known' = FALSE /\ cursor' = 0
  /\ away' = {}
  /\ UNCHANGED <<real, parity, warpAway, warpEdge>>

\* A ReturnToSender has reached the controller, which says nothing back.
SenderStops ==
  /\ driver = "on" /\ ~controlled
  /\ driver' = "off"
  /\ UNCHANGED <<trackVars, real, controlled, parity, history>>

EdgeNext ==
  \/ \E x \in Entries : Warp(x)
  \/ \E d \in Deltas : Rel(d)
  \/ FocusAcquired \/ FocusReleased \/ SenderStops

EdgeSpec == EdgeInit /\ [][EdgeNext]_edgeVars

-----------------------------------------------------------------------------
(* Properties.                                                             *)

\* Whenever an entry edge is known the way back is armed: a return already
\* sent never masks the next one (server.rs:673).
ReturnArmed == entry # NoEdge => ~returnSent

\* Control is only handed back after an excursion: since the entry edge was
\* named the tracked cursor has been more than 60 px away from it
\* (server.rs:581).
HandBackNeedsExcursion == [][parity' # parity => entry \in away]_edgeVars

\* The arithmetic is an instance of the zones.
ZoneOf(x) ==
  CASE x < EntryBand                                         -> "L0"
    [] EntryBand <= x /\ x <= ReturnBand                     -> "L1"
    [] ReturnBand < x /\ x <= DepartBand                     -> "L2"
    [] DepartBand < x /\ x < Width - DepartBand              -> "M"
    [] Width - DepartBand <= x /\ x < Width - ReturnBand - 1 -> "R2"
    [] Width - ReturnBand - 1 <= x /\ x <= Width - EntryBand -> "R1"
    [] OTHER                                                 -> "R0"

Zones == INSTANCE HandBackZones WITH
  tracker <- [entry |-> entry, returnSent |-> returnSent,
              departed |-> departed,
              pos |-> IF known THEN ZoneOf(cursor) ELSE NoPos]

\* Every step of the pixel tracker is a step of the zone tracker, or none.
RefinesZones == Zones!Spec

\* Pushing back returns control: when the cursor on the screen, having left
\* the edge the takeover came in at, is back at that edge, control has been
\* handed back (server.rs:569).
PushingBackReturns ==
  [][ /\ controlled /\ driver = "on" /\ driver' = "on"
      /\ warpEdge \in warpAway /\ real' # real /\ ReturnsAt(warpEdge, real')
      => ~controlled' ]_edgeVars

=============================================================================

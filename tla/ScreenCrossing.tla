---------------------------- MODULE ScreenCrossing ----------------------------
\* Where the cursor appears when it crosses from one desktop to the other, and which edge
\* the receiver takes it to have come in from.  A desktop is a set of monitors in
\* virtual coordinates; lengths are whole pixels.
EXTENDS Integers, FiniteSets
Sets == INSTANCE FiniteSetsExt

CONSTANTS
  Desktops,  \* arrangements of monitors
  EdgeBand,  \* EDGE_THRESHOLD (8)
  NameBand,  \* proximity that names the entry edge (10)
  Inset      \* distance from the border at which the cursor comes back (20)

CrossEdges == {"left", "right", "top", "bottom"}
Opposite == [left |-> "right", right |-> "left", top |-> "bottom", bottom |-> "top"]
NoScreenEdge == "none"

ASSUME ScreenAssumption == {EdgeBand, NameBand, Inset} \subseteq Nat /\ NameBand > 2

\* A desktop has a monitor, and each is wider and higher than the band in which the receiver
\* names an edge: the lower limits of layout.rs (max(1.0), max(0.0)) are never reached.
ASSUME DesktopAssumption ==
  \A d \in Desktops :
    /\ d # {} /\ IsFiniteSet(d)
    /\ \A m \in d : m \in [x : Int, y : Int, w : Nat, h : Nat] /\ {m.w, m.h} \cap 0 .. NameBand + 1 = {}

VARIABLES
  ours,    \* the controller's monitors
  theirs,  \* the receiver's
  sized,   \* remote_screen is known: the session has begun with a ScreenSize
  border,  \* transition_edge
  pointer, \* the controller's cursor
  arrival, \* the entry point that is sent
  origin,  \* the edge the receiver names
  stage    \* "roaming", "crossed" or "entered"

screenVars == <<ours, theirs, sized, border, pointer, arrival, origin, stage>>

Within(v, hi) == IF v < 0 THEN 0 ELSE IF v > hi THEN hi ELSE v

Bounds(ms) ==
  [x0 |-> Sets!Min({m.x : m \in ms}), y0 |-> Sets!Min({m.y : m \in ms}),
   x1 |-> Sets!Max({m.x + m.w : m \in ms}), y1 |-> Sets!Max({m.y + m.h : m \in ms})]

Wide(b) == b.x1 - b.x0
High(b) == b.y1 - b.y0

Contains(m, p) == p.x \in m.x .. m.x + m.w - 1 /\ p.y \in m.y .. m.y + m.h - 1

\* is_at_edge
AtEdge(p, e, b) ==
  CASE e = "left"   -> p.x <= b.x0 + EdgeBand
    [] e = "top"    -> p.y <= b.y0 + EdgeBand
    [] e = "bottom" -> p.y >= b.y1 - EdgeBand
    [] e = "right"  -> p.x >= b.x1 - EdgeBand

\* entry_point_on_monitor: the other axis is scaled from monitor m to a screen of rw by rh.
EntryPoint(p, m, e, rw, rh) ==
  LET ny == Within(((p.y - m.y) * rh) \div m.h, rh - 1)
      nx == Within(((p.x - m.x) * rw) \div m.w, rw - 1)
  IN  CASE e = "right"  -> [x |-> 1, y |-> ny]
        [] e = "left"   -> [x |-> rw - 2, y |-> ny]
        [] e = "top"    -> [x |-> nx, y |-> rh - 2]
        [] e = "bottom" -> [x |-> nx, y |-> 1]

\* Mutation: one pixel past the far edges.
EntryPastEdge(p, e) ==
  LET b == Bounds(theirs) IN
  CASE e = "left" -> [x |-> Wide(b), y |-> 0]
    [] e = "top"  -> [x |-> 0, y |-> High(b)]
    [] OTHER      -> [x |-> 1, y |-> 1]

\* compute_entry_point: from the monitor the cursor is on, or from the whole desktop, onto a screen of
\* the receiver's size, or of this side's while that is not known.
EntryFor(p, e) ==
  LET us == Bounds(ours)
      b  == IF sized THEN Bounds(theirs) ELSE us
      on == {m \in ours : Contains(m, p)}
      m  == IF on # {} THEN CHOOSE n \in on : TRUE
            ELSE [x |-> us.x0, y |-> us.y0, w |-> Wide(us), h |-> High(us)]
  IN  EntryPoint(p, m, e, Wide(b), High(b))

\* The edge the receiver names for a first position p.
NamedEdge(p, b) ==
  IF p.x - b.x0 < NameBand                THEN "left"
  ELSE IF p.x - b.x0 > Wide(b) - NameBand THEN "right"
  ELSE IF p.y - b.y0 < NameBand           THEN "top"
  ELSE IF p.y - b.y0 > High(b) - NameBand THEN "bottom"
  ELSE NoScreenEdge

-----------------------------------------------------------------------------

\* Where ReturnToSender puts the controller's cursor.
ReturnPoint(e, b) ==
  LET mx == (b.x0 + b.x1) \div 2
      my == (b.y0 + b.y1) \div 2
  IN  CASE e = "left"   -> [x |-> b.x0 + Inset, y |-> my]
        [] e = "top"    -> [x |-> mx, y |-> b.y0 + Inset]
        [] e = "bottom" -> [x |-> mx, y |-> b.y1 - Inset]
        [] e = "right"  -> [x |-> b.x1 - Inset, y |-> my]

ScreenInit ==
  /\ ours \in Desktops /\ theirs \in Desktops /\ sized \in BOOLEAN /\ border \in CrossEdges
  /\ pointer = [x |-> 0, y |-> 0] /\ arrival = pointer
  /\ origin = NoScreenEdge /\ stage = "roaming"

\* The cursor moves onto any monitor; at the border it crosses.
CrossBorder ==
  /\ stage = "roaming" /\ stage' = "crossed"
  /\ \E m \in ours : \E px \in m.x .. m.x + m.w - 1, py \in m.y .. m.y + m.h - 1 :
       pointer' = [x |-> px, y |-> py]
  /\ AtEdge(pointer', border, Bounds(ours)) /\ arrival' = EntryFor(pointer', border)
  /\ UNCHANGED <<ours, theirs, sized, border, origin>>

\* The switch hotkey crosses in the middle of the border, where no monitor need be.
HotkeyCross ==
  /\ stage = "roaming" /\ stage' = "crossed"
  /\ LET b  == Bounds(ours)
         mx == (b.x0 + b.x1) \div 2
         my == (b.y0 + b.y1) \div 2
     IN  pointer' = CASE border = "left"   -> [x |-> b.x0, y |-> my]
                     [] border = "top"    -> [x |-> mx, y |-> b.y0]
                     [] border = "bottom" -> [x |-> mx, y |-> b.y1 - 1]
                     [] border = "right"  -> [x |-> b.x1 - 1, y |-> my]
  /\ arrival' = EntryFor(pointer', border)
  /\ UNCHANGED <<ours, theirs, sized, border, origin>>

\* The receiver warps to the entry point and names the edge.
EnterDesktop ==
  /\ stage = "crossed" /\ stage' = "entered"
  /\ origin' = NamedEdge(arrival, Bounds(theirs))
  /\ UNCHANGED <<ours, theirs, sized, border, pointer, arrival>>

\* ReturnToSender is answered.
GoBack ==
  /\ stage = "entered" /\ stage' = "roaming" /\ pointer' = ReturnPoint(border, Bounds(ours))
  /\ UNCHANGED <<ours, theirs, sized, border, arrival, origin>>

ScreenNext == CrossBorder \/ HotkeyCross \/ EnterDesktop \/ GoBack

ScreenSpec == ScreenInit /\ [][ScreenNext]_screenVars

-----------------------------------------------------------------------------
AtOrigin(b) == b.x0 = 0 /\ b.y0 = 0

\* Near a corner a crossing of the top or the bottom is taken for one of the sides, which are looked at first.
InCorner == border \in {"top", "bottom"} /\
            ~(NameBand <= arrival.x /\ arrival.x <= Wide(Bounds(theirs)) - NameBand)

\* Once the receiver's size is known, a crossing lands on its desktop, whatever monitor it starts from, and it names
\* the edge opposite to the one crossed, so that pushing back returns: away from the corners, and if its desktop
\* starts at the origin (layout.rs:65, server.rs:665).
CrossingIsNamed ==
  stage = "entered" /\ sized /\ AtOrigin(Bounds(theirs)) =>
    /\ arrival.x \in 0 .. Wide(Bounds(theirs)) - 1 /\ arrival.y \in 0 .. High(Bounds(theirs)) - 1
    /\ InCorner \/ origin = Opposite[border]

=============================================================================

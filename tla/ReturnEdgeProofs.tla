--------------------------- MODULE ReturnEdgeProofs ---------------------------
(***************************************************************************)
(* Proofs about ReturnEdge, for every screen width, every three bands in   *)
(* their order, and every set of entries and motions: the pixel arithmetic *)
(* agrees with the zones of CursorTracker, so that the tracker of the code *)
(* takes only the steps FocusHandoff gives it.  And about ScreenCrossing,  *)
(* for every two desktops: a crossing lands where pushing back returns.    *)
(***************************************************************************)
EXTENDS ReturnEdge, ScreenCrossing, FiniteSetTheorems, WellFoundedInduction, TLAPS

\* A position is at most in one of the bands an edge's decisions look at.
LEMMA ZoneDecides ==
  ASSUME NEW x \in Int
  PROVE  /\ ZoneOf(x) \in AllZones
         /\ EntryEdgeAt(ZoneOf(x)) = EdgeAt(x)
         /\ \A e \in Edges : /\ DepartsFrom(e, x) <=> ZoneOf(x) \notin NearZones(e)
                             /\ ReturnsAt(e, x) <=> ZoneOf(x) \in ReturnZones(e)
<1> USE BandsAssumption
<1>1. CASE x < EntryBand
  <2>1. ZoneOf(x) = "L0"
    BY <1>1 DEF ZoneOf
  <2> QED
    BY <1>1, <2>1 DEF AllZones, EntryEdgeAt, EdgeAt, Edges, DepartsFrom, ReturnsAt, NearZones, ReturnZones
<1>2. CASE EntryBand <= x /\ x <= ReturnBand
  <2>1. ZoneOf(x) = "L1"
    BY <1>2 DEF ZoneOf
  <2> QED
    BY <1>2, <2>1 DEF AllZones, EntryEdgeAt, EdgeAt, Edges, DepartsFrom, ReturnsAt, NearZones, ReturnZones
<1>3. CASE ReturnBand < x /\ x <= DepartBand
  <2>1. ZoneOf(x) = "L2"
    BY <1>3 DEF ZoneOf
  <2> QED
    BY <1>3, <2>1 DEF AllZones, EntryEdgeAt, EdgeAt, Edges, DepartsFrom, ReturnsAt, NearZones, ReturnZones
<1>4. CASE DepartBand < x /\ x < Width - DepartBand
  <2>1. ZoneOf(x) = "M"
    BY <1>4 DEF ZoneOf
  <2> QED
    BY <1>4, <2>1 DEF AllZones, EntryEdgeAt, EdgeAt, Edges, DepartsFrom, ReturnsAt, NearZones, ReturnZones
<1>5. CASE Width - DepartBand <= x /\ x < Width - ReturnBand - 1
  <2>1. ZoneOf(x) = "R2"
    BY <1>5 DEF ZoneOf
  <2> QED
    BY <1>5, <2>1 DEF AllZones, EntryEdgeAt, EdgeAt, Edges, DepartsFrom, ReturnsAt, NearZones, ReturnZones
<1>6. CASE Width - ReturnBand - 1 <= x /\ x <= Width - EntryBand
  <2>1. ZoneOf(x) = "R1"
    BY <1>6 DEF ZoneOf
  <2> QED
    BY <1>6, <2>1 DEF AllZones, EntryEdgeAt, EdgeAt, Edges, DepartsFrom, ReturnsAt, NearZones, ReturnZones
<1>7. CASE Width - EntryBand < x
  <2>1. ZoneOf(x) = "R0"
    BY <1>7 DEF ZoneOf
  <2> QED
    BY <1>7, <2>1 DEF AllZones, EntryEdgeAt, EdgeAt, Edges, DepartsFrom, ReturnsAt, NearZones, ReturnZones
<1> QED
  BY <1>1, <1>2, <1>3, <1>4, <1>5, <1>6, <1>7

-----------------------------------------------------------------------------
(* The invariants.                                                         *)

\* Once departed, the entry edge has been left behind.
Excursion == entry # NoEdge /\ departed => entry \in away

EdgeInv == EdgeTypeOK /\ ReturnArmed /\ Excursion

LEMMA MotionKeepsEdge ==
  ASSUME EdgeInv, NEW x \in Positions, MotionTo(x)
  PROVE  /\ entry' \in Edges \cup {NoEdge}
         /\ returnSent' \in BOOLEAN /\ departed' \in BOOLEAN
         /\ known' \in BOOLEAN /\ cursor' \in Positions
         /\ controlled' \in BOOLEAN /\ parity' \in BOOLEAN
         /\ away' \subseteq Edges
         /\ ReturnArmed' /\ Excursion'
<1> USE DEF EdgeInv, EdgeTypeOK, ReturnArmed, Excursion
<1>1. EdgeAt(x) \in Edges \cup {NoEdge} /\ LeftBehind(x) \subseteq Edges
  BY DEF EdgeAt, Edges, LeftBehind
<1>2. CASE NameEntry(x)
  BY <1>1, <1>2 DEF MotionTo, NameEntry
<1>3. CASE HandBackAt(x)
  BY <1>1, <1>3 DEF MotionTo, HandBackAt
<1>4. CASE StayWithin(x)
  <2>1. entry \in Edges /\ departed' = (departed \/ DepartsFrom(entry, x))
        /\ away' = away \cup LeftBehind(x)
    BY <1>4 DEF StayWithin
  <2>2. departed' => departed \/ DepartsFrom(entry, x)
    BY <2>1
  <2>3. DepartsFrom(entry, x) => entry \in LeftBehind(x)
    BY <2>1, BandsAssumption DEF LeftBehind, DepartsFrom, Edges, Positions
  <2>4. departed' => entry \in away'
    <3>1. entry # NoEdge
      BY <1>4 DEF StayWithin
    <3> QED
      BY <2>1, <2>2, <2>3, <3>1
  <2> QED
    BY <1>1, <1>4, <2>1, <2>4 DEF MotionTo, StayWithin
<1> QED
  BY <1>2, <1>3, <1>4 DEF MotionTo

LEMMA StepKeepsEdge == EdgeInv /\ [EdgeNext]_edgeVars => EdgeInv'
<1> SUFFICES ASSUME EdgeInv, [EdgeNext]_edgeVars PROVE EdgeInv'
  OBVIOUS
<1> USE DEF trackVars, history
<1>1. ASSUME NEW x \in Entries, Warp(x) PROVE EdgeInv'
  <2>1. x \in Positions /\ x \in 0 .. Width - 1
    BY MotionAssumption, BandsAssumption DEF Positions
  <2>2. EdgeAt(x) \in Edges \cup {NoEdge}
    BY DEF EdgeAt, Edges
  <2> QED
    BY <1>1, <2>1, <2>2, MotionKeepsEdge DEF Warp, EdgeInv, EdgeTypeOK
<1>2. ASSUME NEW d \in Deltas, Rel(d) PROVE EdgeInv'
  <2>1. real' \in 0 .. Width - 1
    BY <1>2, MotionAssumption, BandsAssumption DEF Rel, Clamp, EdgeInv, EdgeTypeOK
  <2>2. warpAway' \subseteq Edges
    BY <1>2 DEF Rel, LeftBehind, Edges, EdgeInv, EdgeTypeOK
  <2>3. UNCHANGED <<driver, warpEdge>>
    BY <1>2 DEF Rel
  <2>4. CASE ~known
    BY <1>2, <2>1, <2>2, <2>3, <2>4 DEF Rel, EdgeInv, EdgeTypeOK, ReturnArmed, Excursion
  <2>5. CASE known
    <3>1. cursor + d \in Positions /\ MotionTo(cursor + d)
      BY <1>2, <2>5 DEF Rel
    <3> QED
      BY <2>1, <2>2, <2>3, <3>1, MotionKeepsEdge DEF EdgeInv, EdgeTypeOK
  <2> QED
    BY <2>4, <2>5
<1>3. CASE FocusAcquired
  BY <1>3 DEF FocusAcquired, EdgeInv, EdgeTypeOK, ReturnArmed, Excursion
<1>4. CASE FocusReleased
  <2>1. 0 \in Positions
    BY MotionAssumption, BandsAssumption DEF Positions
  <2> QED
    BY <1>4, <2>1 DEF FocusReleased, EdgeInv, EdgeTypeOK, ReturnArmed, Excursion
<1>5. CASE SenderStops
  BY <1>5 DEF SenderStops, EdgeInv, EdgeTypeOK, ReturnArmed, Excursion
<1>6. CASE UNCHANGED edgeVars
  BY <1>6 DEF edgeVars, EdgeInv, EdgeTypeOK, ReturnArmed, Excursion
<1> QED
  BY <1>1, <1>2, <1>3, <1>4, <1>5, <1>6 DEF EdgeNext

LEMMA EdgeInvHolds == EdgeSpec => []EdgeInv
<1>1. EdgeInit => EdgeInv
  <2>1. 0 \in Positions
    BY MotionAssumption, BandsAssumption DEF Positions
  <2>2. Width \div 2 \in 0 .. Width - 1
    BY BandsAssumption
  <2> QED
    BY <2>1, <2>2 DEF EdgeInit, EdgeInv, EdgeTypeOK, ReturnArmed, Excursion
<1> QED
  BY <1>1, StepKeepsEdge, PTL DEF EdgeSpec

\* Every state has well-typed variables.
THEOREM EdgeTypeCorrect == EdgeSpec => []EdgeTypeOK
<1>1. EdgeInv => EdgeTypeOK
  BY DEF EdgeInv
<1> QED
  BY <1>1, EdgeInvHolds, PTL

\* While an entry edge is known, no return already sent masks the next one
\* (server.rs:673).
THEOREM AlwaysArmed == EdgeSpec => []ReturnArmed
<1>1. EdgeInv => ReturnArmed
  BY DEF EdgeInv
<1> QED
  BY <1>1, EdgeInvHolds, PTL

\* The bands do not overlap: where control is handed back is not away.
LEMMA NearIsNotAway ==
  ASSUME NEW x \in Int, NEW e \in Edges, ReturnsAt(e, x)
  PROVE  ~DepartsFrom(e, x)
BY BandsAssumption DEF ReturnsAt, DepartsFrom, Edges

\* Control is only handed back after the tracked cursor has been more than
\* DepartBand away from the entry edge (server.rs:581).
THEOREM ExcursionFirst == EdgeSpec => HandBackNeedsExcursion
<1>1. EdgeInv /\ [EdgeNext]_edgeVars => (parity' # parity => entry \in away)
  <2> SUFFICES ASSUME EdgeInv, [EdgeNext]_edgeVars, parity' # parity PROVE entry \in away
    OBVIOUS
  <2>1. ASSUME NEW x \in Int, MotionTo(x) PROVE entry \in away
    <3>1. HandBackAt(x)
      BY <2>1 DEF MotionTo, NameEntry, StayWithin
    <3>2. entry \in Edges /\ entry # NoEdge /\ ReturnsAt(entry, x) /\ (departed \/ DepartsFrom(entry, x))
      BY <3>1 DEF HandBackAt, EdgeInv, EdgeTypeOK
    <3> QED
      BY <3>2, NearIsNotAway DEF EdgeInv, Excursion
  <2>2. ASSUME NEW x \in Entries, Warp(x) PROVE entry \in away
    BY <2>1, <2>2, MotionAssumption, BandsAssumption DEF Warp
  <2>3. ASSUME NEW d \in Deltas, Rel(d) PROVE entry \in away
    <3>1. cursor + d \in Int
      BY MotionAssumption, BandsAssumption DEF EdgeInv, EdgeTypeOK, Positions
    <3> QED
      BY <2>1, <2>3, <3>1 DEF Rel
  <2> QED
    BY <2>2, <2>3 DEF EdgeNext, FocusAcquired, FocusReleased, SenderStops, edgeVars
<1> QED
  BY <1>1, EdgeInvHolds, PTL DEF EdgeSpec, HandBackNeedsExcursion

-----------------------------------------------------------------------------
(* The pixel tracker takes only steps of the zone tracker.                 *)

Mapped ==
  [entry |-> entry, returnSent |-> returnSent, departed |-> departed,
   pos |-> IF known THEN ZoneOf(cursor) ELSE NoPos]

\* One motion event in pixels is one in zones.
LEMMA MotionMaps ==
  ASSUME EdgeInv, NEW x \in Int, MotionTo(x)
  PROVE  /\ Mapped' = AfterMotion(Mapped, ZoneOf(x))
         /\ IF HandsBack(Mapped, ZoneOf(x))
            THEN controlled' = FALSE /\ parity' = ~parity
            ELSE UNCHANGED <<controlled, parity>>
<1> DEFINE z == ZoneOf(x)
<1>1. /\ EntryEdgeAt(z) = EdgeAt(x)
      /\ \A e \in Edges : /\ DepartsFrom(e, x) <=> z \notin NearZones(e)
                          /\ ReturnsAt(e, x) <=> z \in ReturnZones(e)
  BY ZoneDecides
<1>2. Mapped' = [entry |-> entry', returnSent |-> returnSent', departed |-> departed', pos |-> z]
  BY DEF Mapped, MotionTo
<1> HIDE DEF z
<1> USE DEF EdgeInv, EdgeTypeOK, ReturnArmed
<1>3. CASE NameEntry(x)
  <2>1. Mapped.entry = NoEdge /\ entry' = EntryEdgeAt(z) /\ ~HandsBack(Mapped, z)
    BY <1>1, <1>3 DEF NameEntry, Mapped, HandsBack
  <2>2. CASE EntryEdgeAt(z) = NoEdge
    BY <1>1, <1>2, <1>3, <2>1, <2>2 DEF NameEntry, AfterMotion, Mapped, z
  <2>3. CASE EntryEdgeAt(z) # NoEdge
    BY <1>1, <1>2, <1>3, <2>1, <2>3 DEF NameEntry, AfterMotion, z
  <2> QED
    BY <2>2, <2>3
<1>4. CASE HandBackAt(x)
  <2>1. Mapped.entry # NoEdge /\ HandsBack(Mapped, z)
    BY <1>1, <1>4 DEF HandBackAt, Mapped, HandsBack, DepartedAfter
  <2> QED
    BY <1>2, <1>4, <2>1 DEF HandBackAt, AfterMotion, z
<1>5. CASE StayWithin(x)
  <2>1. entry \in Edges /\ ~returnSent
    BY <1>5 DEF StayWithin
  <2>2. Mapped.entry = entry /\ Mapped.departed = departed /\ Mapped.returnSent = returnSent
    BY DEF Mapped
  <2>3. ~HandsBack(Mapped, z)
    BY <1>1, <1>5, <2>1, <2>2 DEF StayWithin, HandsBack, DepartedAfter
  <2>4. departed' = DepartedAfter(Mapped, z)
    <3>1. departed' <=> departed \/ DepartsFrom(entry, x)
      BY <1>5, <2>1 DEF StayWithin
    <3>2. DepartedAfter(Mapped, z) <=> departed \/ DepartsFrom(entry, x)
      BY <1>1, <2>1, <2>2 DEF DepartedAfter
    <3>3. departed' \in BOOLEAN /\ DepartedAfter(Mapped, z) \in BOOLEAN
      BY <1>5, <2>1 DEF StayWithin, DepartedAfter
    <3> QED
      BY <3>1, <3>2, <3>3
  <2>5. AfterMotion(Mapped, z) = [Mapped EXCEPT !.pos = z, !.departed = DepartedAfter(Mapped, z)]
    BY <2>1, <2>2, <2>3 DEF AfterMotion, Edges, NoEdge
  <2>6. entry' = entry /\ returnSent' = returnSent
    BY <1>5 DEF StayWithin
  <2>7. Mapped' = AfterMotion(Mapped, z)
    BY <1>2, <2>4, <2>5, <2>6 DEF Mapped
  <2> QED
    BY <1>5, <2>3, <2>7 DEF StayWithin, z
<1> QED
  BY <1>3, <1>4, <1>5 DEF MotionTo

\* The zone module's own copy of CursorTracker says the same.
LEMMA SameOperators ==
  /\ Zones!InitTracker = InitTracker /\ Zones!AllZones = AllZones
  /\ \A t, z : Zones!AfterMotion(t, z) = AfterMotion(t, z)
  /\ \A t, z : Zones!HandsBack(t, z) <=> HandsBack(t, z)
  /\ \A t : Zones!AfterAcquired(t) = AfterAcquired(t)
  /\ \A t : Zones!AfterReleased(t) = AfterReleased(t)
BY DEF Zones!InitTracker, Zones!AllZones, Zones!AfterMotion, Zones!HandsBack,
   Zones!DepartedAfter, Zones!NearZones, Zones!ReturnZones, Zones!EntryEdgeAt,
   Zones!AfterAcquired, Zones!AfterReleased, Zones!NoEdge, Zones!NoPos,
   InitTracker, AllZones, AfterMotion, HandsBack, DepartedAfter, NearZones, ReturnZones,
   EntryEdgeAt, AfterAcquired, AfterReleased, NoEdge, NoPos

\* Every run of the pixel tracker is a run of the zone tracker: a step that
\* sends ReturnToSender sends it where the zones do, and any other step moves
\* between zones or nowhere (server.rs:629-709).
THEOREM PixelsRefineZones == EdgeSpec => RefinesZones
<1> USE DEF trackVars, history
<1>1. EdgeInit => Zones!Init
  BY SameOperators DEF EdgeInit, Zones!Init, InitTracker
<1>2. EdgeInv /\ [EdgeNext]_edgeVars => [Zones!Next]_Zones!zoneVars
  <2> SUFFICES ASSUME EdgeInv, [EdgeNext]_edgeVars PROVE Zones!Next \/ UNCHANGED Zones!zoneVars
    OBVIOUS
  <2>1. ASSUME NEW x \in Int, MotionTo(x) PROVE Zones!Next
    <3>1. ZoneOf(x) \in AllZones
      BY ZoneDecides
    <3>2. Zones!Motion(ZoneOf(x))
      BY <2>1, MotionMaps, SameOperators DEF Zones!Motion, Mapped
    <3> QED
      BY <3>1, <3>2, SameOperators DEF Zones!Next
  <2>2. ASSUME NEW x \in Entries, Warp(x) PROVE Zones!Next
    BY <2>1, <2>2, MotionAssumption, BandsAssumption DEF Warp
  <2>3. ASSUME NEW d \in Deltas, Rel(d) PROVE Zones!Next \/ UNCHANGED Zones!zoneVars
    <3>1. CASE ~known
      BY <2>3, <3>1 DEF Rel, Zones!zoneVars
    <3>2. CASE known
      <4>1. cursor + d \in Int
        BY MotionAssumption, BandsAssumption DEF EdgeInv, EdgeTypeOK, Positions
      <4> QED
        BY <2>1, <2>3, <3>2, <4>1 DEF Rel
    <3> QED
      BY <3>1, <3>2
  <2>4. CASE FocusAcquired
    <3>1. Mapped' = AfterAcquired(Mapped)
      <4> DEFINE pos == IF known THEN ZoneOf(cursor) ELSE NoPos
      <4>1. pos' = pos
        BY <2>4 DEF FocusAcquired
      <4>2. Mapped' = [entry |-> NoEdge, returnSent |-> FALSE, departed |-> FALSE, pos |-> pos']
        BY <2>4 DEF FocusAcquired, Mapped
      <4>3. Mapped.pos = pos
        BY DEF Mapped
      <4> QED
        BY <4>1, <4>2, <4>3 DEF AfterAcquired
    <3>2. Zones!Acquire
      BY <2>4, <3>1, SameOperators DEF FocusAcquired, Zones!Acquire, Mapped
    <3> QED
      BY <3>2 DEF Zones!Next
  <2>5. CASE FocusReleased
    <3>1. Mapped' = AfterReleased(Mapped)
      BY <2>5 DEF FocusReleased, AfterReleased, Mapped
    <3>2. Zones!Release
      BY <2>5, <3>1, SameOperators DEF FocusReleased, Zones!Release, Mapped
    <3> QED
      BY <3>2 DEF Zones!Next
  <2>6. CASE SenderStops \/ UNCHANGED edgeVars
    BY <2>6 DEF SenderStops, edgeVars, Zones!zoneVars
  <2> QED
    BY <2>2, <2>3, <2>4, <2>5, <2>6 DEF EdgeNext
<1> QED
  BY <1>1, <1>2, EdgeInvHolds, PTL DEF EdgeSpec, Zones!Spec, RefinesZones

-----------------------------------------------------------------------------
(* Crossing from one desktop to the other.                                   *)

\* Any set of naturals has a least element.
LEMMA LeastNatural ==
  ASSUME NEW B, B \subseteq Nat, B # {}
  PROVE  \E k \in B : \A j \in B : ~(j < k)
<1> DEFINE R == OpToRel(<, Nat)
<1>1. IsWellFoundedOn(R, Nat)
  BY NatLessThanWellFounded
<1>2. \A j, k \in Nat : j < k => <<j, k>> \in R
  BY DEF OpToRel
<1> HIDE DEF R
<1>3. \E k \in B : \A j \in B : ~(<<j, k>> \in R)
  BY <1>1, WFMin
<1> QED
  BY <1>2, <1>3

\* A finite set of integers has a least and a greatest element: otherwise take the smallest set that has
\* not, without one of its elements, and put that element back.
LEMMA EndsOfFinite ==
  ASSUME NEW S \in SUBSET Int, S # {}, IsFiniteSet(S)
  PROVE  /\ \E m \in S : \A n \in S : m <= n
         /\ \E m \in S : \A n \in S : m >= n
<1> DEFINE Least(T)    == \E m \in T : \A n \in T : m <= n
           Greatest(T) == \E m \in T : \A n \in T : m >= n
           Bad == {k \in Nat : \E T \in SUBSET Int :
                     IsFiniteSet(T) /\ T # {} /\ Cardinality(T) = k /\ ~(Least(T) /\ Greatest(T))}
<1>1. SUFFICES Bad = {}
  <2>1. Cardinality(S) \in Nat
    BY FS_CardinalityType
  <2> QED BY <1>1, <2>1
<1>2. SUFFICES ASSUME Bad # {} PROVE FALSE
  OBVIOUS
<1>3. PICK k \in Bad : \A j \in Bad : ~(j < k)
  <2>1. Bad \subseteq Nat
    OBVIOUS
  <2> HIDE DEF Bad
  <2> QED BY <1>2, <2>1, LeastNatural
<1>4. PICK T \in SUBSET Int :
        IsFiniteSet(T) /\ T # {} /\ Cardinality(T) = k /\ ~(Least(T) /\ Greatest(T))
  BY <1>3
<1>5. PICK x \in T : TRUE
  BY <1>4
<1>6. IsFiniteSet(T \ {x}) /\ Cardinality(T \ {x}) = k - 1 /\ k - 1 \in Nat /\ k - 1 < k
  <2>1. IsFiniteSet(T \ {x}) /\ Cardinality(T \ {x}) = k - 1
    BY <1>4, <1>5, FS_RemoveElement
  <2>2. Cardinality(T \ {x}) \in Nat /\ k \in Nat
    BY <1>3, <2>1, FS_CardinalityType
  <2> HIDE DEF Bad
  <2> QED BY <2>1, <2>2
<1>7. CASE T \ {x} = {}
  <2>1. T = {x}
    BY <1>5, <1>7
  <2> QED BY <1>4, <1>5, <2>1
<1>8. CASE T \ {x} # {}
  <2>1. Least(T \ {x}) /\ Greatest(T \ {x})
    BY <1>3, <1>4, <1>6, <1>8
  <2>2. PICK m \in T \ {x} : \A n \in T \ {x} : m <= n
    BY <2>1
  <2>3. PICK g \in T \ {x} : \A n \in T \ {x} : g >= n
    BY <2>1
  <2>4. Least(T)
    <3>1. CASE x <= m
      <4>1. \A n \in T : x <= n
        BY <1>5, <2>2, <3>1
      <4> QED BY <1>5, <4>1
    <3>2. CASE ~(x <= m)
      <4>1. \A n \in T : m <= n
        BY <1>5, <2>2, <3>2
      <4> QED BY <2>2, <4>1
    <3> QED BY <3>1, <3>2
  <2>5. Greatest(T)
    <3>1. CASE x >= g
      <4>1. \A n \in T : x >= n
        BY <1>5, <2>3, <3>1
      <4> QED BY <1>5, <4>1
    <3>2. CASE ~(x >= g)
      <4>1. \A n \in T : g >= n
        BY <1>5, <2>3, <3>2
      <4> QED BY <2>3, <4>1
    <3> QED BY <3>1, <3>2
  <2> QED BY <1>4, <2>4, <2>5
<1> QED
  BY <1>7, <1>8

LEMMA EndsChosen ==
  ASSUME NEW S \in SUBSET Int, S # {}, IsFiniteSet(S)
  PROVE  /\ Sets!Min(S) \in S /\ \A n \in S : Sets!Min(S) <= n
         /\ Sets!Max(S) \in S /\ \A n \in S : Sets!Max(S) >= n
BY EndsOfFinite DEF Sets!Min, Sets!Max

LEMMA ImageFinite ==
  ASSUME NEW d, IsFiniteSet(d), NEW T, NEW f \in [d -> T], \A t \in T : \E m \in d : f[m] = t
  PROVE  IsFiniteSet(T)
BY FS_Surjection DEF Surjection

\* The bounds of a desktop are whole numbers, and enclose more than two of the bands that name an edge.
LEMMA BoundsOfDesktop ==
  ASSUME NEW d \in Desktops
  PROVE  /\ Bounds(d).x0 \in Int /\ Bounds(d).y0 \in Int
         /\ Bounds(d).x1 \in Int /\ Bounds(d).y1 \in Int
         /\ Wide(Bounds(d)) \in Int /\ Wide(Bounds(d)) >= NameBand + 2
         /\ High(Bounds(d)) \in Int /\ High(Bounds(d)) >= NameBand + 2
<1> DEFINE X0 == {m.x : m \in d}
           Y0 == {m.y : m \in d}
           X1 == {m.x + m.w : m \in d}
           Y1 == {m.y + m.h : m \in d}
<1>1. IsFiniteSet(d) /\ NameBand \in Nat
  BY DesktopAssumption, ScreenAssumption
<1>2. PICK m \in d : TRUE
  BY DesktopAssumption
<1>3. \A n \in d : n.x \in Int /\ n.y \in Int /\ n.w \in Nat /\ n.h \in Nat
  BY DesktopAssumption
<1>4. m.w >= NameBand + 2 /\ m.h >= NameBand + 2
  <2>1. m.w \notin 0 .. NameBand + 1 /\ m.h \notin 0 .. NameBand + 1
    BY <1>2, DesktopAssumption
  <2> QED BY <1>1, <1>2, <1>3, <2>1
<1>5. IsFiniteSet(X0) /\ IsFiniteSet(Y0) /\ IsFiniteSet(X1) /\ IsFiniteSet(Y1)
  <2>2. IsFiniteSet(X0)
    <3> DEFINE f == [n \in d |-> n.x]
    <3>1. f \in [d -> X0] /\ \A t \in X0 : \E n \in d : f[n] = t
      OBVIOUS
    <3> HIDE DEF f, X0
    <3> QED BY <1>1, <3>1, ImageFinite
  <2>3. IsFiniteSet(Y0)
    <3> DEFINE f == [n \in d |-> n.y]
    <3>1. f \in [d -> Y0] /\ \A t \in Y0 : \E n \in d : f[n] = t
      OBVIOUS
    <3> HIDE DEF f, Y0
    <3> QED BY <1>1, <3>1, ImageFinite
  <2>4. IsFiniteSet(X1)
    <3> DEFINE f == [n \in d |-> n.x + n.w]
    <3>1. f \in [d -> X1] /\ \A t \in X1 : \E n \in d : f[n] = t
      OBVIOUS
    <3> HIDE DEF f, X1
    <3> QED BY <1>1, <3>1, ImageFinite
  <2>5. IsFiniteSet(Y1)
    <3> DEFINE f == [n \in d |-> n.y + n.h]
    <3>1. f \in [d -> Y1] /\ \A t \in Y1 : \E n \in d : f[n] = t
      OBVIOUS
    <3> HIDE DEF f, Y1
    <3> QED BY <1>1, <3>1, ImageFinite
  <2> QED BY <2>2, <2>3, <2>4, <2>5
<1>6. /\ X0 \subseteq Int /\ Y0 \subseteq Int /\ X1 \subseteq Int /\ Y1 \subseteq Int
      /\ m.x \in X0 /\ m.y \in Y0 /\ m.x + m.w \in X1 /\ m.y + m.h \in Y1
  BY <1>2, <1>3
<1>7. /\ Bounds(d).x0 = Sets!Min(X0) /\ Bounds(d).y0 = Sets!Min(Y0)
      /\ Bounds(d).x1 = Sets!Max(X1) /\ Bounds(d).y1 = Sets!Max(Y1)
  BY DEF Bounds
<1> HIDE DEF X0, Y0, X1, Y1
<1>8. /\ Bounds(d).x0 \in Int /\ Bounds(d).x0 <= m.x
      /\ Bounds(d).y0 \in Int /\ Bounds(d).y0 <= m.y
      /\ Bounds(d).x1 \in Int /\ Bounds(d).x1 >= m.x + m.w
      /\ Bounds(d).y1 \in Int /\ Bounds(d).y1 >= m.y + m.h
  BY <1>5, <1>6, <1>7, EndsChosen
<1> QED
  BY <1>1, <1>2, <1>3, <1>4, <1>8 DEF Wide, High

\* Where a crossing of edge e is to arrive on a desktop of w by h pixels.
Lands(a, e, w, h) ==
  /\ a.x \in 0 .. w - 1 /\ a.y \in 0 .. h - 1
  /\ e = "right"  => a.x = 1
  /\ e = "left"   => a.x = w - 2
  /\ e = "top"    => a.y = h - 2
  /\ e = "bottom" => a.y = 1

LEMMA EntryLands ==
  ASSUME NEW p, p.x \in Int, p.y \in Int, NEW m, m.x \in Int, m.y \in Int,
         m.w \in Int, m.w > 0, m.h \in Int, m.h > 0,
         NEW e \in CrossEdges, NEW w \in Int, w >= 2, NEW h \in Int, h >= 2
  PROVE  Lands(EntryPoint(p, m, e, w, h), e, w, h)
<1> DEFINE ny == Within(((p.y - m.y) * h) \div m.h, h - 1)
           nx == Within(((p.x - m.x) * w) \div m.w, w - 1)
<1>1. \A a, b \in Int : b > 0 => a \div b \in Int
  OBVIOUS
<1>2. \A v \in Int, hi \in Int : hi >= 0 => Within(v, hi) \in 0 .. hi
  BY DEF Within
<1>3. (p.y - m.y) * h \in Int /\ (p.x - m.x) * w \in Int
  OBVIOUS
<1>4. ((p.y - m.y) * h) \div m.h \in Int /\ ((p.x - m.x) * w) \div m.w \in Int
  BY <1>1, <1>3
<1>5. ny \in 0 .. h - 1 /\ nx \in 0 .. w - 1
  <2>1. h - 1 \in Int /\ h - 1 >= 0 /\ w - 1 \in Int /\ w - 1 >= 0
    OBVIOUS
  <2>2. ny \in 0 .. h - 1
    BY <1>2, <1>4, <2>1
  <2>3. nx \in 0 .. w - 1
    BY <1>2, <1>4, <2>1
  <2> QED BY <2>2, <2>3
<1>6. EntryPoint(p, m, e, w, h) =
        CASE e = "right"  -> [x |-> 1, y |-> ny]
          [] e = "left"   -> [x |-> w - 2, y |-> ny]
          [] e = "top"    -> [x |-> nx, y |-> h - 2]
          [] e = "bottom" -> [x |-> nx, y |-> 1]
  BY DEF EntryPoint
<1> HIDE DEF ny, nx
<1>7. CASE e = "right"
  BY <1>5, <1>6, <1>7 DEF Lands
<1>8. CASE e = "left"
  BY <1>5, <1>6, <1>8 DEF Lands
<1>9. CASE e = "top"
  BY <1>5, <1>6, <1>9 DEF Lands
<1>10. CASE e = "bottom"
  BY <1>5, <1>6, <1>10 DEF Lands
<1> QED
  BY <1>7, <1>8, <1>9, <1>10 DEF CrossEdges

\* From a monitor or from the whole desktop, the entry point is on the other desktop.
LEMMA CrossingLands ==
  ASSUME ours \in Desktops, theirs \in Desktops, sized, NEW p, p.x \in Int, p.y \in Int,
         NEW e \in CrossEdges
  PROVE  Lands(EntryFor(p, e), e, Wide(Bounds(theirs)), High(Bounds(theirs)))
<1> DEFINE b  == Bounds(theirs)
           us == Bounds(ours)
           on == {m \in ours : Contains(m, p)}
           m  == IF on # {} THEN CHOOSE n \in on : TRUE
                 ELSE [x |-> us.x0, y |-> us.y0, w |-> Wide(us), h |-> High(us)]
<1>1. EntryFor(p, e) = EntryPoint(p, m, e, Wide(b), High(b))
  BY DEF EntryFor
<1>2. m.x \in Int /\ m.y \in Int /\ m.w \in Int /\ m.w > 0 /\ m.h \in Int /\ m.h > 0
  <2>1. CASE on # {}
    <3>1. m \in ours
      BY <2>1
    <3>2. m.w \in Nat /\ m.h \in Nat /\ m.x \in Int /\ m.y \in Int
          /\ m.w \notin 0 .. NameBand + 1 /\ m.h \notin 0 .. NameBand + 1
      BY <3>1, DesktopAssumption
    <3> QED BY <3>2, ScreenAssumption
  <2>2. CASE on = {}
    <3>1. m = [x |-> us.x0, y |-> us.y0, w |-> Wide(us), h |-> High(us)]
      BY <2>2
    <3>2. NameBand \in Nat
      BY ScreenAssumption
    <3> QED BY <3>1, <3>2, BoundsOfDesktop
  <2> QED BY <2>1, <2>2
<1>3. Wide(b) \in Int /\ Wide(b) >= 2 /\ High(b) \in Int /\ High(b) >= 2
  BY BoundsOfDesktop, ScreenAssumption
<1> HIDE DEF m, b
<1>4. Lands(EntryPoint(p, m, e, Wide(b), High(b)), e, Wide(b), High(b))
  BY <1>2, <1>3, EntryLands
<1> QED
  BY <1>1, <1>4 DEF b

-----------------------------------------------------------------------------
\* The desktops stay, the entry point is where its edge is to lead, and the receiver has named
\* an edge for that point.
ScreenInv ==
  /\ ours \in Desktops /\ theirs \in Desktops /\ border \in CrossEdges
  /\ stage \in {"roaming", "crossed", "entered"}
  /\ stage # "roaming" /\ sized => Lands(arrival, border, Wide(Bounds(theirs)), High(Bounds(theirs)))
  /\ stage = "entered" => origin = NamedEdge(arrival, Bounds(theirs))

LEMMA StepKeepsScreens == ScreenInv /\ [ScreenNext]_screenVars => ScreenInv'
<1> SUFFICES ASSUME ScreenInv, [ScreenNext]_screenVars PROVE ScreenInv'
  OBVIOUS
<1>1. ASSUME stage' = "crossed", UNCHANGED <<ours, theirs, sized, border>>,
             pointer'.x \in Int, pointer'.y \in Int, arrival' = EntryFor(pointer', border)
      PROVE ScreenInv'
  <2>1. sized => Lands(arrival', border, Wide(Bounds(theirs)), High(Bounds(theirs)))
    BY <1>1, CrossingLands DEF ScreenInv
  <2> QED BY <1>1, <2>1 DEF ScreenInv
<1>2. CASE CrossBorder
  <2>1. PICK m \in ours : \E px \in m.x .. m.x + m.w - 1, py \in m.y .. m.y + m.h - 1 :
          pointer' = [x |-> px, y |-> py]
    BY <1>2 DEF CrossBorder
  <2>2. m.x \in Int /\ m.y \in Int /\ m.w \in Nat /\ m.h \in Nat
    BY DesktopAssumption DEF ScreenInv
  <2>3. pointer'.x \in Int /\ pointer'.y \in Int
    BY <2>1, <2>2
  <2> QED BY <1>1, <1>2, <2>3 DEF CrossBorder
<1>3. CASE HotkeyCross
  <2>1. /\ Bounds(ours).x0 \in Int /\ Bounds(ours).y0 \in Int
        /\ Bounds(ours).x1 \in Int /\ Bounds(ours).y1 \in Int
    BY BoundsOfDesktop DEF ScreenInv
  <2>2. \A a, c \in Int : (a + c) \div 2 \in Int
    OBVIOUS
  <2>3. border \in {"left", "right", "top", "bottom"}
    BY DEF ScreenInv, CrossEdges
  <2>4. pointer'.x \in Int /\ pointer'.y \in Int
    BY <1>3, <2>1, <2>2, <2>3 DEF HotkeyCross
  <2> QED BY <1>1, <1>3, <2>4 DEF HotkeyCross
<1>4. CASE EnterDesktop
  BY <1>4 DEF EnterDesktop, ScreenInv
<1>5. CASE GoBack
  BY <1>5 DEF GoBack, ScreenInv
<1>6. CASE UNCHANGED screenVars
  BY <1>6 DEF screenVars, ScreenInv
<1> QED
  BY <1>2, <1>3, <1>4, <1>5, <1>6 DEF ScreenNext

\* On any desktops with monitors of a real size, every crossing lands on the other desktop and is named after
\* the edge opposite to the one crossed, away from its corners (layout.rs:65, server.rs:665).
THEOREM CrossingNamed == ScreenSpec => []CrossingIsNamed
<1>1. ScreenInit => ScreenInv
  BY DEF ScreenInit, ScreenInv
<1>2. ASSUME ScreenInv PROVE CrossingIsNamed
  <2> SUFFICES ASSUME stage = "entered", sized, AtOrigin(Bounds(theirs))
               PROVE /\ arrival.x \in 0 .. Wide(Bounds(theirs)) - 1
                     /\ arrival.y \in 0 .. High(Bounds(theirs)) - 1
                     /\ InCorner \/ origin = Opposite[border]
    BY DEF CrossingIsNamed
  <2> DEFINE b == Bounds(theirs)
             w == Wide(b)
             h == High(b)
  <2>1. w \in Int /\ w >= NameBand + 2 /\ h \in Int /\ h >= NameBand + 2
        /\ NameBand \in Nat /\ NameBand > 2
    BY <1>2, BoundsOfDesktop, ScreenAssumption DEF ScreenInv
  <2>2. Lands(arrival, border, w, h) /\ origin = NamedEdge(arrival, b)
    BY <1>2 DEF ScreenInv
  <2>3. b.x0 = 0 /\ b.y0 = 0
    BY DEF AtOrigin
  <2>4. arrival.x \in 0 .. w - 1 /\ arrival.y \in 0 .. h - 1
    BY <2>2 DEF Lands
  <2>5. origin = IF arrival.x < NameBand THEN "left"
                 ELSE IF arrival.x > w - NameBand THEN "right"
                 ELSE IF arrival.y < NameBand THEN "top"
                 ELSE IF arrival.y > h - NameBand THEN "bottom"
                 ELSE NoScreenEdge
    BY <2>2, <2>3, <2>4 DEF NamedEdge
  <2>6. border \in CrossEdges
    BY <1>2 DEF ScreenInv
  <2>7. InCorner <=> border \in {"top", "bottom"} /\ ~(NameBand <= arrival.x /\ arrival.x <= w - NameBand)
    BY DEF InCorner
  <2> HIDE DEF b, w, h
  <2>8. InCorner \/ origin = Opposite[border]
    <3>1. CASE border = "right"
      BY <2>1, <2>2, <2>5, <3>1 DEF Lands, Opposite
    <3>2. CASE border = "left"
      BY <2>1, <2>2, <2>5, <3>2 DEF Lands, Opposite
    <3>3. CASE border = "top"
      BY <2>1, <2>2, <2>4, <2>5, <2>7, <3>3 DEF Lands, Opposite
    <3>4. CASE border = "bottom"
      BY <2>1, <2>2, <2>4, <2>5, <2>7, <3>4 DEF Lands, Opposite
    <3> QED BY <2>6, <3>1, <3>2, <3>3, <3>4 DEF CrossEdges
  <2> QED BY <2>4, <2>8 DEF b, w, h
<1> QED
  BY <1>1, <1>2, StepKeepsScreens, PTL DEF ScreenSpec

=============================================================================

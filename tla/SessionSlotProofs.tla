--------------------------- MODULE SessionSlotProofs ---------------------------
(***************************************************************************)
(* Proofs about SessionSlot, for any number of peers, handlers and         *)
(* outbound sessions.  The invariant ties the history variable owner to    *)
(* the slot: the sentinel makes a handler the owner before its first await *)
(* and, until somebody takes the slot from its owner, every handler past   *)
(* the claim is the owner, so there is one at most.                        *)
(***************************************************************************)
EXTENDS SessionSlot, FiniteSetTheorems, TLAPS

\* The slot is empty exactly when it belongs to nobody.
OwnerTracks == owner = Nobody <=> slot = NoPeer

\* A handler past Hello and an outbound session have a peer.
PeersKnown ==
  /\ \A s \in Ins : inPhase[s] \notin {"free", "shaking", "claimed"} => inPeer[s] \in Peers
  /\ \A o \in Outs : outPhase[o] # "free" => outPeer[o] \in Peers

SlotInv == SlotTypeOK /\ OwnerTracks /\ PeersKnown /\ ExclusiveUntilStolen

\* Every state has well-typed variables.
THEOREM SlotTypeCorrect == SlotSpec => []SlotTypeOK
<1>1. SlotInit => SlotTypeOK
  <2> SUFFICES ASSUME SlotInit PROVE SlotTypeOK
    OBVIOUS
  <2> USE DEF SlotInit
  <2>1. shaking \in 0 .. ShakeCap
    BY ShakeAssumption
  <2>2. inPhase \in [Ins -> InPhases] /\ outPhase \in [Outs -> OutPhases]
    BY DEF InPhases, OutPhases
  <2>3. inPeer \in [Ins -> Peers \cup {NoPeer}] /\ outPeer \in [Outs -> Peers \cup {NoPeer}]
    OBVIOUS
  <2> QED
    BY <2>1, <2>2, <2>3 DEF SlotTypeOK
<1>2. SlotTypeOK /\ [SlotNext]_slotVars => SlotTypeOK'
  <2> SUFFICES ASSUME SlotTypeOK, [SlotNext]_slotVars PROVE SlotTypeOK'
    OBVIOUS
  <2> USE DEF SlotTypeOK, InPhases, OutPhases, rateVars, inVars, outVars, InTo, OutTo
  <2>1. ASSUME NEW s \in Ins, AcceptStream(s) PROVE SlotTypeOK'
    <3>1. shaking' \in 0 .. ShakeCap
      BY <2>1, ShakeAssumption DEF AcceptStream
    <3>2. counted' \in [Ins -> BOOLEAN]
      BY <2>1 DEF AcceptStream
    <3> QED
      BY <2>1, <3>1, <3>2 DEF AcceptStream
  <2>2. ASSUME NEW s \in Ins, HandshakeFails(s) PROVE SlotTypeOK'
    BY <2>2, ShakeAssumption DEF HandshakeFails, ReleaseRateSlot
  <2>3. ASSUME NEW s \in Ins, Claim(s) PROVE SlotTypeOK'
    BY <2>3, ShakeAssumption DEF Claim, ReleaseRateSlot, Write
  <2>4. ASSUME NEW s \in Ins, Refuse(s) PROVE SlotTypeOK'
    BY <2>4, ShakeAssumption DEF Refuse, ReleaseRateSlot
  <2>5. ASSUME NEW s \in Ins, NEW p \in Peers, ReadHello(s, p) PROVE SlotTypeOK'
    BY <2>5 DEF ReadHello
  <2>6. ASSUME NEW s \in Ins, Authenticate(s) PROVE SlotTypeOK'
    BY <2>6 DEF Authenticate
  <2>7. ASSUME NEW s \in Ins, Abandon(s) PROVE SlotTypeOK'
    BY <2>7 DEF Abandon, ClearPendingIfOurs, Write
  <2>8. ASSUME NEW s \in Ins, Swap(s) PROVE SlotTypeOK'
    BY <2>8 DEF Swap, Write
  <2>9. ASSUME NEW s \in Ins, SwapFails(s) \/ GoLive(s) \/ EndInbound(s) PROVE SlotTypeOK'
    BY <2>9 DEF SwapFails, GoLive, EndInbound
  <2>10. ASSUME NEW s \in Ins, Cleanup(s) PROVE SlotTypeOK'
    BY <2>10 DEF Cleanup, Write
  <2>11. ASSUME NEW o \in Outs, NEW p \in Peers, Dial(o, p) PROVE SlotTypeOK'
    BY <2>11 DEF Dial
  <2>12. ASSUME NEW o \in Outs, DialFails(o) \/ EndOutbound(o) PROVE SlotTypeOK'
    BY <2>12 DEF DialFails, EndOutbound
  <2>13. ASSUME NEW o \in Outs, OpenOutbound(o) PROVE SlotTypeOK'
    BY <2>13 DEF OpenOutbound, Write
  <2>14. ASSUME NEW o \in Outs, Hangup(o) PROVE SlotTypeOK'
    BY <2>14 DEF Hangup, Write
  <2>15. CASE DisconnectCommand \/ DisconnectTray
    BY <2>15 DEF DisconnectCommand, DisconnectTray
  <2>16. CASE FinishDisconnect
    BY <2>16 DEF FinishDisconnect, Write
  <2>17. CASE UNCHANGED slotVars
    BY <2>17 DEF slotVars
  <2> QED
    BY <2>1, <2>2, <2>3, <2>4, <2>5, <2>6, <2>7, <2>8, <2>9, <2>10, <2>11,
       <2>12, <2>13, <2>14, <2>15, <2>16, <2>17 DEF SlotNext, Inbound, Outbound
<1> QED
  BY <1>1, <1>2, PTL DEF SlotSpec

\* Whoever is not an inbound handler writes the slot without looking: unless
\* that counts as stealing, no handler was past the claim.
LEMMA OutsideWrite ==
  ASSUME SlotInv, NEW t \in Outs \cup {Nobody}, NEW v, Write(t, v), ~stolen'
  PROVE  ~stolen /\ Holding = {}
<1>1. ~stolen /\ owner \in {Nobody, t}
  BY DEF Write
<1>2. ASSUME NEW s \in Holding PROVE FALSE
  <2>1. s \in Ins /\ owner = s
    BY <1>1, <1>2 DEF SlotInv, ExclusiveUntilStolen, Holding
  <2> QED
    BY <1>1, <2>1, TasksAssumption
<1> QED
  BY <1>1, <1>2

\* A step of anybody keeps the invariant.
LEMMA StepKeepsSlot == SlotInv /\ SlotTypeOK' /\ [SlotNext]_slotVars => SlotInv'
<1> SUFFICES ASSUME SlotInv, SlotTypeOK', [SlotNext]_slotVars PROVE OwnerTracks' /\ PeersKnown' /\ ExclusiveUntilStolen'
  BY DEF SlotInv
<1> USE PeersAssumption, TasksAssumption
    DEF SlotInv, SlotTypeOK, OwnerTracks, PeersKnown, ExclusiveUntilStolen, Holding,
        rateVars, inVars, outVars, InTo, OutTo, NoPeer, Pending, Nobody
<1>1. ASSUME NEW s \in Ins, AcceptStream(s) \/ HandshakeFails(s) \/ Refuse(s)
      PROVE OwnerTracks' /\ PeersKnown' /\ ExclusiveUntilStolen'
  BY <1>1 DEF AcceptStream, HandshakeFails, Refuse, ReleaseRateSlot
<1>2. ASSUME NEW s \in Ins, Claim(s) PROVE OwnerTracks' /\ PeersKnown' /\ ExclusiveUntilStolen'
  BY <1>2 DEF Claim, ReleaseRateSlot, Write
<1>3. ASSUME NEW s \in Ins, NEW p \in Peers, ReadHello(s, p)
      PROVE OwnerTracks' /\ PeersKnown' /\ ExclusiveUntilStolen'
  BY <1>3 DEF ReadHello
<1>4. ASSUME NEW s \in Ins, Authenticate(s) \/ SwapFails(s) \/ GoLive(s) \/ EndInbound(s)
      PROVE OwnerTracks' /\ PeersKnown' /\ ExclusiveUntilStolen'
  BY <1>4 DEF Authenticate, SwapFails, GoLive, EndInbound
<1>5. ASSUME NEW s \in Ins, Abandon(s) PROVE OwnerTracks' /\ PeersKnown' /\ ExclusiveUntilStolen'
  BY <1>5 DEF Abandon, ClearPendingIfOurs, Write
<1>6. ASSUME NEW s \in Ins, Swap(s) PROVE OwnerTracks' /\ PeersKnown' /\ ExclusiveUntilStolen'
  BY <1>6 DEF Swap, Write
<1>7. ASSUME NEW s \in Ins, Cleanup(s) PROVE OwnerTracks' /\ PeersKnown' /\ ExclusiveUntilStolen'
  BY <1>7 DEF Cleanup, Write
<1>8. ASSUME NEW o \in Outs, NEW p \in Peers, Dial(o, p)
      PROVE OwnerTracks' /\ PeersKnown' /\ ExclusiveUntilStolen'
  BY <1>8 DEF Dial
<1>9. ASSUME NEW o \in Outs, DialFails(o) \/ EndOutbound(o)
      PROVE OwnerTracks' /\ PeersKnown' /\ ExclusiveUntilStolen'
  BY <1>9 DEF DialFails, EndOutbound
<1>10. ASSUME NEW o \in Outs, OpenOutbound(o) PROVE OwnerTracks' /\ PeersKnown' /\ ExclusiveUntilStolen'
  <2>1. UNCHANGED <<inPhase, inPeer>> /\ slot' \in Peers /\ owner' = o
    BY <1>10 DEF OpenOutbound, Write
  <2>2. ~stolen' => ~stolen /\ Holding = {}
    BY <1>10, OutsideWrite DEF OpenOutbound
  <2> QED
    BY <1>10, <2>1, <2>2 DEF OpenOutbound
<1>11. ASSUME NEW o \in Outs, Hangup(o) PROVE OwnerTracks' /\ PeersKnown' /\ ExclusiveUntilStolen'
  <2>1. UNCHANGED <<inPhase, inPeer>> /\ slot' = NoPeer /\ owner' = Nobody
    BY <1>11 DEF Hangup, Write
  <2>2. ~stolen' => ~stolen /\ Holding = {}
    BY <1>11, OutsideWrite DEF Hangup
  <2> QED
    BY <1>11, <2>1, <2>2 DEF Hangup
<1>12. CASE DisconnectCommand
  BY <1>12 DEF DisconnectCommand
<1>13. CASE DisconnectTray
  BY <1>13 DEF DisconnectTray
<1>14. CASE FinishDisconnect
  BY <1>14 DEF FinishDisconnect, Write
<1>15. CASE UNCHANGED slotVars
  BY <1>15 DEF slotVars
<1> QED
  BY <1>1, <1>2, <1>3, <1>4, <1>5, <1>6, <1>7, <1>8, <1>9, <1>10, <1>11,
     <1>12, <1>13, <1>14, <1>15 DEF SlotNext, Inbound, Outbound

\* The invariant holds throughout.
LEMMA SlotInvHolds == SlotSpec => []SlotInv
<1>1. SlotInit => OwnerTracks /\ PeersKnown /\ ExclusiveUntilStolen
  BY DEF SlotInit, OwnerTracks, PeersKnown, ExclusiveUntilStolen, Holding
<1> QED
  BY <1>1, SlotTypeCorrect, StepKeepsSlot, PTL DEF SlotSpec, SlotInv

\* Until a task takes the slot from its owner, at most one inbound handler is
\* past the claim and the slot is its own (server.rs:151, 359, 995).
THEOREM Exclusive == SlotSpec => []ExclusiveUntilStolen
<1>1. SlotInv => ExclusiveUntilStolen
  BY DEF SlotInv
<1> QED
  BY <1>1, SlotInvHolds, PTL

-----------------------------------------------------------------------------
(* Inbound handlers among themselves.                                      *)

\* An inbound handler writes the slot only while it is empty or its own.
LEMMA InboundKeepsSlots ==
  ASSUME SlotInv, ~stolen, NEW s \in Ins, Inbound(s)
  PROVE  ~stolen'
<1>1. CASE Claim(s)
  BY <1>1 DEF Claim, Write, SlotInv, OwnerTracks
<1>2. CASE Abandon(s) \/ Swap(s) \/ Cleanup(s)
  <2>1. s \in Holding
    BY <1>2 DEF Abandon, Swap, Cleanup, Holding
  <2>2. owner = s
    BY <2>1 DEF SlotInv, ExclusiveUntilStolen
  <2>3. stolen' => stolen \/ owner \notin {Nobody, s}
    BY <1>2 DEF Abandon, ClearPendingIfOurs, Swap, Cleanup, Write
  <2> QED
    BY <2>2, <2>3
<1>3. CASE \E p \in Peers : ReadHello(s, p)
  BY <1>3 DEF ReadHello
<1>4. CASE AcceptStream(s) \/ HandshakeFails(s) \/ Refuse(s)
  BY <1>4 DEF AcceptStream, HandshakeFails, Refuse
<1>5. CASE Authenticate(s) \/ SwapFails(s) \/ GoLive(s) \/ EndInbound(s)
  BY <1>5 DEF Authenticate, SwapFails, GoLive, EndInbound
<1> QED
  BY <1>1, <1>2, <1>3, <1>4, <1>5 DEF Inbound

\* No inbound handler ever takes the slot from another task
\* (server.rs:25, 151, 359, 995).
THEOREM NoInboundSteals == SlotSpec => InboundNeverSteals
<1>1. SlotInv /\ [SlotNext]_slotVars => (stolen' /\ ~stolen => inPhase' = inPhase)
  <2> SUFFICES ASSUME SlotInv, [SlotNext]_slotVars, stolen', ~stolen PROVE inPhase' = inPhase
    OBVIOUS
  <2>1. CASE \E s \in Ins : Inbound(s)
    BY <2>1, InboundKeepsSlots
  <2>2. CASE \E o \in Outs : Outbound(o)
    BY <2>2 DEF Outbound, Dial, DialFails, OpenOutbound, EndOutbound, Hangup, inVars
  <2>3. CASE DisconnectCommand \/ DisconnectTray
    BY <2>3 DEF DisconnectCommand, DisconnectTray
  <2>4. CASE FinishDisconnect
    BY <2>4 DEF FinishDisconnect, inVars
  <2>5. CASE UNCHANGED slotVars
    BY <2>5 DEF slotVars
  <2> QED
    BY <2>1, <2>2, <2>3, <2>4, <2>5 DEF SlotNext
<1> QED
  BY <1>1, SlotInvHolds, PTL DEF SlotSpec, InboundNeverSteals

OnlyListens == Outs = {} /\ Closers = {}

\* On a machine that only listens no two sessions drive at once
\* (server.rs:18).
THEOREM OneControllerInbound == SlotSpec => [](OnlyListens => OneController)
<1> DEFINE J == OnlyListens => ~stolen /\ ~closing
<1>1. SlotInit => J
  BY DEF SlotInit
<1>2. SlotInv /\ J /\ [SlotNext]_slotVars => J'
  <2> SUFFICES ASSUME SlotInv, OnlyListens, ~stolen, ~closing, [SlotNext]_slotVars
               PROVE  ~stolen' /\ ~closing'
    BY DEF OnlyListens
  <2>1. ASSUME NEW s \in Ins, Inbound(s) PROVE ~stolen' /\ ~closing'
    <3>1. ~stolen'
      BY <2>1, InboundKeepsSlots
    <3>2. UNCHANGED closing
      BY <2>1 DEF Inbound, AcceptStream, HandshakeFails, Claim, Refuse, ReadHello,
                  Authenticate, Abandon, Swap, SwapFails, GoLive, EndInbound, Cleanup
    <3> QED
      BY <3>1, <3>2
  <2>2. CASE DisconnectCommand \/ DisconnectTray \/ FinishDisconnect
    BY <2>2 DEF DisconnectCommand, DisconnectTray, FinishDisconnect, OnlyListens
  <2>3. CASE UNCHANGED slotVars
    BY <2>3 DEF slotVars
  <2> QED
    BY <2>1, <2>2, <2>3 DEF SlotNext, OnlyListens
<1>3. SlotInv /\ J => (OnlyListens => OneController)
  BY DEF SlotInv, OnlyListens, ExclusiveUntilStolen, Holding, OneController, Driving
<1> QED
  BY <1>1, <1>2, <1>3, SlotInvHolds, PTL DEF SlotSpec

-----------------------------------------------------------------------------
(* The places of an address.                                                 *)

Counted  == {s \in Ins : counted[s]}
RateSlots == IsFiniteSet(Counted) /\ RateSlotsBalance

\* release_rate_slot gives back the place of s, if it has one, and no other.
LEMMA GivesBack ==
  ASSUME SlotTypeOK, RateSlots, NEW s \in Ins, ReleaseRateSlot(s), NEW phase \in InPhases, InTo(s, phase)
  PROVE  RateSlots'
<1>1. Counted' = Counted \ {s}
  BY DEF Counted, ReleaseRateSlot, SlotTypeOK
<1>2. IsFiniteSet(Counted') /\ Cardinality(Counted) \in Nat
      /\ Cardinality(Counted') = IF s \in Counted THEN Cardinality(Counted) - 1 ELSE Cardinality(Counted)
  BY <1>1, FS_RemoveElement, FS_CardinalityType DEF RateSlots
<1>3. shaking = Cardinality(Counted) /\ (s \in Counted => shaking > 0)
  <2>1. s \in Counted => Cardinality(Counted) # 0
    BY FS_EmptySet DEF RateSlots
  <2> QED
    BY <1>2, <2>1 DEF RateSlots, RateSlotsBalance, Counted
<1>4. shaking' = Cardinality(Counted')
  <2>1. s \in Counted => shaking' = shaking - 1
    BY <1>3 DEF ReleaseRateSlot, Counted
  <2>2. s \notin Counted => shaking' = shaking
    BY DEF ReleaseRateSlot, Counted
  <2> QED
    BY <1>2, <1>3, <2>1, <2>2
<1>5. ASSUME NEW r \in Ins, counted'[r] PROVE inPhase'[r] = "shaking"
  <2>1. r # s /\ counted[r]
    BY <1>5 DEF ReleaseRateSlot, SlotTypeOK
  <2> QED
    BY <2>1 DEF RateSlots, RateSlotsBalance, InTo, SlotTypeOK
<1> QED
  BY <1>2, <1>4, <1>5 DEF RateSlots, RateSlotsBalance, Counted

\* A step keeps the count of an address the number of its handshakes.
LEMMA StepKeepsRateSlots == SlotTypeOK /\ RateSlots /\ [SlotNext]_slotVars => RateSlots'
<1> SUFFICES ASSUME SlotTypeOK, RateSlots, [SlotNext]_slotVars PROVE RateSlots'
  OBVIOUS
<1>1. ASSUME UNCHANGED rateVars, \A r \in Ins : inPhase[r] = "shaking" => inPhase'[r] = "shaking" PROVE RateSlots'
  <2>1. Counted' = Counted
    BY <1>1 DEF Counted, rateVars
  <2>2. \A r \in Ins : counted'[r] => inPhase'[r] = "shaking"
    BY <1>1 DEF rateVars, RateSlots, RateSlotsBalance
  <2> QED
    BY <1>1, <2>1, <2>2 DEF RateSlots, RateSlotsBalance, rateVars, Counted
<1>2. ASSUME NEW s \in Ins, AcceptStream(s) PROVE RateSlots'
  <2>1. CASE UNCHANGED rateVars
    BY <1>1, <1>2, <2>1 DEF AcceptStream, InTo, SlotTypeOK
  <2>2. CASE shaking' = shaking + 1 /\ counted' = [counted EXCEPT ![s] = TRUE]
    <3>1. s \notin Counted
      BY <1>2 DEF AcceptStream, RateSlots, RateSlotsBalance, Counted
    <3>2. Counted' = Counted \cup {s}
      BY <2>2 DEF Counted, SlotTypeOK
    <3>3. IsFiniteSet(Counted') /\ Cardinality(Counted') = Cardinality(Counted) + 1
      BY <3>1, <3>2, FS_AddElement DEF RateSlots
    <3>4. \A r \in Ins : counted'[r] => inPhase'[r] = "shaking"
      BY <1>2, <2>2 DEF AcceptStream, InTo, RateSlots, RateSlotsBalance, SlotTypeOK
    <3> QED
      BY <2>2, <3>3, <3>4 DEF RateSlots, RateSlotsBalance, Counted
  <2> QED
    BY <1>2, <2>1, <2>2 DEF AcceptStream
<1>3. ASSUME NEW s \in Ins, HandshakeFails(s) \/ Claim(s) \/ Refuse(s) PROVE RateSlots'
  BY <1>3, GivesBack DEF HandshakeFails, Claim, Refuse, InPhases
<1>4. ASSUME NEW s \in Ins, NEW p \in Peers, ReadHello(s, p) PROVE RateSlots'
  BY <1>1, <1>4 DEF ReadHello, InTo, SlotTypeOK
<1>5. ASSUME NEW s \in Ins,
             Authenticate(s) \/ Abandon(s) \/ Swap(s) \/ SwapFails(s) \/ GoLive(s) \/ EndInbound(s) \/ Cleanup(s)
      PROVE  RateSlots'
  BY <1>1, <1>5 DEF Authenticate, Abandon, Swap, SwapFails, GoLive, EndInbound, Cleanup, InTo, SlotTypeOK
<1>6. ASSUME NEW o \in Outs, Outbound(o) PROVE RateSlots'
  BY <1>1, <1>6 DEF Outbound, Dial, DialFails, OpenOutbound, EndOutbound, Hangup, inVars
<1>7. CASE DisconnectCommand \/ DisconnectTray \/ FinishDisconnect
  BY <1>1, <1>7 DEF DisconnectCommand, DisconnectTray, FinishDisconnect, inVars, SlotTypeOK
<1>8. CASE UNCHANGED slotVars
  BY <1>1, <1>8 DEF slotVars, rateVars
<1> QED
  BY <1>2, <1>3, <1>4, <1>5, <1>6, <1>7, <1>8 DEF SlotNext, Inbound

\* However many connections an address opens, its count is the number of its handshakes under
\* way: no return path leaks a place or gives one back twice (server.rs:103).
THEOREM PlacesBalance == SlotSpec => []RateSlotsBalance
<1>1. SlotInit => RateSlots
  <2> SUFFICES ASSUME SlotInit PROVE RateSlots
    OBVIOUS
  <2>1. Counted = {} /\ shaking = 0
    BY DEF SlotInit, Counted
  <2> QED
    BY <2>1, FS_EmptySet DEF SlotInit, RateSlots, RateSlotsBalance, Counted
<1>2. RateSlots => RateSlotsBalance
  BY DEF RateSlots
<1> QED
  BY <1>1, <1>2, SlotTypeCorrect, StepKeepsRateSlots, PTL DEF SlotSpec

=============================================================================

------------------------------ MODULE SessionSlot ------------------------------
(***************************************************************************)
(* The connected_peer slot of one machine, and everybody who writes it:    *)
(* the handlers of inbound connections (server.rs), the outbound sessions  *)
(* the machine opens itself (client.rs) and the disconnects of its user    *)
(* (commands.rs, lib.rs, state.rs).  The inbound path takes the slot with  *)
(* a sentinel before it authenticates and gives it up only if it is still  *)
(* its own; the outbound path and disconnect_gracefully write it without   *)
(* looking.  Each await of a handler is a point where the others run.      *)
(* Handlers still in their encryption handshake are counted per address;   *)
(* here all direct connections come from one, and relayed ones from none.  *)
(***************************************************************************)
EXTENDS Naturals, FiniteSets

CONSTANTS
  Peers,   \* device ids
  Ins,     \* tasks running handle_controller
  Outs,    \* tasks running connect_stream
  Closers, \* disconnects the user may ask for: "command", "tray"
  ShakeCap \* handshakes in flight from one address (5 in the code)

NoPeer  == "none"
Pending == "_pending_"
Nobody  == "nobody"

ASSUME PeersAssumption   == Peers \cap {NoPeer, Pending} = {}
ASSUME TasksAssumption   == Ins \cap Outs = {} /\ Nobody \notin Ins \cup Outs
ASSUME ClosersAssumption == Closers \subseteq {"command", "tray"}
ASSUME ShakeAssumption   == ShakeCap \in Nat \ {0}

VARIABLES
  slot,     \* connected_peer
  inPhase,  \* where each inbound handler is
  inPeer,   \* the device id it has read in Hello
  counted,  \* it still occupies a place in the count of its address
  shaking,  \* connection_count of the address
  outPhase, \* where each outbound session is
  outPeer,  \* the device it was opened to
  netTx,    \* the outbound session net_tx belongs to
  closing,  \* disconnect_gracefully is flushing
  owner,    \* history: the task whose value is in the slot
  stolen    \* history: a task has overwritten or cleared another's slot

slotVars    == <<slot, inPhase, inPeer, counted, shaking, outPhase, outPeer, netTx, closing, owner, stolen>>
rateVars == <<counted, shaking>>
inVars  == <<inPhase, inPeer, rateVars>>
outVars == <<outPhase, outPeer, netTx>>

\* "shaking" is before the handshake, "claimed" holds the sentinel, "checked" has read Hello, "paired" is
\* authenticated, "swapped" has put its peer in the slot, "live" also listens
\* to disconnect signals, "ending" has left the read loop.
InPhases  == {"free", "shaking", "claimed", "checked", "paired", "swapped", "live", "ending"}
OutPhases == {"free", "dialing", "live", "ending"}

SlotTypeOK ==
  /\ slot \in Peers \cup {NoPeer, Pending}
  /\ inPhase \in [Ins -> InPhases]
  /\ inPeer \in [Ins -> Peers \cup {NoPeer}]
  /\ counted \in [Ins -> BOOLEAN]
  /\ shaking \in 0 .. ShakeCap
  /\ outPhase \in [Outs -> OutPhases]
  /\ outPeer \in [Outs -> Peers \cup {NoPeer}]
  /\ netTx \in Outs \cup {Nobody}
  /\ closing \in BOOLEAN
  /\ owner \in Ins \cup Outs \cup {Nobody}
  /\ stolen \in BOOLEAN

SlotInit ==
  /\ slot = NoPeer
  /\ inPhase = [s \in Ins |-> "free"] /\ inPeer = [s \in Ins |-> NoPeer]
  /\ counted = [s \in Ins |-> FALSE] /\ shaking = 0
  /\ outPhase = [o \in Outs |-> "free"] /\ outPeer = [o \in Outs |-> NoPeer]
  /\ netTx = Nobody /\ closing = FALSE
  /\ owner = Nobody /\ stolen = FALSE

\* t writes v, or NoPeer, into the slot; somebody else's value is lost if it
\* held one.
Write(t, v) ==
  /\ slot' = v
  /\ owner' = IF v = NoPeer THEN Nobody ELSE t
  /\ stolen' = (stolen \/ owner \notin {Nobody, t})

InTo(s, phase)  == inPhase' = [inPhase EXCEPT ![s] = phase]
OutTo(o, phase) == outPhase' = [outPhase EXCEPT ![o] = phase]

-----------------------------------------------------------------------------
(* Inbound: handle_controller.                                             *)

\* Mutation: the cap on handshakes of one address is not looked at.
AcceptUnlimited(s) ==
  /\ inPhase[s] = "free"
  /\ shaking' = shaking + 1 /\ counted' = [counted EXCEPT ![s] = TRUE]
  /\ InTo(s, "shaking")
  /\ UNCHANGED <<slot, owner, stolen, inPeer, outVars, closing>>

\* A connection is accepted: a direct one takes a place in the count of its
\* address, or is dropped on the spot; one through the relay does not.
AcceptStream(s) ==
  /\ inPhase[s] = "free"
  /\ \/ /\ shaking < ShakeCap
        /\ shaking' = shaking + 1 /\ counted' = [counted EXCEPT ![s] = TRUE]
     \/ UNCHANGED rateVars
  /\ InTo(s, "shaking")
  /\ UNCHANGED <<slot, owner, stolen, inPeer, outVars, closing>>

\* release_rate_slot: once per connection, and never below zero.
ReleaseRateSlot(s) ==
  /\ counted' = [counted EXCEPT ![s] = FALSE]
  /\ shaking' = IF counted[s] /\ shaking > 0 THEN shaking - 1 ELSE shaking

\* Mutation: the early return of a failed handshake keeps its place.
HandshakeFailsLeaks(s) ==
  /\ inPhase[s] = "shaking"
  /\ counted' = [counted EXCEPT ![s] = FALSE]
  /\ InTo(s, "free")
  /\ UNCHANGED <<slot, owner, stolen, inPeer, shaking, outVars, closing>>

HandshakeFails(s) ==
  /\ inPhase[s] = "shaking"
  /\ ReleaseRateSlot(s)
  /\ InTo(s, "free")
  /\ UNCHANGED <<slot, owner, stolen, inPeer, outVars, closing>>

\* The encrypted handshake is done; the slot is checked and set in one go.
Claim(s) ==
  /\ inPhase[s] = "shaking" /\ slot = NoPeer
  /\ ReleaseRateSlot(s)
  /\ Write(s, Pending)
  /\ InTo(s, "claimed")
  /\ UNCHANGED <<inPeer, outVars, closing>>

\* Mutation: the refusal clears the marker like the other early returns.
RefuseClears(s) ==
  /\ inPhase[s] = "shaking" /\ slot # NoPeer
  /\ ReleaseRateSlot(s)
  /\ IF slot = Pending THEN Write(s, NoPeer) ELSE UNCHANGED <<slot, owner, stolen>>
  /\ InTo(s, "free")
  /\ UNCHANGED <<inPeer, outVars, closing>>

\* A taken slot: an Error reply, and the connection is dropped.
Refuse(s) ==
  /\ inPhase[s] = "shaking" /\ slot # NoPeer
  /\ ReleaseRateSlot(s)
  /\ InTo(s, "free")
  /\ UNCHANGED <<slot, owner, stolen, inPeer, outVars, closing>>

\* Hello names the peer: not in its kick cooldown, of our protocol version.
ReadHello(s, p) ==
  /\ inPhase[s] = "claimed"
  /\ InTo(s, "checked")
  /\ inPeer' = [inPeer EXCEPT ![s] = p]
  /\ UNCHANGED <<slot, owner, stolen, rateVars, outVars, closing>>

\* The stored key matches, or the user accepts the pairing.
Authenticate(s) ==
  /\ inPhase[s] = "checked"
  /\ InTo(s, "paired")
  /\ UNCHANGED <<slot, owner, stolen, inPeer, rateVars, outVars, closing>>

\* clear_pending_if_ours: whoever's marker it is.
ClearPendingIfOurs(s) ==
  IF slot = Pending THEN Write(s, NoPeer) ELSE UNCHANGED <<slot, owner, stolen>>

\* End of stream, cooldown, wrong version, wrong key, rejection, timeout.
Abandon(s) ==
  /\ inPhase[s] \in {"claimed", "checked"}
  /\ ClearPendingIfOurs(s)
  /\ InTo(s, "free")
  /\ inPeer' = [inPeer EXCEPT ![s] = NoPeer]
  /\ UNCHANGED <<rateVars, outVars, closing>>

\* Mutation: the session starts and the sentinel stays.
SwapKeepsMarker(s) ==
  /\ inPhase[s] = "paired"
  /\ slot \in {Pending, inPeer[s]}
  /\ InTo(s, "swapped")
  /\ UNCHANGED <<slot, owner, stolen, inPeer, rateVars, outVars, closing>>

\* The sentinel becomes the peer's id.
Swap(s) ==
  /\ inPhase[s] = "paired"
  /\ slot \in {Pending, inPeer[s]}
  /\ Write(s, inPeer[s])
  /\ InTo(s, "swapped")
  /\ UNCHANGED <<inPeer, rateVars, outVars, closing>>

\* "Lost the provisional slot race": straight to cleanup.
SwapFails(s) ==
  /\ inPhase[s] = "paired"
  /\ slot \notin {Pending, inPeer[s]}
  /\ InTo(s, "ending")
  /\ UNCHANGED <<slot, owner, stolen, inPeer, rateVars, outVars, closing>>

\* Screen sizes exchanged, helper tasks running, disconnect_task waiting.
GoLive(s) ==
  /\ inPhase[s] = "swapped"
  /\ InTo(s, "live")
  /\ UNCHANGED <<slot, owner, stolen, inPeer, rateVars, outVars, closing>>

\* Bye, end of stream, the watchdog or the kick of the local user.
EndInbound(s) ==
  /\ inPhase[s] \in {"swapped", "live"}
  /\ InTo(s, "ending")
  /\ UNCHANGED <<slot, owner, stolen, inPeer, rateVars, outVars, closing>>

\* cleanup: the slot goes if it is this peer's, or the sentinel.
Cleanup(s) ==
  /\ inPhase[s] = "ending"
  /\ IF slot \in {Pending, inPeer[s]}
     THEN Write(s, NoPeer)
     ELSE UNCHANGED <<slot, owner, stolen>>
  /\ InTo(s, "free")
  /\ inPeer' = [inPeer EXCEPT ![s] = NoPeer]
  /\ UNCHANGED <<rateVars, outVars, closing>>

-----------------------------------------------------------------------------
(* Outbound: connect_to_device, the reconnect loop, force_dial_peer.       *)

\* connect_to_device and each round of reconnect_with_backoff look at the
\* slot; force_dial_peer looks at net_tx instead.
Dial(o, p) ==
  /\ outPhase[o] = "free"
  /\ slot = NoPeer \/ netTx = Nobody
  /\ OutTo(o, "dialing")
  /\ outPeer' = [outPeer EXCEPT ![o] = p]
  /\ UNCHANGED <<slot, owner, stolen, inVars, netTx, closing>>

DialFails(o) ==
  /\ outPhase[o] = "dialing"
  /\ OutTo(o, "free")
  /\ outPeer' = [outPeer EXCEPT ![o] = NoPeer]
  /\ UNCHANGED <<slot, owner, stolen, inVars, netTx, closing>>

\* Authenticated: the slot and net_tx are this session's, whatever they were.
OpenOutbound(o) ==
  /\ outPhase[o] = "dialing"
  /\ Write(o, outPeer[o])
  /\ netTx' = o
  /\ OutTo(o, "live")
  /\ UNCHANGED <<inVars, outPeer, closing>>

EndOutbound(o) ==
  /\ outPhase[o] = "live"
  /\ OutTo(o, "ending")
  /\ UNCHANGED <<slot, owner, stolen, inVars, outPeer, netTx, closing>>

\* The end of connect_stream empties the slot and net_tx, whoever's they are.
Hangup(o) ==
  /\ outPhase[o] = "ending"
  /\ Write(o, NoPeer)
  /\ netTx' = Nobody
  /\ OutTo(o, "free")
  /\ outPeer' = [outPeer EXCEPT ![o] = NoPeer]
  /\ UNCHANGED <<inVars, closing>>

-----------------------------------------------------------------------------
(* The user's disconnects.                                                 *)

\* The disconnect command (and the idle lock) first signals the inbound
\* session; only one that already waits hears it.
DisconnectCommand ==
  /\ "command" \in Closers /\ ~closing
  /\ closing' = TRUE
  /\ inPhase' = [s \in Ins |-> IF inPhase[s] = "live" THEN "ending" ELSE inPhase[s]]
  /\ UNCHANGED <<slot, owner, stolen, inPeer, rateVars, outVars>>

\* The tray's Disconnect signals nobody.
DisconnectTray ==
  /\ "tray" \in Closers /\ ~closing
  /\ closing' = TRUE
  /\ UNCHANGED <<slot, owner, stolen, inVars, outVars>>

\* disconnect_gracefully, after its grace period.
FinishDisconnect ==
  /\ closing
  /\ closing' = FALSE
  /\ Write(Nobody, NoPeer)
  /\ netTx' = Nobody
  /\ UNCHANGED <<inVars, outPhase, outPeer>>

Inbound(s) ==
  \/ AcceptStream(s) \/ HandshakeFails(s) \/ Claim(s) \/ Refuse(s) \/ (\E p \in Peers : ReadHello(s, p)) \/ Authenticate(s)
  \/ Abandon(s) \/ Swap(s) \/ SwapFails(s) \/ GoLive(s)
  \/ EndInbound(s) \/ Cleanup(s)

Outbound(o) ==
  \/ (\E p \in Peers : Dial(o, p)) \/ DialFails(o) \/ OpenOutbound(o)
  \/ EndOutbound(o) \/ Hangup(o)

SlotNext ==
  \/ \E s \in Ins : Inbound(s)
  \/ \E o \in Outs : Outbound(o)
  \/ DisconnectCommand \/ DisconnectTray \/ FinishDisconnect

SlotSpec == SlotInit /\ [][SlotNext]_slotVars

-----------------------------------------------------------------------------
(* Properties.                                                             *)

Driving == {s \in Ins : inPhase[s] \in {"swapped", "live"}}
Holding == {s \in Ins : inPhase[s] \notin {"free", "shaking"}}

\* "Whoever lands it first owns the controller role.  Any late-arriving
\* connection will see it and bail out" (server.rs:18): never two inbound
\* sessions drive this machine at once.
OneController == \A s, t \in Driving : s = t

\* The slot of a running handler is its own as long as nobody overwrites or
\* clears a slot held by another task: then at most one handler is past the
\* claim, and the slot shows how far it is (server.rs:151, 359, 995).
ExclusiveUntilStolen ==
  ~stolen =>
    /\ \A s, t \in Holding : s = t
    /\ \A s \in Holding :
         /\ owner = s
         /\ inPhase[s] \in {"claimed", "checked", "paired"} => slot = Pending
         /\ inPhase[s] \in {"swapped", "live", "ending"} => slot = inPeer[s]

\* An inbound handler never overwrites or clears a slot another task holds,
\* neither another handler's nor an outbound session's, unless the slot has
\* been stolen before (server.rs:23, 151, 994).
InboundNeverSteals == [][stolen' /\ ~stolen => inPhase' = inPhase]_slotVars

\* A place in the count of an address is given back exactly once, by the
\* connection that took it and before it goes on: a leaked one would refuse
\* the address for good (server.rs:103).
RateSlotsBalance ==
  /\ shaking = Cardinality({s \in Ins : counted[s]})
  /\ \A s \in Ins : counted[s] => inPhase[s] = "shaking"

=============================================================================

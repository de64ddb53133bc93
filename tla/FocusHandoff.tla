----------------------------- MODULE FocusHandoff -----------------------------
(***************************************************************************)
(* Who has the mouse.  A controller (the client half of a session) relays  *)
(* its keyboard and mouse to a receiver (the server half) over one TCP     *)
(* connection.  The handover runs over two flags on two machines           *)
(* (relay_active on one, is_controlled on the other) that only agree once  *)
(* the FocusAcquired, FocusReleased and ReturnToSender messages crossing   *)
(* between them have been read.  Sessions end in every way the code knows  *)
(* and start again.                                                        *)
(*                                                                         *)
(* A machine is several threads: the input grab (capture.rs), the commands *)
(* of the UI and the tray (commands.rs, lib.rs), the raw-mouse thread and  *)
(* the two network loops.  No lock is held over a whole handler: taking    *)
(* control is four steps of its thread, giving it up is two (relay_active  *)
(* is cleared, then FocusReleased is sent), and so is a modifier key       *)
(* (held_modifiers is updated, then the key is sent).                      *)
(***************************************************************************)
EXTENDS CursorTracker, Naturals, Sequences

CONSTANTS
  Modifiers,   \* the modifier keys the user may hold
  Zones,       \* the cursor zones to explore
  Activators,  \* threads that take control: "grab" (edge, hotkey), "cmd" (UI)
  Releases,    \* ways to give control up: AllReleases, or fewer
  NetCap,      \* messages in flight to the receiver before try_send drops
  BackCap      \* messages in flight to the controller before send waits

ASSUME ZonesAssumption      == Zones \subseteq AllZones
ASSUME ActivatorsAssumption == Activators \subseteq {"grab", "cmd"}
AllReleases == {"escape", "hotkey", "command", "tray"}

ASSUME ReleasesAssumption   == Releases \subseteq AllReleases
ASSUME CapsAssumption       == NetCap \in Nat \ {0} /\ BackCap \in Nat \ {0}

VARIABLES
  ctl,        \* controller: its session is "up", "ending" or "down"
  tx,         \* controller: net_tx is "open", "closing" (Disconnect queued) or "none"
  closer,     \* controller: where disconnect_gracefully stands
  relaying,   \* relay_active, on each machine
  pc,         \* controller: the step each activating thread is about to take
  releasing,  \* controller: releases that still have FocusReleased to send
  inHand,     \* controller: the modifier key remembered and not yet sent
  debounced,  \* controller: last_release is recent
  touched,    \* controller: edge_first_touch is set
  held,       \* controller: held_modifiers
  burst,      \* controller: modifiers its ending session still has to release
  rcv,        \* receiver: its session is "up", "ending" or "down"
  controlled, \* receiver: is_controlled
  tracker,    \* receiver: the cursor tracker of this session
  localHeld,  \* receiver: local_held of this session
  osDown,     \* receiver: modifiers its operating system sees pressed
  toRcv,      \* messages queued by or sent from the controller
  toCtl,      \* messages queued by or sent from the receiver
  link,       \* the TCP connection is "ok" or "broken"
  lost,       \* history: the controller's latest focus command was dropped
  crossed,    \* history: it was a FocusReleased, sent after relaying went on again
  stray       \* history: modifiers whose release was dropped, or sent too early

threadVars == <<pc, releasing, inHand>>
ctlVars    == <<ctl, tx, closer, threadVars, debounced, touched, held, burst>>
rcvVars    == <<rcv, controlled, tracker, localHeld, osDown>>
netVars    == <<toRcv, toCtl, link>>
history    == <<lost, crossed, stray>>
vars       == <<ctlVars, relaying, rcvVars, netVars, history>>

Hosts == {"ctl", "rcv"}

Move(z)      == [kind |-> "move", at |-> z]          \* Input(MouseMove): entry warp
Rel          == [kind |-> "rel"]                     \* Input(MouseMoveRel)
Key(k, down) == [kind |-> "key", key |-> k, down |-> down]
Acquired     == [kind |-> "FocusAcquired"]
Released     == [kind |-> "FocusReleased"]
Bye          == [kind |-> "Bye"]
NoKey        == [kind |-> "none"]

Keys == {Key(k, d) : k \in Modifiers, d \in BOOLEAN}

Commands == {Move(z) : z \in Zones} \cup {Rel, Acquired, Released, Bye}
            \cup Keys

Return  == "ReturnToSender"
Ended   == "EndedByPeer"
Replies == {Return, Ended}

Steps == {"idle", "checked", "on", "warped"}

TypeOK ==
  /\ ctl \in {"up", "ending", "down"}
  /\ tx \in {"open", "closing", "none"}
  /\ closer \in {"idle", "sending", "flushing"}
  /\ relaying \in [Hosts -> BOOLEAN]
  /\ pc \in [Activators -> Steps]
  /\ releasing \in SUBSET Releases
  /\ inHand \in Keys \cup {NoKey}
  /\ debounced \in BOOLEAN
  /\ touched \in BOOLEAN
  /\ held \in SUBSET Modifiers
  /\ burst \in SUBSET Modifiers
  /\ rcv \in {"up", "ending", "down"}
  /\ controlled \in BOOLEAN
  /\ tracker \in Trackers
  /\ localHeld \in SUBSET Modifiers
  /\ osDown \in SUBSET Modifiers
  /\ toRcv \in Seq(Commands)
  /\ toCtl \in Seq(Replies)
  /\ link \in {"ok", "broken"}
  /\ lost \in BOOLEAN
  /\ crossed \in BOOLEAN
  /\ stray \in SUBSET Modifiers

Init ==
  /\ ctl = "up" /\ tx = "open" /\ closer = "idle"
  /\ relaying = [h \in Hosts |-> FALSE]
  /\ pc = [t \in Activators |-> "idle"]
  /\ releasing = {} /\ inHand = NoKey
  /\ debounced = FALSE /\ touched = FALSE
  /\ held = {} /\ burst = {}
  /\ rcv = "up" /\ controlled = FALSE
  /\ tracker = InitTracker
  /\ localHeld = {} /\ osDown = {}
  /\ toRcv = <<>> /\ toCtl = <<>> /\ link = "ok"
  /\ lost = FALSE /\ crossed = FALSE /\ stray = {}

-----------------------------------------------------------------------------
(* Sending.                                                                *)

\* try_send gets through while net_tx is there, nothing follows a queued
\* Disconnect, and the queue has room.
CanSend == tx = "open" /\ link = "ok" /\ Len(toRcv) < NetCap

LostAfter(m) ==
  IF m \in {Acquired, Released} THEN ~CanSend ELSE lost

\* FocusAcquired settles what an earlier FocusReleased did.
CrossedAfter(m) ==
  CASE m = Acquired -> FALSE
    [] m = Released -> relaying["ctl"]
    [] OTHER        -> crossed

\* A release that is dropped leaves its key down.  One that goes out settles
\* it, unless a press of the key is still to follow; so does the press of a
\* key that is still remembered.
StrayAfter(m) ==
  IF m \notin Keys THEN stray
  ELSE IF m.down THEN (IF m.key \in held THEN stray \ {m.key} ELSE stray)
  ELSE IF ~CanSend THEN stray \cup {m.key}
  ELSE IF inHand = Key(m.key, TRUE) THEN stray
  ELSE stray \ {m.key}

\* send_net: queue the command or drop it silently.
SendNet(m) ==
  /\ toRcv' = IF CanSend THEN Append(toRcv, m) ELSE toRcv
  /\ lost' = LostAfter(m)
  /\ crossed' = CrossedAfter(m)
  /\ stray' = StrayAfter(m)
  /\ UNCHANGED <<toCtl, link>>

\* set_relaying on one machine.
SetRelaying(h, on) == relaying' = [relaying EXCEPT ![h] = on]

-----------------------------------------------------------------------------
(* Controller: taking control.                                             *)

Goto(t, step) == pc' = [pc EXCEPT ![t] = step]

\* The grab thread handles one event at a time.
GrabIdle ==
  /\ "grab" \in Activators => pc["grab"] = "idle"
  /\ releasing \cap {"escape", "hotkey"} = {} /\ inHand = NoKey

\* The cursor arrives at the transition edge; the dwell timer is armed.
\* handle_grab only looks while not relaying, off debounce, with net_tx set.
TouchEdge ==
  /\ "grab" \in Activators /\ GrabIdle
  /\ ~relaying["ctl"] /\ tx # "none" /\ ~debounced
  /\ ~touched
  /\ touched' = TRUE
  /\ UNCHANGED <<ctl, tx, closer, threadVars, debounced, held, burst, relaying, rcvVars, netVars, history>>

\* The cursor leaves the edge before the dwell ends.
LeaveEdge ==
  /\ "grab" \in Activators /\ GrabIdle /\ ~relaying["ctl"]
  /\ touched
  /\ touched' = FALSE
  /\ UNCHANGED <<ctl, tx, closer, threadVars, debounced, held, burst, relaying, rcvVars, netVars, history>>

\* The dwell is over and every condition held when it was read.
DwellOver ==
  /\ "grab" \in Activators /\ GrabIdle
  /\ ~relaying["ctl"] /\ tx # "none" /\ ~debounced
  /\ touched
  /\ touched' = FALSE
  /\ Goto("grab", "checked")
  /\ UNCHANGED <<ctl, tx, closer, releasing, inHand, debounced, held, burst, relaying, rcvVars, netVars, history>>

\* The switch hotkey of gaming mode: no edge, no dwell, no debounce.
SwitchHotkeyOn ==
  /\ "grab" \in Activators /\ GrabIdle
  /\ ~relaying["ctl"] /\ tx # "none"
  /\ Goto("grab", "checked")
  /\ UNCHANGED <<ctl, tx, closer, releasing, inHand, debounced, touched, held, burst, relaying, rcvVars, netVars, history>>

\* The Take Control command: a connected peer is its only condition.
TakeControl ==
  /\ "cmd" \in Activators /\ pc["cmd"] = "idle"
  /\ tx # "none"
  /\ Goto("cmd", "checked")
  /\ UNCHANGED <<ctl, tx, closer, releasing, inHand, debounced, touched, held, burst, relaying, rcvVars, netVars, history>>

RelayOn(t) ==
  /\ pc[t] = "checked"
  /\ SetRelaying("ctl", TRUE)
  /\ Goto(t, "on")
  /\ UNCHANGED <<ctl, tx, closer, releasing, inHand, debounced, touched, held, burst, rcvVars, netVars, history>>

\* The entry warp: at an edge when the cursor crossed one, mid-screen for
\* Take Control.
SendEntryWarp(t) ==
  /\ pc[t] = "on"
  /\ \E z \in Zones :
       /\ (t = "grab") = (EntryEdgeAt(z) # NoEdge)
       /\ SendNet(Move(z))
  /\ Goto(t, "warped")
  /\ UNCHANGED <<ctl, tx, closer, releasing, inHand, debounced, touched, held, burst, relaying, rcvVars>>

SendAcquired(t) ==
  /\ pc[t] = "warped"
  /\ SendNet(Acquired)
  /\ Goto(t, "idle")
  /\ UNCHANGED <<ctl, tx, closer, releasing, inHand, debounced, touched, held, burst, relaying, rcvVars>>

-----------------------------------------------------------------------------
(* Controller: giving control up, and driving.                             *)

\* Release r clears relay_active; its FocusReleased goes out in a later step.
Unrelay(r) ==
  /\ r \in Releases \ releasing
  /\ SetRelaying("ctl", FALSE)
  /\ releasing' = releasing \cup {r}

\* Escape, or the switch hotkey a second time.
EscapeRelease ==
  /\ GrabIdle /\ relaying["ctl"]
  /\ Unrelay("escape")
  /\ UNCHANGED <<ctl, tx, closer, pc, inHand, debounced, touched, held, burst, rcvVars, netVars, history>>

\* The release hotkey, pressed once or twice.
HotkeyRelease ==
  /\ GrabIdle /\ relaying["ctl"]
  /\ Unrelay("hotkey")
  /\ UNCHANGED <<ctl, tx, closer, pc, inHand, debounced, touched, held, burst, rcvVars, netVars, history>>

\* The release command of the UI resets the edge timers before it sends.
CommandRelease ==
  /\ relaying["ctl"]
  /\ Unrelay("command")
  /\ debounced' = FALSE /\ touched' = FALSE
  /\ UNCHANGED <<ctl, tx, closer, pc, inHand, held, burst, rcvVars, netVars, history>>

\* The tray's Release Control does not ask whether anything is relayed.
TrayRelease ==
  /\ Unrelay("tray")
  /\ UNCHANGED <<ctl, tx, closer, pc, inHand, debounced, touched, held, burst, rcvVars, netVars, history>>

\* FocusReleased is sent whatever has happened since relay_active was
\* cleared.  Only Escape and the switch hotkey start the debounce.
SendReleased(r) ==
  /\ r \in releasing
  /\ SendNet(Released)
  /\ releasing' = releasing \ {r}
  /\ debounced' = (debounced \/ r = "escape")
  /\ UNCHANGED <<ctl, tx, closer, pc, inHand, touched, held, burst, relaying, rcvVars>>

DebounceOver ==
  /\ debounced
  /\ debounced' = FALSE
  /\ UNCHANGED <<ctl, tx, closer, threadVars, touched, held, burst, relaying, rcvVars, netVars, history>>

\* Mutation: a press is forwarded without being remembered.
HeldAfterForgetful(k, down) == held \ {k}

HeldAfter(k, down) == IF down THEN held \cup {k} ELSE held \ {k}

\* A modifier goes down or up while relaying: it is remembered first ...
RememberKey(k, down) ==
  /\ GrabIdle /\ relaying["ctl"]
  /\ held' = HeldAfter(k, down)
  /\ inHand' = Key(k, down)
  /\ UNCHANGED <<ctl, tx, closer, pc, releasing, debounced, touched, burst, relaying, rcvVars, netVars, history>>

\* ... and sent once held_modifiers is unlocked, over whatever session there
\* is by then.
ShipKey ==
  /\ inHand # NoKey
  /\ SendNet(inHand)
  /\ inHand' = NoKey
  /\ UNCHANGED <<ctl, tx, closer, pc, releasing, debounced, touched, held, burst, relaying, rcvVars>>

\* The raw-mouse thread ships motion while relaying.  Motion it still ships
\* after relay_active is cleared is motion it might have shipped before.
UserMotion ==
  /\ relaying["ctl"]
  /\ SendNet(Rel)
  /\ UNCHANGED <<ctlVars, relaying, rcvVars>>

-----------------------------------------------------------------------------
(* Controller: disconnecting.                                              *)

\* disconnect and the tray's Disconnect stop relaying first; the idle lock
\* does not.  Then disconnect_gracefully takes a clone of net_tx.
Disconnect ==
  /\ closer = "idle" /\ tx # "none"
  /\ closer' = "sending"
  /\ \/ SetRelaying("ctl", FALSE)
     \/ UNCHANGED relaying
  /\ UNCHANGED <<ctl, tx, threadVars, debounced, touched, held, burst, rcvVars, netVars, history>>

\* The Disconnect command is queued, or the channel is already closed.
QueueDisconnect ==
  /\ closer = "sending"
  /\ tx = "open" /\ (link = "ok" => Len(toRcv) < NetCap)
  /\ toRcv' = IF link = "ok" THEN Append(toRcv, Bye) ELSE toRcv
  /\ tx' = "closing"
  /\ closer' = "flushing"
  /\ UNCHANGED <<ctl, threadVars, debounced, touched, held, burst, relaying, rcvVars, toCtl, link, history>>

\* No room within 500 ms: Bye is never sent.
DisconnectTimeout ==
  /\ closer = "sending"
  /\ link = "ok" /\ Len(toRcv) >= NetCap
  /\ closer' = "flushing"
  /\ UNCHANGED <<ctl, tx, threadVars, debounced, touched, held, burst, relaying, rcvVars, netVars, history>>

\* 100 ms later net_tx and connected_peer go, whichever session they are of.
CloseTx ==
  /\ closer = "flushing"
  /\ closer' = "idle"
  /\ tx' = "none"
  /\ debounced' = FALSE /\ touched' = FALSE
  /\ UNCHANGED <<ctl, threadVars, held, burst, relaying, rcvVars, netVars, history>>

-----------------------------------------------------------------------------
(* Receiver: reading the stream.                                           *)

Incoming(m) == rcv = "up" /\ toRcv # <<>> /\ m = Head(toRcv)

\* Mutation: control ends without a ReturnToSender.
MoveCursorSilently(z) ==
  /\ tracker' = AfterMotion(tracker, z)
  /\ controlled' = (controlled /\ ~HandsBack(tracker, z))
  /\ UNCHANGED toCtl

\* A motion event leaves the driven cursor at z; crossing back over the
\* entry edge sends ReturnToSender (waiting for room) and ends control.
MoveCursor(z) ==
  /\ tracker' = AfterMotion(tracker, z)
  /\ IF HandsBack(tracker, z)
     THEN /\ Len(toCtl) < BackCap
          /\ toCtl' = Append(toCtl, Return)
          /\ controlled' = FALSE
     ELSE UNCHANGED <<toCtl, controlled>>

ReceiveMotion ==
  /\ \/ \E z \in Zones : Incoming(Move(z)) /\ MoveCursor(z)
     \/ /\ Incoming(Rel) /\ tracker.pos # NoPos
        /\ \E z \in Zones : MoveCursor(z)
     \/ /\ Incoming(Rel) /\ tracker.pos = NoPos
        /\ UNCHANGED <<tracker, toCtl, controlled>>
  /\ toRcv' = Tail(toRcv)
  /\ UNCHANGED <<ctlVars, relaying, rcv, localHeld, osDown, link, history>>

ReceiveKey ==
  /\ \E k \in Modifiers, down \in BOOLEAN :
       /\ Incoming(Key(k, down))
       /\ localHeld' = IF down THEN localHeld \cup {k} ELSE localHeld \ {k}
       /\ osDown' = IF down THEN osDown \cup {k} ELSE osDown \ {k}
  /\ toRcv' = Tail(toRcv)
  /\ UNCHANGED <<ctlVars, relaying, rcv, controlled, tracker, toCtl, link, history>>

ReceiveAcquired ==
  /\ Incoming(Acquired)
  /\ controlled' = TRUE
  /\ tracker' = AfterAcquired(tracker)
  /\ toRcv' = Tail(toRcv)
  /\ UNCHANGED <<ctlVars, relaying, rcv, localHeld, osDown, toCtl, link, history>>

\* Mutation: FocusReleased resets the tracker but not is_controlled.
ReceiveReleasedKeepsControl ==
  /\ Incoming(Released)
  /\ tracker' = AfterReleased(tracker)
  /\ toRcv' = Tail(toRcv)
  /\ UNCHANGED <<ctlVars, relaying, rcv, controlled, localHeld, osDown, toCtl, link, history>>

ReceiveReleased ==
  /\ Incoming(Released)
  /\ controlled' = FALSE
  /\ tracker' = AfterReleased(tracker)
  /\ toRcv' = Tail(toRcv)
  /\ UNCHANGED <<ctlVars, relaying, rcv, localHeld, osDown, toCtl, link, history>>

-----------------------------------------------------------------------------
(* Receiver: the end of its session.                                       *)

\* Mutation: local_held is forgotten, not released.
BreakLoopForgetful ==
  /\ rcv = "up"
  /\ rcv' = "ending"
  /\ localHeld' = {}
  /\ UNCHANGED <<osDown, controlled, tracker>>

\* The read loop breaks and releases what it still holds down.
BreakLoop ==
  /\ rcv = "up"
  /\ rcv' = "ending"
  /\ osDown' = osDown \ localHeld
  /\ localHeld' = {}
  /\ UNCHANGED <<controlled, tracker>>

\* A hand-back waits for room in the queue of a writer that has failed: the
\* controller has closed the connection.
HandBackFails ==
  /\ ctl = "down" /\ Len(toCtl) >= BackCap
  /\ \E z \in Zones :
       /\ HandsBack(tracker, z)
       /\ Incoming(Move(z)) \/ (Incoming(Rel) /\ tracker.pos # NoPos)

\* Bye, the end of a stream whose writer is gone, or a failing hand-back.
ReceiveEnd ==
  /\ \/ Incoming(Bye) /\ toRcv' = Tail(toRcv)
     \/ HandBackFails /\ toRcv' = Tail(toRcv)
     \/ /\ toRcv = <<>> /\ (tx = "none" \/ link = "broken")
        /\ UNCHANGED toRcv
  /\ BreakLoop
  /\ UNCHANGED <<ctlVars, relaying, toCtl, link, history>>

\* A local disconnect, the idle lock or the watchdog signals the session;
\* EndedByPeer goes out first when the end is intentional.
SignalEnd ==
  /\ BreakLoop
  /\ \/ UNCHANGED toCtl
     \/ Len(toCtl) < BackCap /\ toCtl' = Append(toCtl, Ended)
  /\ UNCHANGED <<ctlVars, relaying, toRcv, link, history>>

\* Escape on the receiver while it is controlled.  While the receiver itself
\* relays, Escape releases that instead.
Kick ==
  /\ controlled /\ ~relaying["rcv"]
  /\ SignalEnd

\* The writer gets 200 ms to flush, the socket closes, cleanup runs.
Cleanup ==
  /\ rcv = "ending"
  /\ rcv' = "down"
  /\ controlled' = FALSE
  /\ SetRelaying("rcv", FALSE)
  /\ link' = "broken"
  /\ toRcv' = <<>>
  /\ \E n \in 0 .. Len(toCtl) : toCtl' = SubSeq(toCtl, 1, n)
  /\ UNCHANGED <<ctlVars, tracker, localHeld, osDown, history>>

\* take_control on the receiver: a connected peer is all it asks for.
ReceiverTakesControl ==
  /\ rcv # "down" /\ ~relaying["rcv"]
  /\ "cmd" \in Activators
  /\ SetRelaying("rcv", TRUE)
  /\ UNCHANGED <<ctlVars, rcvVars, netVars, history>>

ReceiverReleases ==
  /\ relaying["rcv"]
  /\ SetRelaying("rcv", FALSE)
  /\ UNCHANGED <<ctlVars, rcvVars, netVars, history>>

-----------------------------------------------------------------------------
(* Controller: reading the stream, and the end of its session.             *)

\* Mutation: the warp and the timers, but relaying goes on.
OnReturnKeepsRelaying ==
  /\ ctl = "up" /\ toCtl # <<>> /\ Head(toCtl) = Return
  /\ toCtl' = Tail(toCtl)
  /\ debounced' = FALSE /\ touched' = FALSE
  /\ UNCHANGED <<ctl, tx, closer, threadVars, held, burst, relaying, rcvVars, toRcv, link, history>>

\* ReturnToSender ends relaying and resets the edge timers.
OnReturn ==
  /\ ctl = "up" /\ toCtl # <<>> /\ Head(toCtl) = Return
  /\ toCtl' = Tail(toCtl)
  /\ SetRelaying("ctl", FALSE)
  /\ debounced' = FALSE /\ touched' = FALSE
  /\ UNCHANGED <<ctl, tx, closer, threadVars, held, burst, rcvVars, toRcv, link, history>>

\* The modifier whose press is remembered and still to be sent.
PressInHand == {k \in Modifiers : inHand = Key(k, TRUE)}

\* The loop breaks on EndedByPeer, on the end of the stream, or on a frame
\* that does not decrypt; the modifiers still held are drained.
EndLoop ==
  /\ ctl = "up"
  /\ \/ toCtl # <<>> /\ Head(toCtl) = Ended
     \/ toCtl = <<>> /\ link = "broken"
  /\ ctl' = "ending"
  /\ burst' = held /\ held' = {}
  /\ stray' = stray \cup PressInHand
  /\ UNCHANGED <<tx, closer, threadVars, debounced, touched, relaying, rcvVars, netVars, lost, crossed>>

ReadFails ==
  /\ ctl = "up"
  /\ ctl' = "ending"
  /\ burst' = held /\ held' = {}
  /\ stray' = stray \cup PressInHand
  /\ UNCHANGED <<tx, closer, threadVars, debounced, touched, relaying, rcvVars, netVars, lost, crossed>>

ReleaseBurst ==
  /\ ctl = "ending"
  /\ \E k \in burst : burst' = burst \ {k} /\ SendNet(Key(k, FALSE))
  /\ UNCHANGED <<ctl, tx, closer, threadVars, debounced, touched, held, relaying, rcvVars>>

\* Mutation: the scrub of the session leaves relay_active alone.
EndSessionKeepsRelaying ==
  /\ ctl = "ending" /\ burst = {}
  /\ ctl' = "down"
  /\ tx' = "none"
  /\ closer' = IF closer = "sending" THEN "flushing" ELSE closer
  /\ debounced' = FALSE /\ touched' = FALSE
  /\ UNCHANGED <<threadVars, held, burst, relaying, rcvVars, netVars, history>>

\* connected_peer and net_tx go, relaying stops, the edge timers are reset.
EndSession ==
  /\ ctl = "ending" /\ burst = {}
  /\ ctl' = "down"
  /\ tx' = "none"
  /\ closer' = IF closer = "sending" THEN "flushing" ELSE closer
  /\ SetRelaying("ctl", FALSE)
  /\ debounced' = FALSE /\ touched' = FALSE
  /\ UNCHANGED <<threadVars, held, burst, rcvVars, netVars, history>>

-----------------------------------------------------------------------------
(* The network, and the next session.                                      *)

ConnectionLost ==
  /\ link = "ok"
  /\ link' = "broken"
  /\ toRcv' = <<>> /\ toCtl' = <<>>
  /\ UNCHANGED <<ctlVars, relaying, rcvVars, history>>

\* Both halves are gone and the controller connects again.
NewSession ==
  /\ ctl = "down" /\ rcv = "down"
  /\ ctl' = "up" /\ tx' = "open"
  /\ rcv' = "up"
  /\ tracker' = InitTracker
  /\ localHeld' = {}
  /\ toRcv' = <<>> /\ toCtl' = <<>> /\ link' = "ok"
  /\ stray' = PressInHand \ held
  /\ UNCHANGED <<closer, threadVars, debounced, touched, held, burst, relaying, controlled, osDown, lost, crossed>>

Activate(t) == RelayOn(t) \/ SendEntryWarp(t) \/ SendAcquired(t)

Next ==
  \/ TouchEdge \/ LeaveEdge \/ DwellOver \/ SwitchHotkeyOn \/ TakeControl
  \/ \E t \in Activators : Activate(t)
  \/ EscapeRelease \/ HotkeyRelease \/ CommandRelease \/ TrayRelease
  \/ \E r \in Releases : SendReleased(r)
  \/ DebounceOver
  \/ \E k \in Modifiers, down \in BOOLEAN : RememberKey(k, down)
  \/ ShipKey \/ UserMotion
  \/ Disconnect \/ QueueDisconnect \/ DisconnectTimeout \/ CloseTx
  \/ ReceiveMotion \/ ReceiveKey \/ ReceiveAcquired \/ ReceiveReleased
  \/ ReceiveEnd \/ SignalEnd \/ Kick \/ Cleanup
  \/ ReceiverTakesControl \/ ReceiverReleases
  \/ OnReturn \/ EndLoop \/ ReadFails \/ ReleaseBurst \/ EndSession
  \/ ConnectionLost \/ NewSession

Spec == Init /\ [][Next]_vars

\* The network loops run; nothing is asked of the user or of the network.
Fairness ==
  /\ WF_vars(OnReturn) /\ WF_vars(EndLoop)
  /\ WF_vars(ReleaseBurst) /\ WF_vars(EndSession)
  /\ WF_vars(ReceiveMotion) /\ WF_vars(ReceiveKey)
  /\ WF_vars(ReceiveAcquired) /\ WF_vars(ReceiveReleased)
  /\ WF_vars(ReceiveEnd) /\ WF_vars(Cleanup)

FairSpec == Spec /\ Fairness

-----------------------------------------------------------------------------
(* What the handover promises.                                             *)

Live     == ctl = "up" /\ rcv = "up" /\ link = "ok"
AllIdle  == \A t \in Activators : pc[t] = "idle"

Pending(m, q) == \E i \in DOMAIN q : q[i] = m

\* Once the receiver has read all of toRcv it is controlled.
ControlArrives ==
  \/ controlled /\ ~Pending(Released, toRcv)
  \/ \E i \in DOMAIN toRcv :
       toRcv[i] = Acquired /\ \A j \in DOMAIN toRcv : j > i => toRcv[j] # Released

\* While the controller swallows its user's input, somebody is at the other
\* end: the receiver is controlled or will be, or a ReturnToSender is on its
\* way to stop the relaying, however takeovers, releases, hand-backs and
\* reconnects interleave.  It fails in two ways, each the last thing that
\* happened to a focus command: send_net's try_send dropped it (state.rs:565),
\* or a whole takeover ran between the two steps of a release, so that its
\* FocusReleased follows the new FocusAcquired (capture.rs:421 and 423).
NoSwallowedInput ==
  relaying["ctl"] /\ Live /\ AllIdle /\ ~lost /\ ~crossed =>
    ControlArrives \/ Pending(Return, toCtl)

\* A modifier pressed on the receiver by this session is still in the
\* controller's held set, its burst or the hands of its grab thread, or on
\* its way up, so that the controller can let it go.  Two keys escape: one
\* whose release was dropped, and one whose press is sent when the session
\* has drained held_modifiers already (capture.rs:503 and 510, client.rs:493).
HeldCoversReceiver ==
  rcv = "up" /\ link = "ok" =>
    \A k \in osDown : \/ k \in held \cup burst \cup stray
                       \/ inHand = Key(k, FALSE)
                       \/ Pending(Key(k, FALSE), toRcv)

\* No modifier outlives the session that pressed it, however the session
\* ends (server.rs:814).
NothingStuckAfterSession == rcv # "up" => osDown = {}

\* A ReturnToSender on its way to a running session stops the relaying, or
\* the end of that session does (client.rs:450).
HandBackCompletes ==
  (ctl = "up" /\ Pending(Return, toCtl)) ~> ~relaying["ctl"]

\* A FocusReleased that was queued does end control (server.rs:734).
ReleaseArrives == Pending(Released, toRcv) ~> ~controlled

\* When the receiver goes away during a session of the controller's, the
\* controller's user gets the mouse back (client.rs:524).
LossFreesMouse == (ctl # "down" /\ rcv # "up") ~> ~relaying["ctl"]

\* Whatever stops the relaying of a live session also releases a receiver
\* that is controlled: its FocusReleased is queued or about to be sent.  The
\* protocol says so of ReturnToSender, "same effect as pressing
\* Esc" (protocol.rs:77), and Escape sends FocusReleased (capture.rs:423).
StopEndsControl ==
  [][ /\ relaying["ctl"] /\ ~relaying'["ctl"]
      /\ Live /\ AllIdle /\ CanSend /\ ctl' = "up" /\ closer' = "idle"
      => (controlled' => Pending(Released, toRcv') \/ releasing' # {}) ]_vars

\* Only the side with a net_tx relays, neither the receiver nor a controller
\* whose session is over; otherwise the user's cursor freezes with nothing
\* being sent anywhere (capture.rs:588).  Neither take_control (commands.rs:155)
\* nor the gap between capture.rs:592 and 651 sees to it.
OnlySendersRelay ==
  ~relaying["rcv"] /\ (ctl = "down" /\ AllIdle => ~relaying["ctl"])

=============================================================================

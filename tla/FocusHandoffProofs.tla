-------------------------- MODULE FocusHandoffProofs --------------------------
(***************************************************************************)
(* Proofs about FocusHandoff, for every set of modifiers, zones and        *)
(* threads and every bound on the queues.                                  *)
(***************************************************************************)
EXTENDS FocusHandoff, TLAPS

-----------------------------------------------------------------------------
(* Typing, part by part.                                                   *)

CtlTyped ==
  /\ ctl \in {"up", "ending", "down"}
  /\ tx \in {"open", "closing", "none"}
  /\ closer \in {"idle", "sending", "flushing"}
  /\ pc \in [Activators -> Steps]
  /\ releasing \in SUBSET Releases
  /\ inHand \in Keys \cup {NoKey}
  /\ debounced \in BOOLEAN
  /\ touched \in BOOLEAN
  /\ held \in SUBSET Modifiers
  /\ burst \in SUBSET Modifiers

RcvTyped ==
  /\ rcv \in {"up", "ending", "down"}
  /\ controlled \in BOOLEAN
  /\ tracker \in Trackers
  /\ localHeld \in SUBSET Modifiers
  /\ osDown \in SUBSET Modifiers

NetTyped ==
  /\ toRcv \in Seq(Commands)
  /\ toCtl \in Seq(Replies)
  /\ link \in {"ok", "broken"}

HistoryTyped == lost \in BOOLEAN /\ crossed \in BOOLEAN /\ stray \in SUBSET Modifiers

RelayTyped == relaying \in [Hosts -> BOOLEAN]

Typed == CtlTyped /\ RcvTyped /\ NetTyped /\ HistoryTyped /\ RelayTyped

LEMMA TypeParts == TypeOK <=> Typed
BY DEF TypeOK, Typed, CtlTyped, RcvTyped, NetTyped, HistoryTyped, RelayTyped

\* The tracker operators return trackers.
LEMMA TrackerTyped ==
  ASSUME NEW t \in Trackers, NEW z \in AllZones
  PROVE  /\ AfterMotion(t, z) \in Trackers
         /\ AfterAcquired(t) \in Trackers
         /\ AfterReleased(t) \in Trackers
<1> USE DEF Trackers, Edges, NoEdge, NoPos
<1>1. EntryEdgeAt(z) \in Edges \cup {NoEdge}
  BY DEF EntryEdgeAt
<1>2. DepartedAfter(t, z) \in BOOLEAN
  BY DEF DepartedAfter
<1>3. AfterMotion(t, z) \in Trackers
  BY <1>1, <1>2 DEF AfterMotion
<1>4. AfterAcquired(t) \in Trackers
  BY DEF AfterAcquired
<1>5. AfterReleased(t) \in Trackers
  BY DEF AfterReleased, AfterAcquired
<1> QED
  BY <1>3, <1>4, <1>5

LEMMA KeyTyped ==
  ASSUME NEW k \in Modifiers, NEW down \in BOOLEAN
  PROVE  Key(k, down) \in Commands /\ Key(k, down) \in Keys
BY DEF Commands, Keys

\* The release handlers have their first step in common: relay_active is
\* cleared, nothing is sent yet.
ReleaseStep == EscapeRelease \/ HotkeyRelease \/ CommandRelease \/ TrayRelease

LEMMA ReleaseEffect ==
  ASSUME ReleaseStep
  PROVE  /\ relaying' = [relaying EXCEPT !["ctl"] = FALSE]
         /\ \E r \in Releases : releasing' = releasing \cup {r}
         /\ UNCHANGED <<ctl, tx, closer, pc, inHand, held, burst, rcvVars, netVars, history>>
         /\ debounced' \in {debounced, FALSE} /\ touched' \in {touched, FALSE}
BY DEF ReleaseStep, EscapeRelease, HotkeyRelease, CommandRelease, TrayRelease, Unrelay, SetRelaying

\* Queueing a command, or dropping it, keeps the network and the history
\* well-typed.
LEMMA SendTyped ==
  ASSUME NetTyped, HistoryTyped, RelayTyped, NEW m \in Commands, SendNet(m)
  PROVE  NetTyped' /\ HistoryTyped'
<1>1. toRcv' \in Seq(Commands)
  BY DEF SendNet, NetTyped
<1>2. lost' \in BOOLEAN
  BY DEF SendNet, LostAfter, CanSend, HistoryTyped
<1>3. stray' \in SUBSET Modifiers
  <2>1. m \in Keys => m.key \in Modifiers
    BY DEF Keys, Key
  <2> QED
    BY <2>1 DEF SendNet, StrayAfter, HistoryTyped
<1>4. crossed' \in BOOLEAN
  BY DEF SendNet, CrossedAfter, HistoryTyped, RelayTyped, Hosts
<1> QED
  BY <1>1, <1>2, <1>3, <1>4 DEF SendNet, NetTyped, HistoryTyped

\* What a motion event does to the receiver is well-typed.
LEMMA MoveTyped ==
  ASSUME NetTyped, RcvTyped, NEW z \in Zones, MoveCursor(z)
  PROVE  tracker' \in Trackers /\ controlled' \in BOOLEAN /\ toCtl' \in Seq(Replies)
<1>1. tracker' \in Trackers
  BY TrackerTyped, ZonesAssumption DEF MoveCursor, RcvTyped
<1>2. CASE HandsBack(tracker, z)
  <2>1. Append(toCtl, Return) \in Seq(Replies)
    BY DEF NetTyped, Replies
  <2> QED
    BY <1>1, <1>2, <2>1 DEF MoveCursor
<1>3. CASE ~HandsBack(tracker, z)
  BY <1>1, <1>3 DEF MoveCursor, RcvTyped, NetTyped
<1> QED
  BY <1>2, <1>3

\* The steps of the controller's threads.
LEMMA ControllerTyped ==
  ASSUME Typed,
         \/ TouchEdge \/ LeaveEdge \/ DwellOver \/ SwitchHotkeyOn \/ TakeControl
         \/ \E t \in Activators : Activate(t)
         \/ ReleaseStep \/ (\E r \in Releases : SendReleased(r)) \/ DebounceOver
         \/ \E k \in Modifiers, down \in BOOLEAN : RememberKey(k, down)
         \/ ShipKey \/ UserMotion
  PROVE  Typed'
<1> USE DEF Typed, threadVars, ctlVars, rcvVars, netVars, history
<1>1. CASE TouchEdge \/ LeaveEdge \/ DebounceOver
  BY <1>1 DEF TouchEdge, LeaveEdge, DebounceOver,
     CtlTyped, RcvTyped, NetTyped, HistoryTyped, RelayTyped
<1>2. CASE DwellOver \/ SwitchHotkeyOn \/ TakeControl
  <2>1. pc' \in [Activators -> Steps]
    BY <1>2 DEF DwellOver, SwitchHotkeyOn, TakeControl, Goto, Steps, CtlTyped
  <2>2. touched' \in BOOLEAN
    BY <1>2 DEF DwellOver, SwitchHotkeyOn, TakeControl, CtlTyped
  <2>3. CtlTyped'
    BY <1>2, <2>1, <2>2 DEF DwellOver, SwitchHotkeyOn, TakeControl, CtlTyped
  <2>4. RcvTyped' /\ NetTyped' /\ HistoryTyped' /\ RelayTyped'
    BY <1>2 DEF DwellOver, SwitchHotkeyOn, TakeControl, RcvTyped, NetTyped, HistoryTyped, RelayTyped
  <2> QED
    BY <2>3, <2>4
<1>3. ASSUME NEW t \in Activators, RelayOn(t) PROVE Typed'
  BY <1>3 DEF RelayOn, SetRelaying, Goto, Steps, Hosts,
     CtlTyped, RcvTyped, NetTyped, HistoryTyped, RelayTyped
<1>4. ASSUME NEW t \in Activators, SendEntryWarp(t) PROVE Typed'
  <2>1. PICK z \in Zones : SendNet(Move(z))
    BY <1>4 DEF SendEntryWarp
  <2>2. Move(z) \in Commands
    BY DEF Commands
  <2>3. NetTyped' /\ HistoryTyped'
    BY <2>1, <2>2, SendTyped
  <2> QED
    BY <1>4, <2>3 DEF SendEntryWarp, Goto, Steps, CtlTyped, RcvTyped, RelayTyped
<1>5. ASSUME NEW t \in Activators, SendAcquired(t) PROVE Typed'
  <2>1. NetTyped' /\ HistoryTyped'
    BY <1>5, SendTyped DEF SendAcquired, Commands
  <2> QED
    BY <1>5, <2>1 DEF SendAcquired, Goto, Steps, CtlTyped, RcvTyped, RelayTyped
<1>6. CASE ReleaseStep
  <2>1. NetTyped' /\ HistoryTyped' /\ RcvTyped'
    BY <1>6, ReleaseEffect DEF NetTyped, HistoryTyped, RcvTyped
  <2>2. RelayTyped'
    BY <1>6, ReleaseEffect DEF RelayTyped, Hosts
  <2>3. CtlTyped'
    BY <1>6, ReleaseEffect DEF CtlTyped
  <2> QED
    BY <2>1, <2>2, <2>3
<1>7. ASSUME NEW k \in Modifiers, NEW down \in BOOLEAN, RememberKey(k, down) PROVE Typed'
  <2>1. inHand' \in Keys
    BY <1>7, KeyTyped DEF RememberKey
  <2>2. held' \in SUBSET Modifiers
    BY <1>7 DEF RememberKey, HeldAfter, CtlTyped
  <2>3. CtlTyped'
    BY <1>7, <2>1, <2>2 DEF RememberKey, CtlTyped
  <2> QED
    BY <1>7, <2>3 DEF RememberKey, RcvTyped, RelayTyped, NetTyped, HistoryTyped
<1>8. ASSUME NEW r \in Releases, SendReleased(r) PROVE Typed'
  <2>1. NetTyped' /\ HistoryTyped'
    BY <1>8, SendTyped DEF SendReleased, Commands
  <2> QED
    BY <1>8, <2>1 DEF SendReleased, CtlTyped, RcvTyped, RelayTyped
<1>9. CASE ShipKey
  <2>1. inHand \in Commands
    BY <1>9 DEF ShipKey, CtlTyped, Commands
  <2>2. NetTyped' /\ HistoryTyped'
    BY <1>9, <2>1, SendTyped DEF ShipKey
  <2> QED
    BY <1>9, <2>2 DEF ShipKey, CtlTyped, RcvTyped, RelayTyped
<1>10. CASE UserMotion
  <2>1. NetTyped' /\ HistoryTyped'
    BY <1>10, SendTyped DEF UserMotion, Commands
  <2> QED
    BY <1>10, <2>1 DEF UserMotion, CtlTyped, RcvTyped, RelayTyped
<1> QED
  BY <1>1, <1>2, <1>3, <1>4, <1>5, <1>6, <1>7, <1>8, <1>9, <1>10 DEF Activate

\* Disconnecting, and the end of the controller's session.
LEMMA EndingTyped ==
  ASSUME Typed,
         \/ Disconnect \/ QueueDisconnect \/ DisconnectTimeout \/ CloseTx
         \/ OnReturn \/ EndLoop \/ ReadFails \/ ReleaseBurst \/ EndSession
  PROVE  Typed'
<1> USE DEF Typed, threadVars, ctlVars, rcvVars, netVars, history
<1>1. CASE Disconnect \/ DisconnectTimeout \/ CloseTx
  BY <1>1 DEF Disconnect, DisconnectTimeout, CloseTx, SetRelaying, Hosts,
     CtlTyped, RcvTyped, NetTyped, HistoryTyped, RelayTyped
<1>2. CASE QueueDisconnect
  <2>1. NetTyped'
    BY <1>2 DEF QueueDisconnect, NetTyped, Commands
  <2> QED
    BY <1>2, <2>1 DEF QueueDisconnect, CtlTyped, RcvTyped, HistoryTyped, RelayTyped
<1>3. CASE OnReturn
  <2>1. toCtl' \in Seq(Replies)
    BY <1>3 DEF OnReturn, NetTyped
  <2>2. RelayTyped'
    BY <1>3 DEF OnReturn, SetRelaying, RelayTyped, Hosts
  <2> QED
    BY <1>3, <2>1, <2>2 DEF OnReturn, CtlTyped, RcvTyped, NetTyped, HistoryTyped
<1>4. CASE EndLoop \/ ReadFails
  BY <1>4 DEF EndLoop, ReadFails, PressInHand, CtlTyped, RcvTyped, NetTyped, HistoryTyped, RelayTyped
<1>5. CASE ReleaseBurst
  <2>1. PICK k \in burst : burst' = burst \ {k} /\ SendNet(Key(k, FALSE))
    BY <1>5 DEF ReleaseBurst
  <2>2. Key(k, FALSE) \in Commands
    <3>1. k \in Modifiers
      BY <2>1 DEF CtlTyped
    <3> QED
      BY <3>1, KeyTyped
  <2>3. NetTyped' /\ HistoryTyped'
    BY <2>1, <2>2, SendTyped
  <2> QED
    BY <1>5, <2>1, <2>3 DEF ReleaseBurst, CtlTyped, RcvTyped, RelayTyped
<1>6. CASE EndSession
  BY <1>6 DEF EndSession, SetRelaying, Hosts,
     CtlTyped, RcvTyped, NetTyped, HistoryTyped, RelayTyped
<1> QED
  BY <1>1, <1>2, <1>3, <1>4, <1>5, <1>6

\* The steps of the receiver, of the network, and the next session.
LEMMA ReceiverTyped ==
  ASSUME Typed,
         \/ ReceiveMotion \/ ReceiveKey \/ ReceiveAcquired \/ ReceiveReleased
         \/ ReceiveEnd \/ SignalEnd \/ Kick \/ Cleanup
         \/ ReceiverTakesControl \/ ReceiverReleases
         \/ ConnectionLost \/ NewSession
  PROVE  Typed'
<1> USE DEF Typed, threadVars, ctlVars, rcvVars, netVars, history
<1>1. CASE ReceiveMotion
  <2>1. tracker' \in Trackers /\ controlled' \in BOOLEAN /\ toCtl' \in Seq(Replies)
    BY <1>1, MoveTyped DEF ReceiveMotion, RcvTyped, NetTyped
  <2>2. toRcv' \in Seq(Commands)
    BY <1>1 DEF ReceiveMotion, Incoming, NetTyped
  <2> QED
    BY <1>1, <2>1, <2>2
    DEF ReceiveMotion, CtlTyped, RcvTyped, NetTyped, HistoryTyped, RelayTyped
<1>2. CASE ReceiveKey
  <2>1. localHeld' \in SUBSET Modifiers /\ osDown' \in SUBSET Modifiers
    BY <1>2 DEF ReceiveKey, RcvTyped
  <2>2. toRcv' \in Seq(Commands)
    BY <1>2 DEF ReceiveKey, Incoming, NetTyped
  <2> QED
    BY <1>2, <2>1, <2>2
    DEF ReceiveKey, CtlTyped, RcvTyped, NetTyped, HistoryTyped, RelayTyped
<1>3. CASE ReceiveAcquired \/ ReceiveReleased
  <2>1. tracker' \in Trackers
    BY <1>3, TrackerTyped DEF ReceiveAcquired, ReceiveReleased, RcvTyped, AllZones
  <2>2. toRcv' \in Seq(Commands)
    BY <1>3 DEF ReceiveAcquired, ReceiveReleased, Incoming, NetTyped
  <2>3. CtlTyped' /\ HistoryTyped' /\ RelayTyped'
    BY <1>3 DEF ReceiveAcquired, ReceiveReleased, CtlTyped, HistoryTyped, RelayTyped
  <2> QED
    BY <1>3, <2>1, <2>2, <2>3 DEF ReceiveAcquired, ReceiveReleased, RcvTyped, NetTyped
<1>4. CASE ReceiveEnd
  <2>1. HandBackFails => toRcv # <<>>
    BY DEF HandBackFails, Incoming
  <2>2. toRcv' \in Seq(Commands)
    BY <1>4, <2>1 DEF ReceiveEnd, Incoming, NetTyped
  <2> QED
    BY <1>4, <2>2 DEF ReceiveEnd, BreakLoop,
       CtlTyped, RcvTyped, NetTyped, HistoryTyped, RelayTyped
<1>5. CASE SignalEnd \/ Kick
  <2>1. Append(toCtl, Ended) \in Seq(Replies)
    BY DEF NetTyped, Replies
  <2>2. SignalEnd
    BY <1>5 DEF Kick
  <2>3. toCtl' \in Seq(Replies)
    BY <2>1, <2>2 DEF SignalEnd, NetTyped
  <2> QED
    BY <2>2, <2>3 DEF SignalEnd, BreakLoop,
       CtlTyped, RcvTyped, NetTyped, HistoryTyped, RelayTyped
<1>6. CASE Cleanup
  <2>1. toCtl' \in Seq(Replies)
    BY <1>6 DEF Cleanup, NetTyped
  <2>2. RelayTyped'
    BY <1>6 DEF Cleanup, SetRelaying, RelayTyped, Hosts
  <2>3. NetTyped'
    BY <1>6, <2>1 DEF Cleanup, NetTyped
  <2> QED
    BY <1>6, <2>2, <2>3 DEF Cleanup, CtlTyped, RcvTyped, HistoryTyped
<1>7. CASE ReceiverTakesControl \/ ReceiverReleases
  <2>1. RelayTyped'
    BY <1>7 DEF ReceiverTakesControl, ReceiverReleases, SetRelaying, Hosts, RelayTyped
  <2> QED
    BY <1>7, <2>1 DEF ReceiverTakesControl, ReceiverReleases,
       CtlTyped, RcvTyped, NetTyped, HistoryTyped
<1>8. CASE ConnectionLost
  BY <1>8 DEF ConnectionLost, CtlTyped, RcvTyped, NetTyped, HistoryTyped, RelayTyped
<1>9. CASE NewSession
  <2>1. InitTracker \in Trackers
    BY DEF InitTracker, Trackers
  <2>2. HistoryTyped'
    BY <1>9 DEF NewSession, PressInHand, HistoryTyped
  <2> QED
    BY <1>9, <2>1, <2>2 DEF NewSession, CtlTyped, RcvTyped, NetTyped, RelayTyped
<1> QED
  BY <1>1, <1>2, <1>3, <1>4, <1>5, <1>6, <1>7, <1>8, <1>9

LEMMA TypedHolds == Spec => []Typed
<1>1. Init => Typed
  <2> SUFFICES ASSUME Init PROVE Typed
    OBVIOUS
  <2>1. CtlTyped
    BY DEF Init, CtlTyped, Steps
  <2>2. RcvTyped
    BY DEF Init, RcvTyped, InitTracker, Trackers
  <2>3. NetTyped /\ HistoryTyped
    <3>1. <<>> \in Seq(Commands) /\ <<>> \in Seq(Replies)
      OBVIOUS
    <3> QED
      BY <3>1 DEF Init, NetTyped, HistoryTyped
  <2>4. RelayTyped
    BY DEF Init, RelayTyped
  <2> QED
    BY <2>1, <2>2, <2>3, <2>4 DEF Typed
<1>2. Typed /\ [Next]_vars => Typed'
  <2> SUFFICES ASSUME Typed, [Next]_vars PROVE Typed'
    OBVIOUS
  <2>1. CASE UNCHANGED vars
    BY <2>1 DEF vars, threadVars, ctlVars, rcvVars, netVars, history,
       Typed, CtlTyped, RcvTyped, NetTyped, HistoryTyped, RelayTyped
  <2> QED
    BY <2>1, ControllerTyped, EndingTyped, ReceiverTyped DEF Next, ReleaseStep
<1> QED
  BY <1>1, <1>2, PTL DEF Spec

\* Every state has well-typed variables.
THEOREM TypeCorrect == Spec => []TypeOK
BY TypedHolds, TypeParts, PTL

-----------------------------------------------------------------------------
(* No modifier outlives its session.                                       *)

\* What the receiver's operating system sees pressed is what local_held
\* remembers, and nothing once the session has ended.
Remembered == osDown \subseteq localHeld /\ (rcv # "up" => osDown = {})

LEMMA StepKeepsRemembered == Remembered /\ [Next]_vars => Remembered'
<1> SUFFICES ASSUME Remembered, [Next]_vars PROVE Remembered'
  OBVIOUS
<1> USE DEF Remembered, threadVars, ctlVars, rcvVars, netVars, history
<1>1. CASE ReceiveKey
  BY <1>1 DEF ReceiveKey, Incoming
<1>2. CASE ReceiveEnd \/ SignalEnd \/ Kick
  <2>1. BreakLoop
    BY <1>2 DEF ReceiveEnd, SignalEnd, Kick
  <2> QED
    BY <2>1 DEF BreakLoop
<1>3. CASE Cleanup
  BY <1>3 DEF Cleanup
<1>4. CASE NewSession
  BY <1>4 DEF NewSession
<1>5. CASE ReceiveMotion \/ ReceiveAcquired \/ ReceiveReleased
  BY <1>5 DEF ReceiveMotion, ReceiveAcquired, ReceiveReleased
<1>6. CASE ReceiverTakesControl \/ ReceiverReleases \/ ConnectionLost \/ UNCHANGED vars
  BY <1>6 DEF ReceiverTakesControl, ReceiverReleases, ConnectionLost, vars
<1>7. CASE Disconnect \/ QueueDisconnect \/ DisconnectTimeout \/ CloseTx
           \/ OnReturn \/ EndLoop \/ ReadFails \/ ReleaseBurst \/ EndSession
  BY <1>7 DEF Disconnect, QueueDisconnect, DisconnectTimeout, CloseTx,
     OnReturn, EndLoop, ReadFails, ReleaseBurst, EndSession
<1>8. CASE TouchEdge \/ LeaveEdge \/ DwellOver \/ SwitchHotkeyOn \/ TakeControl
           \/ DebounceOver \/ ShipKey \/ UserMotion
  BY <1>8 DEF TouchEdge, LeaveEdge, DwellOver, SwitchHotkeyOn, TakeControl, DebounceOver, ShipKey, UserMotion
<1>9. ASSUME NEW t \in Activators, Activate(t) PROVE Remembered'
  BY <1>9 DEF Activate, RelayOn, SendEntryWarp, SendAcquired
<1>10. ASSUME NEW k \in Modifiers, NEW down \in BOOLEAN, RememberKey(k, down) PROVE Remembered'
  BY <1>10 DEF RememberKey
<1>11. CASE ReleaseStep
  BY <1>11, ReleaseEffect
<1>12. ASSUME NEW r \in Releases, SendReleased(r) PROVE Remembered'
  BY <1>12 DEF SendReleased
<1> QED
  BY <1>1, <1>2, <1>3, <1>4, <1>5, <1>6, <1>7, <1>8, <1>9, <1>10, <1>11, <1>12 DEF Next, ReleaseStep

\* No modifier the session pressed is still down on the receiver once the
\* session has ended, whichever way it ends (server.rs:814-828).
THEOREM NothingStuck == Spec => []NothingStuckAfterSession
<1>1. Init => Remembered
  BY DEF Init, Remembered
<1>2. Remembered => NothingStuckAfterSession
  BY DEF Remembered, NothingStuckAfterSession
<1> QED
  BY <1>1, <1>2, StepKeepsRemembered, PTL DEF Spec

-----------------------------------------------------------------------------
(* The controller can let go of every modifier it pressed.                 *)

\* Once all of q has been read a key is down: the last of its press and
\* release messages in q is the press, or there is none and it is down already.
DownAfter(press, release, q, down) ==
  \/ \E i \in DOMAIN q :
       q[i] = press /\ \A j \in DOMAIN q : j > i => q[j] # release
  \/ down /\ \A i \in DOMAIN q : q[i] # release

\* Appending a message other than the press never brings it down.
LEMMA DownAfterAppend ==
  ASSUME NEW q \in Seq(Commands), NEW m \in Commands, NEW press, NEW release, NEW d,
         m # press, DownAfter(press, release, Append(q, m), d)
  PROVE  m # release /\ DownAfter(press, release, q, d)
<1> DEFINE r == Append(q, m)
<1>1. /\ Len(r) = Len(q) + 1 /\ DOMAIN r = 1 .. Len(r) /\ DOMAIN q = 1 .. Len(q)
      /\ r[Len(r)] = m /\ \A i \in DOMAIN q : r[i] = q[i]
      /\ Len(q) \in Nat
  OBVIOUS
<1> HIDE DEF r
<1>2. CASE \E i \in DOMAIN r :
             r[i] = press /\ \A j \in DOMAIN r : j > i => r[j] # release
  <2>1. PICK i \in DOMAIN r :
          r[i] = press /\ \A j \in DOMAIN r : j > i => r[j] # release
    BY <1>2
  <2>2. i \in DOMAIN q /\ Len(r) > i
    BY <1>1, <2>1
  <2> QED
    BY <1>1, <2>1, <2>2 DEF DownAfter
<1>3. CASE d /\ \A i \in DOMAIN r : r[i] # release
  BY <1>1, <1>3 DEF DownAfter
<1> QED
  BY <1>2, <1>3 DEF DownAfter, r

\* Reading one message of the queue, with its effect on the key, changes nothing
\* about where it ends up.
LEMMA DownAfterTail ==
  ASSUME NEW q \in Seq(Commands), q # <<>>, NEW press, NEW release, NEW d, NEW e,
         DownAfter(press, release, Tail(q), e),
         \/ Head(q) = press
         \/ Head(q) # release /\ (e => d)
         \/ Head(q) = release /\ ~e
  PROVE  DownAfter(press, release, q, d)
<1> DEFINE r == Tail(q)
<1>1. /\ Len(q) \in Nat /\ Len(r) = Len(q) - 1 /\ Len(q) > 0
      /\ DOMAIN r = 1 .. Len(r) /\ DOMAIN q = 1 .. Len(q)
      /\ q[1] = Head(q) /\ \A i \in DOMAIN r : r[i] = q[i + 1]
  OBVIOUS
<1> HIDE DEF r
<1>2. \A j \in DOMAIN q : j > 1 => j - 1 \in DOMAIN r /\ q[j] = r[j - 1]
  BY <1>1
<1>3. CASE \E i \in DOMAIN r :
             r[i] = press /\ \A j \in DOMAIN r : j > i => r[j] # release
  <2>1. PICK i \in DOMAIN r :
          r[i] = press /\ \A j \in DOMAIN r : j > i => r[j] # release
    BY <1>3
  <2>2. i + 1 \in DOMAIN q /\ q[i + 1] = press
    BY <1>1, <2>1
  <2>3. \A j \in DOMAIN q : j > i + 1 => q[j] # release
    BY <1>1, <1>2, <2>1
  <2> QED
    BY <2>2, <2>3 DEF DownAfter
<1>4. CASE e /\ \A i \in DOMAIN r : r[i] # release
  <2>1. \A j \in DOMAIN q : j > 1 => q[j] # release
    BY <1>2, <1>4
  <2>2. 1 \in DOMAIN q
    BY <1>1
  <2>3. CASE Head(q) = press
    BY <1>1, <2>1, <2>2, <2>3 DEF DownAfter
  <2>4. CASE Head(q) # release /\ d
    <3>1. \A j \in DOMAIN q : q[j] # release
      BY <1>1, <2>1, <2>4
    <3> QED
      BY <2>4, <3>1 DEF DownAfter
  <2> QED
    BY <1>4, <2>3, <2>4
<1> QED
  BY <1>3, <1>4 DEF DownAfter, r

\* The same of modifier k on the receiver, once toRcv has been read.
DownLater(k) == DownAfter(Key(k, TRUE), Key(k, FALSE), toRcv, k \in osDown)

Covered(k) == k \in held \cup burst \cup stray \/ inHand = Key(k, FALSE)

KeysCovered ==
  rcv = "up" /\ link = "ok" => \A k \in Modifiers : DownLater(k) => Covered(k)

BurstEnds == ctl # "ending" => burst = {}

\* The press still to be sent is of a key that is remembered, or was drained.
PressKnown == PressInHand \subseteq held \cup stray

KeysInv == KeysCovered /\ BurstEnds /\ Remembered /\ PressKnown

\* A key message is a press or a release, of one key.
LEMMA KeyMessages ==
  ASSUME NEW k \in Modifiers, NEW l \in Modifiers
  PROVE  /\ Key(k, TRUE) # Key(l, FALSE)
         /\ Key(k, TRUE) = Key(l, TRUE) => k = l
         /\ Key(k, FALSE) = Key(l, FALSE) => k = l
         /\ Key(k, TRUE).kind = "key" /\ Key(k, TRUE).key = k /\ Key(k, TRUE).down
         /\ Key(k, FALSE).kind = "key" /\ Key(k, FALSE).key = k /\ ~Key(k, FALSE).down
BY DEF Key

\* The messages with key k are its press and its release.
LEMMA KeyCommands ==
  ASSUME NEW k \in Modifiers, NEW m \in Keys, m.key = k
  PROVE  IF m.down THEN m = Key(k, TRUE) ELSE m = Key(k, FALSE)
BY DEF Keys, Key

\* The other commands.
LEMMA OtherCommands ==
  /\ \A z \in Zones : Move(z) \in Commands /\ Move(z).kind # "key"
  /\ \A m \in {Rel, Acquired, Released, Bye} : m \in Commands /\ m.kind # "key"
BY DEF Commands, Move, Rel, Acquired, Released, Bye

\* What a send does to the keys the history has for astray.
LEMMA SendKeepsStray ==
  ASSUME NEW m \in Commands, SendNet(m), NEW k \in Modifiers, k \in stray
  PROVE  \/ k \in stray'
         \/ m = Key(k, TRUE) /\ k \in held
         \/ m = Key(k, FALSE) /\ CanSend /\ inHand # Key(k, TRUE)
<1>1. CASE m \notin Keys \/ m.key # k
  BY <1>1 DEF SendNet, StrayAfter
<1>2. CASE m \in Keys /\ m.key = k
  BY <1>2, KeyCommands DEF SendNet, StrayAfter
<1> QED
  BY <1>1, <1>2

\* A send keeps k covered when what is about to release k is given up only
\* for the release itself, and a press is of a key that is known.
LEMMA SendKeepsCovered ==
  ASSUME NetTyped, NEW m \in Commands, SendNet(m), UNCHANGED osDown, NEW k \in Modifiers,
         DownLater(k) => Covered(k),
         UNCHANGED held,
         m = Key(k, TRUE) => k \in held \cup stray,
         m # Key(k, FALSE) /\ k \in burst => k \in burst',
         m # Key(k, FALSE) /\ inHand = Key(k, FALSE) => inHand' = Key(k, FALSE)
  PROVE  DownLater(k)' => Covered(k)'
<1> SUFFICES ASSUME DownLater(k)' PROVE Covered(k)'
  OBVIOUS
<1>1. k \in held \cup stray /\ m # Key(k, FALSE) => Covered(k)'
  BY SendKeepsStray DEF Covered
<1>2. CASE m = Key(k, TRUE)
  BY <1>1, <1>2, KeyMessages
<1>3. CASE CanSend /\ m # Key(k, TRUE)
  <2>1. toRcv' = Append(toRcv, m)
    BY <1>3 DEF SendNet
  <2>2. DownAfter(Key(k, TRUE), Key(k, FALSE), Append(toRcv, m), k \in osDown)
    BY <2>1 DEF DownLater
  <2>3. m # Key(k, FALSE) /\ DownLater(k)
    BY <1>3, <2>2, DownAfterAppend DEF DownLater, NetTyped
  <2> QED
    BY <1>1, <2>3 DEF Covered
<1>4. CASE ~CanSend /\ m # Key(k, TRUE)
  <2>1. DownLater(k)
    BY <1>4 DEF SendNet, DownLater
  <2>2. m = Key(k, FALSE) => k \in stray'
    BY <1>4, KeyTyped, KeyMessages DEF SendNet, StrayAfter
  <2> QED
    BY <1>1, <2>1, <2>2 DEF Covered
<1> QED
  BY <1>2, <1>3, <1>4

\* A send leaves a press that is still in hand known.
LEMMA SendKeepsPress ==
  ASSUME PressKnown, NEW m \in Commands, SendNet(m), UNCHANGED held,
         UNCHANGED inHand, \A k \in Modifiers : m # Key(k, TRUE)
  PROVE  PressKnown'
<1> SUFFICES ASSUME NEW k \in PressInHand' PROVE k \in held' \cup stray'
  BY DEF PressKnown
<1>1. k \in Modifiers /\ inHand = Key(k, TRUE) /\ m # inHand
  BY DEF PressInHand
<1>2. k \in held \cup stray
  BY <1>1 DEF PressKnown, PressInHand
<1> QED
  BY <1>1, <1>2, SendKeepsStray

\* Reading a message other than a key of k keeps k covered.
LEMMA ReadKeepsCovered ==
  ASSUME NetTyped, toRcv # <<>>, toRcv' = Tail(toRcv), NEW k \in Modifiers,
         Head(toRcv) # Key(k, FALSE) /\ (k \in osDown' => k \in osDown),
         UNCHANGED <<held, burst, stray, inHand>>,
         DownLater(k) => Covered(k)
  PROVE  DownLater(k)' => Covered(k)'
<1> SUFFICES ASSUME DownLater(k)' PROVE DownLater(k)
  BY DEF Covered
<1>1. DownAfter(Key(k, TRUE), Key(k, FALSE), Tail(toRcv), k \in osDown')
  BY DEF DownLater
<1> QED
  BY <1>1, DownAfterTail DEF DownLater, NetTyped

\* Neither the queue nor the keys of the receiver change, and no key is
\* forgotten.
LEMMA QuietKeepsKeys ==
  ASSUME KeysInv, UNCHANGED <<rcv, link, toRcv, osDown, inHand>>,
         held \cup burst \subseteq held' \cup burst', stray \subseteq stray'
  PROVE  KeysCovered'
<1>1. ASSUME NEW k \in Modifiers PROVE (DownLater(k)' <=> DownLater(k)) /\ (Covered(k) => Covered(k)')
  BY DEF DownLater, Covered
<1> QED
  BY <1>1 DEF KeysInv, KeysCovered

LEMMA QuietKeepsPress ==
  ASSUME PressKnown, UNCHANGED <<held, stray, inHand>>
  PROVE  PressKnown'
BY DEF PressKnown, PressInHand

\* The press in hand stays known.
LEMMA StepKeepsPress == Typed /\ PressKnown /\ [Next]_vars => PressKnown'
<1> SUFFICES ASSUME Typed, PressKnown, [Next]_vars PROVE PressKnown'
  OBVIOUS
<1> USE DEF threadVars, ctlVars, rcvVars, netVars, history
<1>1. CASE \/ TouchEdge \/ LeaveEdge \/ DwellOver \/ SwitchHotkeyOn \/ TakeControl \/ DebounceOver
           \/ Disconnect \/ QueueDisconnect \/ DisconnectTimeout \/ CloseTx
           \/ OnReturn \/ EndSession \/ UNCHANGED vars
  BY <1>1, QuietKeepsPress DEF TouchEdge, LeaveEdge, DwellOver, SwitchHotkeyOn, TakeControl, DebounceOver,
     Disconnect, QueueDisconnect, DisconnectTimeout, CloseTx, OnReturn, EndSession, vars
<1>2. CASE EndLoop \/ ReadFails
  BY <1>2 DEF EndLoop, ReadFails, PressKnown, PressInHand
<1>3. CASE NewSession
  BY <1>3 DEF NewSession, PressKnown, PressInHand
<1>4. CASE \/ ReceiveMotion \/ ReceiveKey \/ ReceiveAcquired \/ ReceiveReleased
           \/ ReceiveEnd \/ SignalEnd \/ Kick \/ Cleanup
           \/ ReceiverTakesControl \/ ReceiverReleases \/ ConnectionLost
  BY <1>4, QuietKeepsPress DEF ReceiveMotion, ReceiveKey, ReceiveAcquired, ReceiveReleased,
     ReceiveEnd, SignalEnd, Kick, Cleanup, ReceiverTakesControl, ReceiverReleases, ConnectionLost
<1>5. ASSUME NEW m \in Commands, m.kind # "key", SendNet(m), UNCHANGED <<held, inHand>> PROVE PressKnown'
  <2>1. \A k \in Modifiers : m # Key(k, TRUE)
    BY <1>5, KeyMessages
  <2> QED
    BY <1>5, <2>1, SendKeepsPress
<1>6. ASSUME NEW t \in Activators, Activate(t) PROVE PressKnown'
  <2>1. CASE RelayOn(t)
    BY <2>1, QuietKeepsPress DEF RelayOn
  <2>2. CASE SendEntryWarp(t)
    <3>1. PICK z \in Zones : SendNet(Move(z))
      BY <2>2 DEF SendEntryWarp
    <3>2. Move(z) \in Commands /\ Move(z).kind # "key"
      BY OtherCommands
    <3> QED
      BY <1>5, <2>2, <3>1, <3>2 DEF SendEntryWarp
  <2>3. CASE SendAcquired(t)
    BY <1>5, <2>3, OtherCommands DEF SendAcquired
  <2> QED
    BY <1>6, <2>1, <2>2, <2>3 DEF Activate
<1>7. CASE UserMotion
  BY <1>5, <1>7, OtherCommands DEF UserMotion
<1>8. ASSUME NEW r \in Releases, SendReleased(r) PROVE PressKnown'
  BY <1>5, <1>8, OtherCommands DEF SendReleased
<1>9. ASSUME NEW k \in Modifiers, NEW down \in BOOLEAN, RememberKey(k, down) PROVE PressKnown'
  <2>1. ASSUME NEW l \in Modifiers, inHand' = Key(l, TRUE) PROVE l \in held'
    <3>1. down /\ l = k
      BY <1>9, <2>1 DEF RememberKey, Key
    <3> QED
      BY <1>9, <3>1 DEF RememberKey, HeldAfter
  <2> QED
    BY <2>1 DEF PressKnown, PressInHand
<1>10. CASE ShipKey
  <2>1. inHand \in Commands
    BY <1>10 DEF ShipKey, Typed, CtlTyped, Commands
  <2>2. PressInHand' = {}
    BY <1>10 DEF ShipKey, PressInHand, NoKey, Key
  <2> QED
    BY <2>2 DEF PressKnown
<1>11. CASE ReleaseStep
  BY <1>11, ReleaseEffect, QuietKeepsPress
<1>12. CASE ReleaseBurst
  <2>1. PICK k \in burst : SendNet(Key(k, FALSE))
    BY <1>12 DEF ReleaseBurst
  <2>2. k \in Modifiers
    BY DEF Typed, CtlTyped
  <2>3. \A l \in Modifiers : Key(k, FALSE) # Key(l, TRUE)
    BY <2>2, KeyMessages
  <2> QED
    BY <1>12, <2>1, <2>2, <2>3, KeyTyped, SendKeepsPress DEF ReleaseBurst
<1> QED
  BY <1>1, <1>2, <1>3, <1>4, <1>6, <1>7, <1>8, <1>9, <1>10, <1>11, <1>12 DEF Next, ReleaseStep

LEMMA StepKeepsKeys == Typed /\ KeysInv /\ [Next]_vars => KeysInv'
<1> SUFFICES ASSUME Typed, KeysInv, [Next]_vars PROVE KeysCovered' /\ BurstEnds'
  BY StepKeepsRemembered, StepKeepsPress DEF KeysInv
<1> USE DEF threadVars, ctlVars, rcvVars, netVars, history, BurstEnds
<1> NetTyped
  BY DEF Typed
<1>1. CASE TouchEdge \/ LeaveEdge \/ DwellOver \/ SwitchHotkeyOn \/ TakeControl \/ DebounceOver
           \/ Disconnect \/ DisconnectTimeout \/ CloseTx
           \/ ReceiverTakesControl \/ ReceiverReleases \/ OnReturn \/ UNCHANGED vars
  BY <1>1, QuietKeepsKeys DEF KeysInv, TouchEdge, LeaveEdge, DwellOver, SwitchHotkeyOn,
     TakeControl, DebounceOver, Disconnect, DisconnectTimeout, CloseTx,
     ReceiverTakesControl, ReceiverReleases, OnReturn, vars
<1>2. CASE EndLoop \/ ReadFails \/ EndSession
  BY <1>2, QuietKeepsKeys DEF KeysInv, EndLoop, ReadFails, EndSession
<1>3. ASSUME NEW t \in Activators, RelayOn(t) PROVE KeysCovered' /\ BurstEnds'
  BY <1>3, QuietKeepsKeys DEF KeysInv, RelayOn
<1>4. ASSUME NEW m \in Commands, m.kind # "key", SendNet(m),
             UNCHANGED <<ctl, rcv, osDown, held, burst, inHand>>
      PROVE  KeysCovered' /\ BurstEnds'
  <2>1. ASSUME NEW k \in Modifiers, rcv = "up", link = "ok" PROVE DownLater(k)' => Covered(k)'
    <3>1. m # Key(k, TRUE)
      BY <1>4, KeyMessages
    <3> QED
      BY <1>4, <2>1, <3>1, SendKeepsCovered DEF KeysInv, KeysCovered
  <2> QED
    BY <1>4, <2>1 DEF KeysInv, KeysCovered, SendNet
<1>5. ASSUME NEW t \in Activators, SendEntryWarp(t) \/ SendAcquired(t) PROVE KeysCovered' /\ BurstEnds'
  <2>1. \E m \in Commands : m.kind # "key" /\ SendNet(m)
    <3>1. CASE SendEntryWarp(t)
      <4>1. PICK z \in Zones : SendNet(Move(z))
        BY <3>1 DEF SendEntryWarp
      <4> QED
        BY <4>1, OtherCommands
    <3>2. CASE SendAcquired(t)
      BY <3>2, OtherCommands DEF SendAcquired
    <3> QED
      BY <1>5, <3>1, <3>2
  <2> QED
    BY <1>4, <1>5, <2>1 DEF SendEntryWarp, SendAcquired
<1>6. ASSUME UserMotion \/ \E r \in Releases : SendReleased(r) PROVE KeysCovered' /\ BurstEnds'
  <2>1. SendNet(Released) \/ SendNet(Rel)
    BY <1>6 DEF SendReleased, UserMotion
  <2>2. \E m \in Commands : m.kind # "key" /\ SendNet(m)
    BY <2>1, OtherCommands
  <2> QED
    BY <1>4, <1>6, <2>2 DEF SendReleased, UserMotion
<1>7. ASSUME NEW k \in Modifiers, NEW down \in BOOLEAN, RememberKey(k, down)
      PROVE  KeysCovered' /\ BurstEnds'
  <2>1. ASSUME NEW l \in Modifiers, Covered(l) PROVE Covered(l)'
    <3>1. inHand = NoKey /\ NoKey # Key(l, FALSE)
      BY <1>7 DEF RememberKey, GrabIdle, NoKey, Key
    <3>2. CASE l = k /\ ~down
      BY <1>7, <3>2 DEF RememberKey, Covered
    <3>3. CASE l # k \/ down
      BY <1>7, <2>1, <3>1, <3>3 DEF RememberKey, HeldAfter, Covered
    <3> QED
      BY <3>2, <3>3
  <2>2. ASSUME NEW l \in Modifiers PROVE DownLater(l)' <=> DownLater(l)
    BY <1>7 DEF RememberKey, DownLater
  <2> QED
    BY <1>7, <2>1, <2>2 DEF KeysInv, KeysCovered, RememberKey
<1>15. CASE ShipKey
  <2>1. inHand \in Commands
    BY <1>15 DEF ShipKey, Typed, CtlTyped, Commands
  <2>2. ASSUME NEW l \in Modifiers, rcv = "up", link = "ok" PROVE DownLater(l)' => Covered(l)'
    <3>1. inHand = Key(l, TRUE) => l \in held \cup stray
      BY DEF KeysInv, PressKnown, PressInHand
    <3> QED
      BY <1>15, <2>1, <2>2, <3>1, SendKeepsCovered DEF KeysInv, KeysCovered, ShipKey
  <2> QED
    BY <1>15, <2>2 DEF KeysInv, KeysCovered, SendNet, ShipKey
<1>16. CASE ReleaseStep
  BY <1>16, ReleaseEffect, QuietKeepsKeys DEF KeysInv
<1>8. CASE ReleaseBurst
  <2>1. PICK k \in burst : burst' = burst \ {k} /\ SendNet(Key(k, FALSE))
    BY <1>8 DEF ReleaseBurst
  <2>2. k \in Modifiers
    BY <2>1 DEF Typed, CtlTyped
  <2>3. ASSUME NEW l \in Modifiers, rcv = "up", link = "ok" PROVE DownLater(l)' => Covered(l)'
    <3>1. Key(k, FALSE) \in Commands /\ UNCHANGED <<osDown, held>>
      BY <1>8, <2>2, KeyTyped DEF ReleaseBurst
    <3>2. UNCHANGED inHand
      BY <1>8 DEF ReleaseBurst
    <3>3. Key(k, FALSE) # Key(l, FALSE) /\ l \in burst => l \in burst'
      BY <2>1
    <3> QED
      BY <2>1, <2>2, <2>3, <3>1, <3>2, <3>3, KeyMessages, SendKeepsCovered DEF KeysInv, KeysCovered
  <2> QED
    BY <1>8, <2>1, <2>3 DEF KeysInv, KeysCovered, SendNet, ReleaseBurst
<1>9. CASE QueueDisconnect
  <2>1. CASE link = "ok"
    <3>1. ASSUME NEW k \in Modifiers, rcv = "up" PROVE DownLater(k)' => Covered(k)'
      <4>1. Bye \in Commands /\ Bye # Key(k, TRUE) /\ toRcv' = Append(toRcv, Bye)
        BY <1>9, <2>1 DEF QueueDisconnect, Commands, Key, Bye
      <4>2. UNCHANGED <<osDown, held, burst, stray, inHand>>
        BY <1>9 DEF QueueDisconnect
      <4>3. DownLater(k)' => DownLater(k)
        BY <4>1, <4>2, DownAfterAppend DEF DownLater, NetTyped
      <4> QED
        BY <2>1, <3>1, <4>2, <4>3 DEF KeysInv, KeysCovered, Covered
    <3> QED
      BY <1>9, <3>1 DEF KeysInv, KeysCovered, QueueDisconnect
  <2>2. CASE link # "ok"
    BY <1>9, <2>2 DEF QueueDisconnect, KeysInv, KeysCovered
  <2> QED
    BY <2>1, <2>2
<1>10. CASE ReceiveMotion \/ ReceiveAcquired \/ ReceiveReleased
  <2>1. /\ toRcv # <<>> /\ toRcv' = Tail(toRcv)
        /\ UNCHANGED <<ctl, rcv, link, osDown, held, burst, stray, inHand>>
    BY <1>10 DEF ReceiveMotion, ReceiveAcquired, ReceiveReleased, Incoming
  <2>2. ASSUME NEW k \in Modifiers PROVE Head(toRcv) # Key(k, FALSE)
    <3>1. Head(toRcv).kind # "key"
      BY <1>10, OtherCommands DEF ReceiveMotion, ReceiveAcquired, ReceiveReleased, Incoming
    <3> QED
      BY <3>1, KeyMessages
  <2>3. ASSUME NEW k \in Modifiers, rcv = "up", link = "ok" PROVE DownLater(k)' => Covered(k)'
    BY <2>1, <2>2, <2>3, ReadKeepsCovered DEF KeysInv, KeysCovered
  <2> QED
    BY <2>1, <2>3 DEF KeysInv, KeysCovered
<1>11. CASE ReceiveKey
  <2>1. PICK k \in Modifiers, down \in BOOLEAN :
          /\ Incoming(Key(k, down))
          /\ osDown' = IF down THEN osDown \cup {k} ELSE osDown \ {k}
    BY <1>11 DEF ReceiveKey
  <2>2. /\ toRcv # <<>> /\ toRcv' = Tail(toRcv) /\ Head(toRcv) = Key(k, down)
        /\ UNCHANGED <<ctl, rcv, link, held, burst, stray, inHand>>
    BY <1>11, <2>1 DEF ReceiveKey, Incoming
  <2>3. ASSUME NEW l \in Modifiers, rcv = "up", link = "ok", DownLater(l)' PROVE DownLater(l)
    <3>1. DownAfter(Key(l, TRUE), Key(l, FALSE), Tail(toRcv), l \in osDown')
      BY <2>2, <2>3 DEF DownLater
    <3>2. \/ Head(toRcv) = Key(l, TRUE)
          \/ Head(toRcv) # Key(l, FALSE) /\ (l \in osDown' => l \in osDown)
          \/ Head(toRcv) = Key(l, FALSE) /\ l \notin osDown'
      <4>1. CASE l = k
        BY <2>1, <2>2, <4>1
      <4>2. CASE l # k
        BY <2>1, <2>2, <4>2 DEF Key
      <4> QED
        BY <4>1, <4>2
    <3> QED
      BY <2>2, <3>1, <3>2, DownAfterTail DEF DownLater, NetTyped
  <2> QED
    BY <2>2, <2>3 DEF KeysInv, KeysCovered, Covered
<1>12. CASE ReceiveEnd \/ SignalEnd \/ Kick \/ Cleanup
  BY <1>12 DEF ReceiveEnd, SignalEnd, Kick, Cleanup, BreakLoop, KeysInv, KeysCovered
<1>13. CASE ConnectionLost
  BY <1>13 DEF ConnectionLost, KeysInv, KeysCovered
<1>14. CASE NewSession
  <2>1. osDown' = {} /\ toRcv' = <<>>
    BY <1>14 DEF NewSession, KeysInv, Remembered
  <2>2. ASSUME NEW k \in Modifiers PROVE ~DownLater(k)'
    BY <2>1 DEF DownLater, DownAfter
  <2> QED
    BY <1>14, <2>2 DEF NewSession, KeysInv, KeysCovered
<1> QED
  BY <1>1, <1>2, <1>3, <1>5, <1>6, <1>7, <1>8, <1>9, <1>10, <1>11, <1>12, <1>13, <1>14, <1>15, <1>16
  DEF Next, Activate, ReleaseStep

\* Whatever the session pressed on the receiver and did not release is still
\* known to the controller, whose ending session releases it; only a release
\* that send_net dropped escapes, and a press sent after the burst that
\* should have let go of it (capture.rs:503 and 510, client.rs:493).
THEOREM HeldCovers == Spec => []HeldCoversReceiver
<1>1. Init => KeysInv
  <2>1. ASSUME Init PROVE KeysCovered
    BY <2>1 DEF Init, KeysCovered, DownLater, DownAfter
  <2>2. ASSUME Init PROVE PressKnown
    <3>1. \A k \in Modifiers : NoKey # Key(k, TRUE)
      BY DEF NoKey, Key
    <3> QED
      BY <2>2, <3>1 DEF Init, PressKnown, PressInHand
  <2> QED
    BY <2>1, <2>2 DEF Init, KeysInv, BurstEnds, Remembered
<1>2. Typed /\ KeysInv => HeldCoversReceiver
  <2> SUFFICES ASSUME Typed, KeysInv, rcv = "up", link = "ok", NEW k \in osDown,
                      ~Pending(Key(k, FALSE), toRcv)
               PROVE  Covered(k)
    BY DEF HeldCoversReceiver, Covered
  <2>1. k \in Modifiers
    BY DEF Typed, RcvTyped
  <2>2. DownLater(k)
    BY DEF DownLater, DownAfter, Pending
  <2> QED
    BY <2>1, <2>2 DEF KeysInv, KeysCovered
<1> QED
  BY <1>1, <1>2, TypedHolds, StepKeepsKeys, PTL DEF Spec

-----------------------------------------------------------------------------
(* The user's input goes somewhere.                                        *)

LEMMA AppendKeepsDown ==
  ASSUME NEW q \in Seq(Commands), NEW m \in Commands, NEW press, NEW release, NEW d,
         m # release, m = press \/ DownAfter(press, release, q, d)
  PROVE  DownAfter(press, release, Append(q, m), d)
<1> DEFINE r == Append(q, m)
<1>1. /\ Len(r) = Len(q) + 1 /\ DOMAIN r = 1 .. Len(r) /\ DOMAIN q = 1 .. Len(q)
      /\ r[Len(r)] = m /\ \A i \in DOMAIN q : r[i] = q[i]
      /\ Len(q) \in Nat
  OBVIOUS
<1> HIDE DEF r
<1>2. CASE m = press
  BY <1>1, <1>2 DEF DownAfter, r
<1>3. CASE DownAfter(press, release, q, d)
  <2>1. \A i \in DOMAIN r : i \in DOMAIN q \/ r[i] = m
    BY <1>1
  <2> QED
    BY <1>1, <1>3, <2>1 DEF DownAfter, r
<1> QED
  BY <1>2, <1>3

LEMMA TailKeepsDown ==
  ASSUME NEW q \in Seq(Commands), q # <<>>, NEW press, NEW release, NEW d, NEW e,
         DownAfter(press, release, q, d),
         press # release, Head(q) = release \/ e \/ (Head(q) # press /\ ~d)
  PROVE  DownAfter(press, release, Tail(q), e)
<1> DEFINE r == Tail(q)
<1>1. /\ Len(q) \in Nat /\ Len(r) = Len(q) - 1 /\ Len(q) > 0
      /\ DOMAIN r = 1 .. Len(r) /\ DOMAIN q = 1 .. Len(q)
      /\ q[1] = Head(q) /\ \A i \in DOMAIN r : r[i] = q[i + 1]
  OBVIOUS
<1> HIDE DEF r
<1>2. \A j \in DOMAIN q : j > 1 => j - 1 \in DOMAIN r /\ q[j] = r[j - 1]
  BY <1>1
<1>3. \A i \in DOMAIN r : i + 1 \in DOMAIN q
  BY <1>1
<1>4. CASE \E i \in DOMAIN q : i > 1 /\
             q[i] = press /\ \A j \in DOMAIN q : j > i => q[j] # release
  <2>1. PICK i \in DOMAIN q : i > 1 /\
          q[i] = press /\ \A j \in DOMAIN q : j > i => q[j] # release
    BY <1>4
  <2>2. i - 1 \in DOMAIN r /\ r[i - 1] = press
    BY <1>2, <2>1
  <2>3. \A j \in DOMAIN r : j > i - 1 => r[j] # release
    BY <1>1, <1>3, <2>1
  <2> QED
    BY <2>2, <2>3 DEF DownAfter, r
<1>5. CASE q[1] = press /\ \A j \in DOMAIN q : j > 1 => q[j] # release
  <2>1. \A j \in DOMAIN r : r[j] # release
    BY <1>1, <1>3, <1>5
  <2>2. e
    BY <1>1, <1>5
  <2> QED
    BY <2>1, <2>2 DEF DownAfter, r
<1>6. CASE d /\ \A j \in DOMAIN q : q[j] # release
  <2>1. \A j \in DOMAIN r : r[j] # release
    BY <1>1, <1>3, <1>6
  <2>2. e
    BY <1>1, <1>6
  <2> QED
    BY <2>1, <2>2 DEF DownAfter, r
<1> QED
  BY <1>1, <1>4, <1>5, <1>6 DEF DownAfter

\* No thread is between setting relay_active and sending FocusAcquired.
Quiet == \A t \in Activators : pc[t] \notin {"on", "warped"}

Arrives == DownAfter(Acquired, Released, toRcv, controlled)

Heard ==
  relaying["ctl"] /\ Live /\ Quiet /\ ~lost /\ ~crossed => Arrives \/ Pending(Return, toCtl)

\* A session that is over has no net_tx, so whoever relays after it has had
\* the FocusAcquired dropped: the next session starts unheard.
TxGone == ctl = "down" => tx = "none"
Deaf   == ctl = "down" /\ relaying["ctl"] /\ Quiet => lost

InputInv == Heard /\ TxGone /\ Deaf

\* Nothing that InputInv reads changes, except that relaying may stop.
LEMMA QuietKeepsInput ==
  ASSUME InputInv, UNCHANGED <<ctl, rcv, link, toRcv, toCtl, controlled, lost, crossed>>,
         relaying'["ctl"] => relaying["ctl"], Quiet' => Quiet, TxGone'
  PROVE  InputInv'
<1>1. (Arrives' <=> Arrives) /\ (Live' <=> Live)
  BY DEF Arrives, Live
<1>2. Pending(Return, toCtl)' <=> Pending(Return, toCtl)
  BY DEF Pending
<1> QED
  BY <1>1, <1>2 DEF InputInv, Heard, Deaf

\* A message other than a focus command goes out, or is dropped.
LEMMA SendKeepsInput ==
  ASSUME Typed, InputInv, NEW m \in Commands, m \notin {Acquired, Released}, SendNet(m),
         UNCHANGED <<ctl, tx, rcv, controlled, relaying>>, Quiet' => Quiet
  PROVE  InputInv'
<1>1. lost' = lost /\ crossed' = crossed /\ toCtl' = toCtl /\ link' = link
  BY DEF SendNet, LostAfter, CrossedAfter
<1>2. Arrives => Arrives'
  <2>1. CASE CanSend
    <3>1. toRcv' = Append(toRcv, m)
      BY <2>1 DEF SendNet
    <3> QED
      BY <3>1, AppendKeepsDown DEF Arrives, Typed, NetTyped
  <2>2. CASE ~CanSend
    BY <2>2 DEF SendNet, Arrives
  <2> QED
    BY <2>1, <2>2
<1>3. (Live' <=> Live) /\ (Pending(Return, toCtl)' <=> Pending(Return, toCtl))
  BY <1>1 DEF Live, Pending
<1> QED
  BY <1>1, <1>2, <1>3 DEF InputInv, Heard, Deaf, TxGone

\* A message is read: its effect on controlled keeps the promise, and a
\* ReturnToSender covers a hand-back.
LEMMA ReadKeepsInput ==
  ASSUME Typed, InputInv, toRcv # <<>>, toRcv' = Tail(toRcv),
         \/ Head(toRcv) = Released
         \/ controlled'
         \/ Head(toRcv) # Acquired /\ ~controlled
         \/ Pending(Return, toCtl'),
         Pending(Return, toCtl) => Pending(Return, toCtl'),
         UNCHANGED <<ctl, tx, rcv, pc, relaying, link, lost, crossed>>
  PROVE  InputInv'
<1>1. Arrives => Arrives' \/ Pending(Return, toCtl')
  <2> SUFFICES ASSUME Arrives, ~Pending(Return, toCtl') PROVE Arrives'
    OBVIOUS
  <2>1. Acquired # Released
    BY DEF Acquired, Released
  <2>2. DownAfter(Acquired, Released, Tail(toRcv), controlled')
    BY <2>1, TailKeepsDown DEF Arrives, Typed, NetTyped
  <2> QED
    BY <2>2 DEF Arrives
<1>2. (Live' <=> Live) /\ (Quiet' <=> Quiet)
  BY DEF Live, Quiet
<1>3. Pending(Return, toCtl)' <=> Pending(Return, toCtl')
  BY DEF Pending
<1> QED
  BY <1>1, <1>2, <1>3 DEF InputInv, Heard, Deaf, TxGone

LEMMA StepKeepsInput == Typed /\ InputInv /\ [Next]_vars => InputInv'
<1> SUFFICES ASSUME Typed, InputInv, [Next]_vars PROVE InputInv'
  OBVIOUS
<1> USE DEF threadVars, ctlVars, rcvVars, netVars, history
<1> /\ CtlTyped /\ RcvTyped /\ NetTyped /\ RelayTyped
    /\ TxGone
  BY DEF Typed, InputInv
<1>1. CASE TouchEdge \/ LeaveEdge \/ DebounceOver \/ DisconnectTimeout
           \/ UNCHANGED vars
  BY <1>1, QuietKeepsInput DEF TouchEdge, LeaveEdge, DebounceOver, DisconnectTimeout, vars,
     Quiet, TxGone
<1>2. CASE DwellOver \/ SwitchHotkeyOn \/ TakeControl
  <2>1. PICK t \in Activators : pc[t] = "idle" /\ pc' = [pc EXCEPT ![t] = "checked"]
    BY <1>2 DEF DwellOver, SwitchHotkeyOn, TakeControl, Goto, GrabIdle
  <2>2. Quiet' => Quiet
    BY <2>1 DEF Quiet, CtlTyped
  <2> QED
    BY <1>2, <2>2, QuietKeepsInput DEF DwellOver, SwitchHotkeyOn, TakeControl, TxGone
<1>3. CASE Disconnect \/ CloseTx \/ ReceiverTakesControl \/ ReceiverReleases
  <2>1. relaying'["ctl"] => relaying["ctl"]
    BY <1>3 DEF Disconnect, CloseTx, ReceiverTakesControl, ReceiverReleases, SetRelaying,
       RelayTyped, Hosts
  <2> QED
    BY <1>3, <2>1, QuietKeepsInput
    DEF Disconnect, CloseTx, ReceiverTakesControl, ReceiverReleases, TxGone, Quiet
<1>4. ASSUME NEW t \in Activators, RelayOn(t) \/ SendEntryWarp(t) PROVE InputInv'
  <2>1. ~Quiet' /\ TxGone'
    BY <1>4 DEF RelayOn, SendEntryWarp, Goto, Quiet, TxGone, CtlTyped
  <2> QED
    BY <2>1 DEF InputInv, Heard, Deaf
<1>5. ASSUME NEW t \in Activators, SendAcquired(t) PROVE InputInv'
  <2>1. lost' = ~CanSend /\ TxGone' /\ UNCHANGED <<ctl, tx, controlled>>
    BY <1>5 DEF SendAcquired, SendNet, LostAfter, TxGone
  <2>2. CASE CanSend
    <3>1. toRcv' = Append(toRcv, Acquired) /\ Acquired \in Commands /\ Acquired # Released
      BY <1>5, <2>2, OtherCommands DEF SendAcquired, SendNet, Acquired, Released
    <3>2. Arrives'
      BY <3>1, AppendKeepsDown DEF Arrives, NetTyped
    <3>3. ctl' # "down"
      BY <2>1, <2>2 DEF CanSend, TxGone
    <3> QED
      BY <2>1, <3>2, <3>3 DEF InputInv, Heard, Deaf
  <2>3. CASE ~CanSend
    BY <2>1, <2>3 DEF InputInv, Heard, Deaf
  <2> QED
    BY <2>2, <2>3
<1>6. CASE ReleaseStep \/ OnReturn \/ EndSession
  <2>1. ~relaying'["ctl"]
    BY <1>6, ReleaseEffect DEF OnReturn, EndSession, SetRelaying, RelayTyped, Hosts
  <2>2. TxGone'
    BY <1>6, ReleaseEffect DEF OnReturn, EndSession, TxGone
  <2> QED
    BY <2>1, <2>2 DEF InputInv, Heard, Deaf
<1>7. ASSUME NEW k \in Modifiers, NEW down \in BOOLEAN, RememberKey(k, down) PROVE InputInv'
  BY <1>7, QuietKeepsInput DEF RememberKey, Quiet, TxGone
<1>18. CASE ShipKey
  <2>1. inHand \in Commands /\ inHand \notin {Acquired, Released}
    BY <1>18 DEF ShipKey, CtlTyped, Keys, Key, Acquired, Released, Commands
  <2> QED
    BY <1>18, <2>1, SendKeepsInput DEF ShipKey, Quiet
<1>19. ASSUME NEW r \in Releases, SendReleased(r) PROVE InputInv'
  <2>1. crossed' = relaying["ctl"] /\ lost' = ~CanSend
    BY <1>19 DEF SendReleased, SendNet, CrossedAfter, LostAfter, Acquired, Released
  <2>2. UNCHANGED <<relaying, ctl, tx>>
    BY <1>19 DEF SendReleased
  <2>3. TxGone'
    BY <2>2 DEF TxGone
  <2>4. Deaf'
    BY <2>1, <2>2 DEF Deaf, CanSend, TxGone
  <2> QED
    BY <2>1, <2>2, <2>3, <2>4 DEF InputInv, Heard
<1>8. CASE UserMotion
  <2>1. Rel \in Commands /\ Rel \notin {Acquired, Released}
    BY OtherCommands DEF Rel, Acquired, Released
  <2> QED
    BY <1>8, <2>1, SendKeepsInput DEF UserMotion, Quiet
<1>9. CASE ReleaseBurst
  <2>1. PICK k \in burst : SendNet(Key(k, FALSE))
    BY <1>9 DEF ReleaseBurst
  <2>2. Key(k, FALSE) \in Commands
    <3>1. k \in Modifiers
      BY <2>1 DEF CtlTyped
    <3> QED
      BY <3>1, KeyTyped
  <2>3. Key(k, FALSE) \notin {Acquired, Released}
    BY DEF Key, Acquired, Released
  <2> QED
    BY <1>9, <2>1, <2>2, <2>3, SendKeepsInput DEF ReleaseBurst, Quiet
<1>10. CASE QueueDisconnect
  <2>1. /\ UNCHANGED <<ctl, rcv, link, toCtl, controlled, lost, crossed, pc, relaying>>
        /\ toRcv' = toRcv \/ toRcv' = Append(toRcv, Bye)
        /\ ctl # "down"
    BY <1>10 DEF QueueDisconnect, TxGone
  <2>2. Arrives => Arrives'
    <3>1. Bye \in Commands /\ Bye # Released
      BY OtherCommands DEF Bye, Released
    <3> QED
      BY <2>1, <3>1, AppendKeepsDown DEF Arrives, NetTyped
  <2>3. (Live' <=> Live) /\ (Quiet' <=> Quiet) /\ (Pending(Return, toCtl)' <=> Pending(Return, toCtl))
    BY <2>1 DEF Live, Quiet, Pending
  <2> QED
    BY <2>1, <2>2, <2>3 DEF InputInv, Heard, Deaf, TxGone
<1>11. CASE ReceiveMotion
  <2>1. /\ toRcv # <<>> /\ toRcv' = Tail(toRcv)
        /\ UNCHANGED <<ctl, tx, rcv, pc, relaying, link, lost, crossed>>
        /\ Head(toRcv) # Acquired
    <3>1. Head(toRcv) = Rel \/ \E z \in Zones : Head(toRcv) = Move(z)
      BY <1>11 DEF ReceiveMotion, Incoming
    <3>2. Rel # Acquired /\ \A z \in Zones : Move(z) # Acquired
      BY DEF Move, Rel, Acquired
    <3> QED
      BY <1>11, <3>1, <3>2 DEF ReceiveMotion, Incoming
  <2>2. \/ UNCHANGED <<toCtl, controlled>>
        \/ toCtl' = Append(toCtl, Return)
    BY <1>11 DEF ReceiveMotion, MoveCursor
  <2>3. CASE UNCHANGED <<toCtl, controlled>>
    BY <2>1, <2>3, ReadKeepsInput
  <2>4. CASE toCtl' = Append(toCtl, Return)
    <3>1. Len(toCtl) + 1 \in DOMAIN toCtl' /\ toCtl'[Len(toCtl) + 1] = Return
      BY <2>4 DEF NetTyped
    <3>2. Pending(Return, toCtl')
      BY <3>1 DEF Pending
    <3> QED
      BY <2>1, <3>2, ReadKeepsInput
  <2> QED
    BY <2>2, <2>3, <2>4
<1>12. CASE ReceiveKey
  <2>1. PICK k \in Modifiers, down \in BOOLEAN : Incoming(Key(k, down))
    BY <1>12 DEF ReceiveKey
  <2>2. Head(toRcv) # Acquired /\ toRcv # <<>>
    BY <2>1 DEF Incoming, Key, Acquired
  <2> QED
    BY <1>12, <2>2, ReadKeepsInput DEF ReceiveKey
<1>13. CASE ReceiveAcquired \/ ReceiveReleased
  BY <1>13, ReadKeepsInput DEF ReceiveAcquired, ReceiveReleased, Incoming
<1>14. CASE ReceiveEnd \/ SignalEnd \/ Kick \/ Cleanup
  <2>1. rcv' # "up" /\ UNCHANGED <<ctl, tx, pc, lost>> /\ relaying'["ctl"] = relaying["ctl"]
    BY <1>14 DEF ReceiveEnd, SignalEnd, Kick, BreakLoop, Cleanup, SetRelaying, RelayTyped, Hosts
  <2> QED
    BY <2>1 DEF InputInv, Heard, Deaf, TxGone, Live, Quiet
<1>15. CASE EndLoop \/ ReadFails
  BY <1>15 DEF EndLoop, ReadFails, InputInv, Heard, Deaf, TxGone, Live
<1>16. CASE ConnectionLost
  BY <1>16 DEF ConnectionLost, InputInv, Heard, Deaf, TxGone, Live, Quiet
<1>17. CASE NewSession
  BY <1>17 DEF NewSession, InputInv, Heard, Deaf, TxGone, Live, Quiet
<1> QED
  BY <1>1, <1>2, <1>3, <1>4, <1>5, <1>6, <1>7, <1>8, <1>9, <1>10, <1>11, <1>12, <1>13,
     <1>14, <1>15, <1>16, <1>17, <1>18, <1>19 DEF Next, Activate, ReleaseStep

\* While the controller swallows its user's input the receiver is controlled,
\* will be, or has sent a ReturnToSender, unless the latest focus command was
\* dropped by send_net, or is the FocusReleased of a release that a takeover
\* overtook (state.rs:565, capture.rs:421 and 423).
THEOREM InputGoesSomewhere == Spec => []NoSwallowedInput
<1>1. Init => InputInv
  BY DEF Init, InputInv, Heard, TxGone, Deaf, Hosts
<1>2. InputInv => NoSwallowedInput
  <2>1. Arrives => ControlArrives
    BY DEF Arrives, DownAfter, ControlArrives, Pending
  <2>2. AllIdle => Quiet
    BY DEF AllIdle, Quiet
  <2> QED
    BY <2>1, <2>2 DEF InputInv, Heard, NoSwallowedInput
<1> QED
  BY <1>1, <1>2, TypedHolds, StepKeepsInput, PTL DEF Spec

-----------------------------------------------------------------------------
(* A hand-back ends control on both sides.                                 *)

\* No FocusAcquired is on its way to the receiver while a ReturnToSender is on its way back.
NeverCross == Pending(Return, toCtl) => ~Pending(Acquired, toRcv)

\* The receiver that handed the mouse back is not controlled again.
Returned == Pending(Return, toCtl) => ~controlled

LEMMA StepKeepsReturned == Typed /\ NeverCross /\ Returned /\ [Next]_vars => Returned'
<1> SUFFICES ASSUME Typed, NeverCross, Returned, [Next]_vars, Pending(Return, toCtl)' PROVE ~controlled'
  BY DEF Returned
<1> USE DEF threadVars, ctlVars, rcvVars, netVars, history
<1> toCtl \in Seq(Replies)
  BY DEF Typed, NetTyped
<1>1. ASSUME toCtl' = toCtl, controlled' = controlled PROVE ~controlled'
  BY <1>1 DEF Returned, Pending
<1>2. CASE ReceiveMotion
  <2>1. \/ UNCHANGED <<toCtl, controlled>>
        \/ ~controlled'
    BY <1>2 DEF ReceiveMotion, MoveCursor
  <2> QED
    BY <1>1, <2>1
<1>3. CASE ReceiveAcquired
  <2>1. toRcv # <<>> /\ Head(toRcv) = Acquired /\ toCtl' = toCtl /\ toRcv \in Seq(Commands)
    BY <1>3 DEF ReceiveAcquired, Incoming, Typed, NetTyped
  <2>2. 1 \in DOMAIN toRcv /\ toRcv[1] = Acquired
    BY <2>1
  <2>3. Pending(Acquired, toRcv) /\ Pending(Return, toCtl)
    BY <2>1, <2>2 DEF Pending
  <2> QED
    BY <2>3 DEF NeverCross
<1>4. CASE ReceiveReleased \/ Cleanup
  BY <1>4 DEF ReceiveReleased, Cleanup
<1>5. CASE SignalEnd \/ Kick
  <2>1. SignalEnd /\ controlled' = controlled
    BY <1>5 DEF Kick, SignalEnd, BreakLoop
  <2>2. CASE UNCHANGED toCtl
    BY <1>1, <2>1, <2>2
  <2>3. CASE toCtl' = Append(toCtl, Ended)
    <3>1. \A i \in DOMAIN toCtl' : toCtl'[i] = Return => i \in DOMAIN toCtl /\ toCtl[i] = Return
      BY <2>3 DEF Return, Ended
    <3> QED
      BY <2>1, <3>1 DEF Returned, Pending
  <2> QED
    BY <2>1, <2>2, <2>3 DEF SignalEnd
<1>6. CASE OnReturn
  <2>1. toCtl # <<>> /\ toCtl' = Tail(toCtl) /\ controlled' = controlled
    BY <1>6 DEF OnReturn
  <2>2. \A i \in DOMAIN Tail(toCtl) : i + 1 \in DOMAIN toCtl /\ Tail(toCtl)[i] = toCtl[i + 1]
    BY <2>1
  <2> QED
    BY <2>1, <2>2 DEF Returned, Pending
<1>7. CASE ConnectionLost \/ NewSession
  BY <1>7 DEF ConnectionLost, NewSession, Pending
<1>8. CASE ReceiveKey \/ ReceiveEnd \/ ReceiverTakesControl \/ ReceiverReleases \/ UNCHANGED vars
  BY <1>1, <1>8 DEF ReceiveKey, ReceiveEnd, BreakLoop, ReceiverTakesControl, ReceiverReleases, vars
<1>9. CASE Disconnect \/ QueueDisconnect \/ DisconnectTimeout \/ CloseTx
           \/ EndLoop \/ ReadFails \/ ReleaseBurst \/ EndSession
  BY <1>1, <1>9 DEF Disconnect, QueueDisconnect, DisconnectTimeout, CloseTx,
     EndLoop, ReadFails, ReleaseBurst, EndSession, SendNet
<1>10. CASE TouchEdge \/ LeaveEdge \/ DwellOver \/ SwitchHotkeyOn \/ TakeControl
           \/ DebounceOver \/ ShipKey \/ UserMotion
  BY <1>1, <1>10 DEF TouchEdge, LeaveEdge, DwellOver, SwitchHotkeyOn, TakeControl,
     DebounceOver, ShipKey, UserMotion, SendNet
<1>11. ASSUME NEW t \in Activators, Activate(t) PROVE ~controlled'
  BY <1>1, <1>11 DEF Activate, RelayOn, SendEntryWarp, SendAcquired, SendNet
<1>12. ASSUME NEW k \in Modifiers, NEW down \in BOOLEAN, RememberKey(k, down) PROVE ~controlled'
  BY <1>1, <1>12 DEF RememberKey
<1>13. CASE ReleaseStep
  BY <1>1, <1>13, ReleaseEffect
<1>14. ASSUME NEW r \in Releases, SendReleased(r) PROVE ~controlled'
  BY <1>1, <1>14 DEF SendReleased, SendNet
<1> QED
  BY <1>2, <1>3, <1>4, <1>5, <1>6, <1>7, <1>8, <1>9, <1>10, <1>11, <1>12, <1>13, <1>14 DEF Next, ReleaseStep

\* A step that stops the relaying is a release, a disconnect, the end of the session or a ReturnToSender.
LEMMA StopsBy ==
  ASSUME Typed, [Next]_vars, relaying["ctl"], ~relaying'["ctl"]
  PROVE  \/ ReleaseStep
         \/ Disconnect \/ OnReturn \/ EndSession
<1> USE DEF threadVars, ctlVars, rcvVars, netVars, history
<1>1. ~ UNCHANGED relaying
  OBVIOUS
<1>2. ~ UNCHANGED vars
  BY <1>1 DEF vars
<1>3. ~ (TouchEdge \/ LeaveEdge \/ DwellOver \/ SwitchHotkeyOn \/ TakeControl \/ DebounceOver \/ UserMotion)
  BY <1>1 DEF TouchEdge, LeaveEdge, DwellOver, SwitchHotkeyOn, TakeControl, DebounceOver, UserMotion
<1>4. ASSUME NEW t \in Activators PROVE ~ Activate(t)
  BY <1>1 DEF Activate, RelayOn, SendEntryWarp, SendAcquired, SetRelaying, Typed, RelayTyped, Hosts
<1>5. /\ ~ ShipKey /\ \A r \in Releases : ~ SendReleased(r)
      /\ \A k \in Modifiers, down \in BOOLEAN : ~ RememberKey(k, down)
  BY <1>1 DEF ShipKey, SendReleased, RememberKey
<1>6. ~ (QueueDisconnect \/ DisconnectTimeout \/ CloseTx \/ EndLoop \/ ReadFails \/ ReleaseBurst)
  BY <1>1 DEF QueueDisconnect, DisconnectTimeout, CloseTx, EndLoop, ReadFails, ReleaseBurst
<1>7. ~ (ReceiveMotion \/ ReceiveKey \/ ReceiveAcquired \/ ReceiveReleased \/ ReceiveEnd \/ SignalEnd \/ Kick)
  BY <1>1 DEF ReceiveMotion, ReceiveKey, ReceiveAcquired, ReceiveReleased, ReceiveEnd, SignalEnd, Kick
<1>8. ~ (Cleanup \/ ReceiverTakesControl \/ ReceiverReleases)
  BY DEF Cleanup, ReceiverTakesControl, ReceiverReleases, SetRelaying, Typed, RelayTyped, Hosts
<1>9. ~ (ConnectionLost \/ NewSession)
  BY <1>1 DEF ConnectionLost, NewSession
<1> QED
  BY <1>2, <1>3, <1>4, <1>5, <1>6, <1>7, <1>8, <1>9 DEF Next, ReleaseStep

\* As long as no FocusAcquired crosses a ReturnToSender, whatever stops the relaying of a live session leaves
\* its receiver uncontrolled or with a FocusReleased queued or still to be sent, as protocol.rs:77 has it.
THEOREM StopsTogether == Spec /\ []NeverCross => StopEndsControl
<1> DEFINE Stop == /\ relaying["ctl"] /\ ~relaying'["ctl"]
                   /\ Live /\ AllIdle /\ CanSend /\ ctl' = "up" /\ closer' = "idle"
                   => (controlled' => Pending(Released, toRcv') \/ releasing' # {})
<1>1. Init => Returned
  BY DEF Init, Returned
<1>2. Typed /\ Returned /\ [Next]_vars => Stop
  <2> SUFFICES ASSUME Typed, Returned, [Next]_vars, relaying["ctl"], ~relaying'["ctl"], CanSend,
                      ctl' = "up", closer' = "idle", controlled'
               PROVE  Pending(Released, toRcv') \/ releasing' # {}
    OBVIOUS
  <2> USE DEF threadVars, ctlVars, rcvVars, netVars, history
  <2>1. CASE ReleaseStep
    BY <2>1, ReleaseEffect
  <2>2. CASE OnReturn
    <3>1. controlled' = controlled /\ toCtl # <<>> /\ Head(toCtl) = Return /\ toCtl \in Seq(Replies)
      BY <2>2 DEF OnReturn, Typed, NetTyped
    <3>2. 1 \in DOMAIN toCtl /\ toCtl[1] = Return
      BY <3>1
    <3> QED
      BY <3>1, <3>2 DEF Returned, Pending
  <2>3. CASE Disconnect \/ EndSession
    BY <2>3 DEF Disconnect, EndSession
  <2> QED
    BY <2>1, <2>2, <2>3, StopsBy
<1>3. Stop => [Stop]_vars
  OBVIOUS
<1> QED
  BY <1>1, <1>2, StepKeepsReturned, TypedHolds, PTL DEF Spec, StopEndsControl

-----------------------------------------------------------------------------
(* Who may relay.                                                          *)

\* No thread is in the middle of taking control when the session ends.
EndsIdle == ctl # "up" => AllIdle

\* The receiver does not relay, nor does a controller whose session is over.
Linked == ~relaying["rcv"] /\ (ctl = "down" => ~relaying["ctl"])

LEMMA StepKeepsLinked == Typed /\ EndsIdle /\ Linked /\ [Next /\ ~ReceiverTakesControl]_vars => Linked'
<1> SUFFICES ASSUME Typed, EndsIdle, Linked, [Next /\ ~ReceiverTakesControl]_vars PROVE Linked'
  OBVIOUS
<1> USE DEF Linked, threadVars, ctlVars, rcvVars, netVars, history
<1> RelayTyped
  BY DEF Typed
<1>1. CASE UNCHANGED vars \/ TouchEdge \/ LeaveEdge \/ DwellOver \/ SwitchHotkeyOn \/ TakeControl
           \/ DebounceOver \/ UserMotion
  BY <1>1 DEF vars, TouchEdge, LeaveEdge, DwellOver, SwitchHotkeyOn, TakeControl, DebounceOver, UserMotion
<1>2. ASSUME NEW t \in Activators, RelayOn(t) PROVE Linked'
  <2>1. ctl' = "up"
    BY <1>2 DEF RelayOn, EndsIdle, AllIdle
  <2> QED
    BY <1>2, <2>1 DEF RelayOn, SetRelaying, RelayTyped, Hosts
<1>3. ASSUME NEW t \in Activators, SendEntryWarp(t) \/ SendAcquired(t) PROVE Linked'
  BY <1>3 DEF SendEntryWarp, SendAcquired
<1>4. ASSUME \/ \E k \in Modifiers, down \in BOOLEAN : RememberKey(k, down)
             \/ ShipKey \/ \E r \in Releases : SendReleased(r)
      PROVE  Linked'
  BY <1>4 DEF RememberKey, ShipKey, SendReleased
<1>5. CASE ReleaseStep \/ Disconnect \/ OnReturn \/ EndSession
  BY <1>5, ReleaseEffect DEF Disconnect, OnReturn, EndSession, SetRelaying, RelayTyped, Hosts
<1>6. CASE QueueDisconnect \/ DisconnectTimeout \/ CloseTx \/ EndLoop \/ ReadFails \/ ReleaseBurst
  BY <1>6 DEF QueueDisconnect, DisconnectTimeout, CloseTx, EndLoop, ReadFails, ReleaseBurst
<1>7. CASE ReceiveMotion \/ ReceiveKey \/ ReceiveAcquired \/ ReceiveReleased \/ ReceiveEnd \/ SignalEnd \/ Kick
  BY <1>7 DEF ReceiveMotion, ReceiveKey, ReceiveAcquired, ReceiveReleased, ReceiveEnd, SignalEnd, Kick
<1>8. CASE Cleanup \/ ReceiverReleases
  BY <1>8 DEF Cleanup, ReceiverReleases, SetRelaying, RelayTyped, Hosts
<1>9. CASE ConnectionLost \/ NewSession
  BY <1>9 DEF ConnectionLost, NewSession
<1> QED
  BY <1>1, <1>2, <1>3, <1>4, <1>5, <1>6, <1>7, <1>8, <1>9 DEF Next, Activate, ReleaseStep

\* As long as a session ends with no takeover half done and the receiver does not take control itself, only
\* the side with a net_tx relays (capture.rs:588).
THEOREM LinkedRelays == Spec /\ []EndsIdle /\ [][~ReceiverTakesControl]_vars => []OnlySendersRelay
<1>1. Init => Linked
  BY DEF Init, Linked, Hosts
<1>2. Linked => OnlySendersRelay
  BY DEF Linked, OnlySendersRelay
<1>3. [Next]_vars /\ [~ReceiverTakesControl]_vars => [Next /\ ~ReceiverTakesControl]_vars
  OBVIOUS
<1> QED
  BY <1>1, <1>2, <1>3, StepKeepsLinked, TypedHolds, PTL DEF Spec

-----------------------------------------------------------------------------
(* What is queued is acted on.                                             *)

LEMMA AppendKeepsPending ==
  ASSUME NEW S, NEW q \in Seq(S), NEW e, NEW m, Pending(m, q)
  PROVE  Pending(m, Append(q, e))
<1>1. PICK i \in DOMAIN q : q[i] = m
  BY DEF Pending
<1>2. i \in DOMAIN Append(q, e) /\ Append(q, e)[i] = m
  BY <1>1
<1> QED
  BY <1>2 DEF Pending

LEMMA TailKeepsPending ==
  ASSUME NEW S, NEW q \in Seq(S), q # <<>>, NEW m, Pending(m, q), Head(q) # m
  PROVE  Pending(m, Tail(q))
<1>1. PICK i \in DOMAIN q : q[i] = m
  BY DEF Pending
<1>2. i \in 1 .. Len(q) /\ i # 1
  BY <1>1
<1>3. i - 1 \in DOMAIN Tail(q) /\ Tail(q)[i - 1] = m
  BY <1>1, <1>2
<1> QED
  BY <1>3 DEF Pending

\* A step that leaves both sessions and the connection up.
Stays == ctl = "up" /\ ctl' = "up" /\ rcv = "up" /\ rcv' = "up" /\ link' = "ok"

ReturnKept   == Pending(Return, toCtl) => Pending(Return, toCtl') \/ ~relaying'["ctl"]
ReleasedKept == Pending(Released, toRcv) => Pending(Released, toRcv') \/ ~controlled'

\* Of a step by which the controller sends, or nobody does, nothing is taken out of a queue.
LEMMA SendKeeps ==
  ASSUME Typed, toRcv' = toRcv \/ (\E m \in Commands : toRcv' = Append(toRcv, m)), toCtl' = toCtl
  PROVE  ReturnKept /\ ReleasedKept
BY AppendKeepsPending DEF ReturnKept, ReleasedKept, Typed, NetTyped

LEMMA ReadKeeps ==
  ASSUME Typed, toRcv # <<>>, toRcv' = Tail(toRcv), Head(toRcv) # Released \/ ~controlled',
         toCtl' = toCtl \/ toCtl' = Append(toCtl, Return)
  PROVE  ReturnKept /\ ReleasedKept
BY AppendKeepsPending, TailKeepsPending DEF ReturnKept, ReleasedKept, Typed, NetTyped

LEMMA StepKeepsQueued == Typed /\ [Next]_vars /\ Stays => ReturnKept /\ ReleasedKept
<1> SUFFICES ASSUME Typed, [Next]_vars, Stays PROVE ReturnKept /\ ReleasedKept
  OBVIOUS
<1> USE DEF threadVars, ctlVars, rcvVars, netVars, history
<1>1. CASE UNCHANGED vars \/ TouchEdge \/ LeaveEdge \/ DwellOver \/ SwitchHotkeyOn \/ TakeControl \/ DebounceOver
           \/ Disconnect \/ DisconnectTimeout \/ CloseTx \/ ReceiverTakesControl \/ ReceiverReleases
  BY <1>1, SendKeeps DEF vars, TouchEdge, LeaveEdge, DwellOver, SwitchHotkeyOn, TakeControl, DebounceOver,
     Disconnect, DisconnectTimeout, CloseTx, ReceiverTakesControl, ReceiverReleases
<1>2. ASSUME NEW m \in Commands, SendNet(m) PROVE ReturnKept /\ ReleasedKept
  BY <1>2, SendKeeps DEF SendNet
<1>3. ASSUME NEW t \in Activators, Activate(t) PROVE ReturnKept /\ ReleasedKept
  <2>1. CASE RelayOn(t)
    BY <2>1, SendKeeps DEF RelayOn
  <2>2. CASE SendEntryWarp(t)
    <3>1. PICK z \in Zones : SendNet(Move(z))
      BY <2>2 DEF SendEntryWarp
    <3>2. Move(z) \in Commands
      BY DEF Commands
    <3> QED
      BY <1>2, <3>1, <3>2
  <2>3. CASE SendAcquired(t)
    BY <1>2, <2>3, OtherCommands DEF SendAcquired
  <2> QED
    BY <1>3, <2>1, <2>2, <2>3 DEF Activate
<1>4. CASE ReleaseStep
  BY <1>4, ReleaseEffect, SendKeeps
<1>5. ASSUME NEW k \in Modifiers, NEW down \in BOOLEAN, RememberKey(k, down) PROVE ReturnKept /\ ReleasedKept
  BY <1>5, SendKeeps DEF RememberKey
<1>13. ASSUME NEW r \in Releases, SendReleased(r) PROVE ReturnKept /\ ReleasedKept
  BY <1>2, <1>13, OtherCommands DEF SendReleased
<1>14. CASE ShipKey
  <2>1. inHand \in Commands
    BY <1>14 DEF ShipKey, Typed, CtlTyped, Commands
  <2> QED
    BY <1>2, <1>14, <2>1 DEF ShipKey
<1>6. CASE UserMotion
  BY <1>2, <1>6, OtherCommands DEF UserMotion
<1>7. CASE QueueDisconnect
  BY <1>7, SendKeeps, OtherCommands DEF QueueDisconnect
<1>8. CASE ReceiveMotion
  <2>1. Head(toRcv) = Rel \/ \E z \in Zones : Head(toRcv) = Move(z)
    BY <1>8 DEF ReceiveMotion, Incoming
  <2>2. Head(toRcv) # Released
    BY <2>1 DEF Move, Rel, Released
  <2>3. toCtl' = toCtl \/ toCtl' = Append(toCtl, Return)
    BY <1>8 DEF ReceiveMotion, MoveCursor
  <2> QED
    BY <1>8, <2>2, <2>3, ReadKeeps DEF ReceiveMotion, Incoming
<1>9. CASE ReceiveKey
  <2>1. PICK k \in Modifiers, down \in BOOLEAN : Incoming(Key(k, down))
    BY <1>9 DEF ReceiveKey
  <2>2. Head(toRcv) # Released /\ toRcv # <<>>
    BY <2>1 DEF Incoming, Key, Released
  <2> QED
    BY <1>9, <2>2, ReadKeeps DEF ReceiveKey
<1>10. CASE ReceiveAcquired \/ ReceiveReleased
  BY <1>10, ReadKeeps DEF ReceiveAcquired, ReceiveReleased, Incoming, Acquired, Released
<1>11. CASE ReceiveEnd \/ SignalEnd \/ Kick \/ Cleanup \/ EndLoop \/ ReadFails \/ ReleaseBurst \/ EndSession
            \/ ConnectionLost \/ NewSession
  BY <1>11 DEF Stays, ReceiveEnd, SignalEnd, Kick, BreakLoop, Cleanup, EndLoop, ReadFails, ReleaseBurst,
     EndSession, ConnectionLost, NewSession
<1>12. CASE OnReturn
  <2>1. ~relaying'["ctl"] /\ toRcv' = toRcv
    BY <1>12 DEF OnReturn, SetRelaying, Typed, RelayTyped, Hosts
  <2> QED
    BY <2>1 DEF ReturnKept, ReleasedKept
<1> QED
  BY <1>1, <1>3, <1>4, <1>5, <1>6, <1>7, <1>8, <1>9, <1>10, <1>11, <1>12, <1>13, <1>14 DEF Next, ReleaseStep

\* As long as both sessions and the connection stay up a ReturnToSender leaves its queue only by stopping the
\* relaying, and a FocusReleased only by ending control: what HandBackCompletes and ReleaseArrives
\* need besides the fairness of the read loops (client.rs:450, server.rs:734).
THEOREM QueuedIsActedOn == Spec => [][Stays => ReturnKept /\ ReleasedKept]_vars
<1>1. (Typed /\ [Next]_vars /\ Stays => ReturnKept /\ ReleasedKept)
      => (Typed /\ [Next]_vars => [Stays => ReturnKept /\ ReleasedKept]_vars)
  OBVIOUS
<1> QED
  BY <1>1, TypedHolds, StepKeepsQueued, PTL DEF Spec

=============================================================================

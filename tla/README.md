# A formal model of MultiMouse

MultiMouse lets one keyboard and mouse drive several computers. Every machine
runs the same Tauri program: a *controller* opens a session to a *receiver*,
and while the controller *relays*, its input is swallowed locally and injected
on the receiver. This directory holds TLA+ specifications of the parts that are
hard to test, TLC instances that check them, and TLAPS proofs of their main
invariants.

## The system

| part | code (`src/src-tauri/src/` unless said) | state | operations | hard because |
|---|---|---|---|---|
| Focus handover | `input/capture.rs`, `network/client.rs`, `network/server.rs`, `commands.rs`, `lib.rs`, `state.rs` | `relay_active`, `is_controlled`, `net_tx`, edge and debounce timers, `held_modifiers`, `local_held` | edge dwell, switch hotkey, Take Control, Escape, release hotkey, tray, hand-back, disconnects, cleanup | two flags on two machines agree only through messages; five threads per machine write them |
| Cursor tracker | `network/server.rs` | `entry_edge`, `departed`, `return_sent`, `cursor_pos` | motion, FocusAcquired, FocusReleased | bands of pixels, state surviving from one takeover to the next |
| Controller slot | `network/server.rs`, `network/client.rs`, `state.rs` | `connected_peer`, `connection_count` | claim, swap, clear, cleanup, dial, hang up, disconnect | many writers, some of which do not look first |
| Raw capture | `input/raw_mouse_win.rs`, `input/raw_mouse_mac.rs` | `ACTIVE`, the hidden window and the thread's context, or the event tap and its run loop; the guard | activate, deactivate, the capture thread | activation and teardown overlap; the system may refuse or disable a tap |
| Reconnect | `network/client.rs`, `commands.rs`, `state.rs` | `reconnect_handle`, `intentional_disconnect`, the status of a device | connect, dial by force, disconnect, back-off loop, abort | a session runs inside the task that may be aborted |
| Idle lock, watchdog, pings | `lib.rs`, `network/server.rs`, `network/client.rs` | `last_activity` | 60 s watchdog, idle lock, 5 s ping | clocks on both sides decide the end |
| Pairing | `network/server.rs`, `commands.rs` | `pending_pairing`, `last_pairing_response` | prompt, answer, timeout | the answer races the timeout |
| Relay rooms | `src/relay-server/src/main.rs`, `network/relay.rs` | room table | CREATE, JOIN, expiry | codes collide, partners vanish |
| File transfer | `network/transfer.rs` | transfer list, file | offer, answer, chunks, status | either side stops halfway |
| Trackpad | `network/trackpad.rs` | port, token, client count | start, stop, socket loop | restarts, counters at zero |
| Encrypted channel | `crypto/encryption.rs` | nonce counters | seal, open | replay, exhaustion |
| Log pull | `network/server.rs`, `network/client.rs`, `commands.rs` | one pending slot per side | request, prompt, reply | late answers |
| Gaming mode, settings | `input/capture.rs`, `input/fullscreen_detect.rs`, `commands.rs`, `storage.rs` | `settings`, `config.json`, `CONFIG_LOCK` | toggles, the detector, settings page, pairing, Forget, audit log | one file, many writers, crashes, snapshots written out of order |
| Layout | `screen/layout.rs`, `input/capture.rs`, `network/server.rs` | none (pure) | bounds, edge test, entry point, point of return | boundaries, several monitors, corners |
| Discovery | `network/discovery.rs` | peer list | resolve, remove, status | an entry changes under a session |
| Clipboard | `input/capture.rs`, `lib.rs`, `network/server.rs`, `network/protocol.rs` | two bounded queues | read, send, receive, drain, write | newest dropped when full, two size limits |

The controller and the receiver talk over one encrypted TCP stream, in order in
each direction. Inside a machine the parts share `AppState`; each field has a
lock of its own, so every sequence of two accesses is a point where another
thread may run. Each `await` is one as well.

What makes the parts correct: the user's input is never swallowed with nobody
at the other end; no modifier stays pressed; control comes back when the cursor
pushes through the edge it came in by, and not before it has left that edge;
one controller at a time; no place in a counter leaks; every takeover, transfer,
pairing and reconnect comes to an end.

## The modules

* **`CursorTracker`**: the pure steps of the receiver's tracker, with positions
  abstracted to the zones the code's comparisons tell apart (10, 15 and 60 px
  from an edge). Used by the next two.
* **`FocusHandoff`**: one controller and one receiver with the two message
  queues between them. `relaying` is `relay_active` of both machines,
  `controlled` the receiver's `is_controlled`, `tx` the controller's `net_tx`
  (`closing` once a Disconnect is queued, after which the writer sends nothing
  more), `closer` where `disconnect_gracefully` stands, `pc` the step of each
  thread that is taking control. A handler that gives a lock back is several
  steps, because every other thread may run between them: taking control is
  four (check, switch relaying on, entry warp, FocusAcquired), each release two
  (`relay_active` is cleared, `releasing` keeps who has still to send
  FocusReleased) and a modifier key two (`held_modifiers` is updated, `inHand`
  keeps what has still to be sent). The two read loops and the ends of a session
  are one step from one await to the next. `toRcv` stands for the channel and the
  wire together; a full one drops what `try_send` sends. `ConnectionLost` drops
  everything in flight; `Cleanup` lets any prefix of the receiver's queued
  replies arrive (its writer has 200 ms). `NewSession` begins the next session,
  with what the controller keeps from the last one. History: `lost` (the
  latest focus command was dropped by `try_send`), `crossed` (it was a
  FocusReleased sent after relaying had gone on again) and `stray` (modifiers
  whose release was dropped, or whose press went out after the session had
  drained `held_modifiers`).
* **`HandBackZones`**: the abstract specification of the tracker: a machine
  whose only steps are those of `CursorTracker`.
* **`ReturnEdge`**: the arithmetic of the code, in pixels along one axis, with
  the tracked and the real cursor apart. It refines `HandBackZones`
  (`RefinesZones`), so what is checked of the handover in zones holds for the
  pixels as well.
* **`SessionSlot`**: the slot of one machine. `slot` is `connected_peer`, with
  the sentinel `_pending_`; `inPhase` says where each `handle_controller` is
  between two awaits, `outPhase` the same for `connect_stream`; `counted` and
  `shaking` are the in-flight handshake count. `owner` and `stolen` are history:
  whose value is in the slot, and whether a task has overwritten or cleared one
  that was not its own.
* **`RelayGuard`**: the raw capture of Windows. `step` says where each task is in
  `activate`, `set_relaying(false)` or `deactivate`, `thread` where each capture
  thread is in `run_raw_input_thread`; every atomic, lock and system call is a
  step of its own, on the way out after an error too: `target` is the handle that
  `deactivate` has taken from `HWND_RAW` and not posted to yet. The calls of
  Windows made by the threads in `Faulty` may fail, GetMessageW in the middle of
  the loop among them. `sink`, `classKnown` and `quits` stand for what Windows keeps:
  the process-wide registration, the window class and WM_QUIT in a queue.
  History: `disturbed` (two tasks overlapped, or a thread failed) and `failed`
  (threads that left on an error after storing their handle).
* **`RelayRooms`**: the relay server. `room` is the table, `creator` and `joiner`
  say where each handler is between two awaits; the one-shot sender of a room is
  in the table or in a joiner's hands (`taken`), and `hand` is the stream its
  receiver got. `app` is what the creator's program makes of the answer.
* **`FileTransfer`**: `send_files` and `handle_incoming` with the two directions
  of one stream (`wire`), which may break at any point and lose any suffix of
  what is under way, the user who answers, and the control session the offer is
  tied to. Sizes are counted in chunks; the size is read when the offer is sent
  and the file may have another one by the time it is opened. The last write may
  fail without anybody hearing of it (`disk` is then `short`), since what the
  flush says is discarded.
* **`Trackpad`**: `start` and `stop` as the sequences of stores they are, the
  accept loop of each server ever started, and the connections of phones.
  `clients` wraps as the `AtomicU32` does. `cutOff` is history: the count was
  set to zero under a connected phone.
* **`Pairing`**: the prompt of `handle_controller` with the handshakes that ask one
  after another, and the two steps of `accept_pairing` and `reject_pairing`, which first
  record the decision (`last`) and then send it to whoever is in
  `pending_pairing`. The prompt of a handshake that has failed stays clickable until
  the screen hears of it. `recorded` and `crossed` are history: which prompts were
  answered before their handshake gave up, and whether an answer went to another prompt
  than the one it was made for.
* **`SecureChannel`**: one direction of the encrypted channel: the counter that is
  the nonce, the receiver's last number, and a wire that may lose, repeat and
  reorder. `sealed` and `opened` are what went in and came out.
* **`LogPull`**: `request_peer_logs` on one machine, `resolve_log_request` in the read
  loop of each session on the other, and the slot each of them keeps for its one-shot
  sender. A read loop that is asking its user outlives its session, so there may be
  several. `consent` is the history of requests the user accepted in time.
* **`Reconnect`**: the sessions with one device over time. `at` says where each
  task is: those that a command has spawned (`Calls`) and the loops of
  `reconnect_with_backoff` (`Loops`), whose sessions run inside them. `handle` is
  `reconnect_handle`, `child` a loop spawned whose handle is not stored yet, `doomed` the
  loops aborted while they run, which die at their next await and not before. A session is
  opened in three steps (status, `connected_peer`, `net_tx`), each under a lock of its own, with
  no await between them. `listing` is the device's entry in the peer
  list with its status, which Discovery resolves and withdraws. History: `told`
  (a disconnect by the user or the idle lock), `lost` (a session lost and nothing has
  settled that yet), `killed` (a session was aborted that ran, or was being entered), `slipped` (an
  abort or a store met a loop whose handle was not in its place).
* **`SessionIdle`**: time. `since` is the age of `last_activity` on each side, and
  each periodic loop has a countdown to its next tick; a unit of time passes
  when no tick is due and no frame overdue. `mail` is the age of the
  oldest frame under way or unread. While the receiver's loop waits for its user to
  answer a request for the log (`busy`) it reads nothing, and frames wait for it beyond
  `Latency`. History: `unused` is the time since the controller's user drove, `cutLive` says that the
  watchdog ended a session that worked.
* **`MacGuard`**: the capture of a relaying Mac, as `RelayGuard` is that of Windows: each
  static, lock and system call is a step. `tap` is where each tap thread is,
  `stops` whose run loop has been told to stop, `muted` which taps the system has disabled.
* **`AtomicConfig`**: the abstract configuration file: mutations one after another, each
  of them whole, an unreadable file counting as blank.
* **`ConfigStore`**: `with_config_mut` as its steps under `CONFIG_LOCK` (load, change,
  write beside, rename), whose write may fail and in the middle of which the program may stop
  and be started again; the settings in memory, every toggle of gaming mode and the
  full-screen detector with its grace period, which looks and switches in steps of its own (`detect`). It refines `AtomicConfig`.
* **`Clipboard`**: the threads that read the controller's clipboard when control is
  taken, the two bounded queues, the limit on frames, and the thread that writes
  the receiver's. A content is its number and the size of its raw image.
* **`ScreenCrossing`**: one crossing and the way back. Desktops are sets of monitors; the
  bounds, the edge test, the entry point and the point of return are the
  functions of `layout.rs` and of its callers, over integers. Until the other side has told
  its size (`sized`) the entry point is computed on the own desktop.
* `MCFocusHandoff`, `MCReturnEdge`, `MCSessionSlot`, `MCScreenCrossing`: small
  instances. `MCParts` (the exchanges, the tracker, the crossing and the Windows capture) and
  `MCTasks` (the slot, the reconnect loop, the clocks, the macOS capture, the file and the
  clipboard) run components that share no state side by side: the first state chooses one,
  so their state spaces add up.
* `SessionSlotProofs`, `FocusHandoffProofs`, `RelayGuardProofs`: theorems about the module
  they are named after. `ReturnEdgeProofs` is also about `ScreenCrossing`; `CounterProofs` about
  `Trackpad` and `SecureChannel`; `TaskProofs` about `ConfigStore`, `Reconnect` and `MacGuard`;
  `PartProofs` about `RelayRooms`, `Pairing`, `FileTransfer`, `LogPull` and their composition in
  `MCParts`; `ClockProofs` about `SessionIdle`, `Clipboard` and the composition in `MCTasks`.

A definition whose comment starts with *Mutation* is not part of a model: it is
a plausible bug in the definition it precedes, which the properties must catch.

## The runs

| run | instance | states | shows |
|---|---|---|---|
| `handover` | no modifiers, both activators, the tray's release, two zones, queues of 2 and 1 | 5.5 M | `NoSwallowedInput` |
| `modifiers` | one modifier, one activator, Escape and the release hotkey | 7.2 M | `HeldCoversReceiver`, `NothingStuckAfterSession` |
| `handover_liveness` | one activator, the release command, fair network loops | 0.8 M | `HandBackCompletes`, `ReleaseArrives`, `LossFreesMouse` |
| `parts` | a screen of 12 pixels with every zone inhabited; three desktops; capture: one taker, one releaser, two threads, one of which may fail; rooms: two creators, two joiners, two codes; a file of up to two chunks; two servers, two phones; two prompts and two clicks; a counter of four numbers and six messages; two pulls in two sessions | 1.9 M | `HandBackNeedsExcursion`, `RefinesZones`; `CrossingIsNamed`; `CaptureHasGuard`, `QuitReachesLoop`, `CursorComesBack`; `NoOrphanRoom`, `EvictionNeedsCollision`, `EveryRoomAnswered`; `DoneIsWhole`, `ConsentFirst`; `OneServer`; `PairedOnYes`, `DecisionHonoured`, `PendingHasPrompt`; `NonceOnce`, `OpensInOrder`; `SharedWithConsent`, `SlotsHaveOwners` |
| `tasks` | two inbound, two outbound, both disconnects, one handshake at a time; one call, two loops of two attempts; clocks of one to three units, a prompt as long as the watchdog's limit; one taker, one releaser, two taps, both faults; two writers; two sync threads, two contents, queues of two | 4.6 M | `ExclusiveUntilStolen`, `RateSlotsBalance`, `InboundNeverSteals`; `OneLoopHeld`, `DisconnectSticks`, `LossIsRetried`, `ConnectedHasSession`; `SilenceIsNotIdleness`; `MacCursorBack`, `LoopsStoppable`; `RefinesAtomic`, `SettingsSettle`; `ClipSettles` |

`parts` and `tasks` also check the type invariants of their components together
(`PartsTypeOK`, `TasksTypeOK`). Seven more runs end in a counterexample; they are listed below.

Deadlock checking is off where the system may really stop: nothing has to
happen while no user does anything.

**Bounds.** The queue bound only has to be reached for `try_send` to drop, and
two commands are what one takeover sends; the code's 512 changes how often, not
what. Every way of giving control up has the same two steps and differs in what it asks
for first and in the timers it sets, so the runs of the handover have one or two of them each; the grab
thread's and another thread's are both there, and the proofs cover all. The receiver's own `relay_active` changes
nothing but whether Kick is enabled, whose effect other ends of the session have too, so `handover` explores it while nothing is
under way (`ReceiverRelaysAtRest`). Modifiers do not interact, so one is enough for a property quantified
over each (the proof covers any number). In the tracker the bands keep their order and
the asymmetry of the right edge (`>= w - 15 - 1` against `> w - 10`); `Reach`
bounds how far the tracked position drifts outside the screen. Two inbound
handlers race for a slot, two outbound sessions overwrite each other's value,
and a handler that is refused, ends or fails may start again, so longer
histories come from the same tasks. A count that leaks or is given back twice
shows with one handshake at a time. The two loops of `tasks` differ in nothing but their names and are
taken as symmetric, which is sound as the run checks safety only. In `parts` one taker and one releaser
already overlap in every way the shared atomics allow, and two threads are one
that goes and one that comes; the proof covers any number. `HideCap` bounds the
depth of `ShowCursor(false)`. With as many codes as creators both the drawing of
the same code and of different ones happen. Two chunks let the file be shorter,
equal and longer than its offer. `Wrap` stands for 2^32 and has to be more than
the number of phones. `CtrMax` stands for 2^64 - 1 and is less than the
messages sent, so the limit is reached. Two handshakes and two answers are an answer
given too late and the prompt it then meets; two pulls and two sessions are a call that gave
up and the one after it, on the same session or on the next. The 60 s, 65 s and
one-minute timers fire at any time: nothing orders those of two machines.
Two loops and one call are a loop, the session inside it and the loop that
follows; two attempts are a last one and one before it, of the code's five. In
`SessionIdle` a ping every unit, a check every one or two and limits of three
keep the order of the code's 5 s, 30 s, 60 s and minutes, and the loops start in
any phase; the assumption is that a ping and its way are shorter than the watchdog's limit. The prompt
lasts as long as that limit, 60 s each in the code. Two
writers are one that holds the lock and one that waits; `Grace` is two polls for
the code's three. Two contents are an older and a newer one; `RawMax` and
`FrameMax` keep the relation of the code's two limits: the largest image that is sent
takes more than a frame, whichever digits it has. The three desktops are one
monitor, two of different heights side by side and one whose second monitor lies to the
left, with negative coordinates.

**Fairness** is weak fairness of the two read loops and of the end of each
session: tokio polls a ready task, and each of these steps is ready until it is
taken. Nothing is assumed of the user, of the network (a broken link need never
be noticed by the receiver except through the end of its own stream) or of the
threads that take control. On the relay server each handler goes on when it can
and its 300 s timer fires; nothing is assumed of the clients.

### Disagreements between the code and what it says

Seven runs end in a counterexample to a statement of the code's own comments or
documentation:

* `stale_return`: the receiver may hand back before it reads the FocusAcquired
  of the takeover; the controller then stops relaying while the receiver becomes
  controlled and is told nothing. Escape, which `protocol.rs` likens this to,
  sends FocusReleased.
* `idle_lock`: the idle auto-lock is to "drop remote control after a period of
  inactivity", by a time of "remote-input activity". Every frame refreshes that time on the
  receiver, the controller's ping every 5 s among them, so the lock never ends a session that works,
  however long nobody drives it.
* `pushback`: the cursor is back at the edge it came in by and control stays.
  FocusAcquired has forgotten the edge that the warp named, and the tracked
  position is not stopped by the edges of the screen as the real cursor is.
* `two_controllers`: the tray's Disconnect frees the slot of an inbound session
  that goes on.
* `capture_dead`: control is released and taken again while the old capture
  thread is still shutting down. Raw input registration and the thread context
  are the process's, so the old thread removes those of the new one: `ACTIVE` is
  set and no thread ships input. No two tasks need to overlap for this.
* `late_share`: `commands.rs` says that a reply which comes late is discarded. If
  another call is waiting by then, it gets that reply: LogShare does not name the request
  it answers. It needs consent all the same (`SharedWithConsent`).
* `large_paste`: sizes are limited where a content is sent, so that "a large paste
  never closes the session on the receiver". For images the limit is on raw bytes, and the
  frame carries these as decimal numbers, two to four characters each: an
  image well below 4,000,000 bytes makes a frame above 2 MiB and ends the session.

Others were met while modelling. No run stands for them; the properties that hold
say where they are excluded.

* A macOS tap that is refused, or that the system disables, stores `ACTIVE = false`
  (`raw_mouse_mac.rs:257`, `266`, `325`), so `deactivate` returns early (182) and the
  cursor stays hidden and detached (`tapFailed` in `MacCursorBack`). A release before the thread
  has stored `TAP_RUNLOOP` (273), or a leaving thread that clears the statics
  of its successor (283), leaves a tap that nobody stops (`tapEarly` in
  `LoopsStoppable`).
* The controller's own `last_activity` is marked when the session starts and not by
  driving the receiver (`client.rs:281`), so its idle lock ends a session in use; `App.tsx:315` then
  speaks of "inactivity".
* While the receiver asks its user about a log, its read loop notes no ping (`server.rs:764`, `911`), and
  the prompt lasts as long as the watchdog's limit: a session that works may be ended (`asked` in
  `SilenceIsNotIdleness`).
* Take Control asks for `connected_peer` only (`commands.rs:155`), which the receiving side has
  too, and relays into nothing there. The edge and the hotkey read `net_tx` (`capture.rs:592`) before they
  switch relaying on (651), and the session may end in between. `capture.rs:588` says that the user's
  cursor would freeze; `LinkedRelays` that there is no third way.
* A whole takeover may run between the two steps of a release (`capture.rs:421` and `423`, and the
  others): FocusReleased then follows the new FocusAcquired, and the controller's input goes to
  nobody until the user releases again (`crossed` in `NoSwallowedInput`).
* A modifier's press may be sent after the end of the session has drained `held_modifiers` and queued its
  releases (`capture.rs:503` and `510`, `client.rs:493`); it is down on the receiver with nobody to release
  it but the receiver itself, when its session ends (`stray` in `HeldCoversReceiver`).
* A capture thread that fails between storing its window's handle and its message loop, or whose
  GetMessageW fails, leaves a handle that `deactivate` posts to when the window is gone
  (`raw_mouse_win.rs:229`, `243`, `255`; `failed` in `QuitReachesLoop`).
* `handle_incoming` discards what the flush of a received file says (`transfer.rs:197`): a file
  reported done may lack its last chunk (`short` in `DoneIsWhole`).
* `abort_reconnect` is called "so it can't race with this session's connect on `connected_peer`"
  (`commands.rs:69`). A loop that is being run when it is aborted goes on from its handshake to its first read
  (`client.rs:266` to `366`) and sets the status, `connected_peer` and `net_tx` on its way, also after a
  disconnect; it dies there, and the device stays listed as connected (`killed`).
* Two desktops exchange width and height and not their origin (`server.rs:399`,
  `client.rs:230`), and the receiver subtracts its own origin from a point
  that never had it added (`server.rs:648`): with a monitor to the left of or above the primary one
  the entry edge is not the one crossed. In a corner the side is named, and pushing
  back through the edge that was crossed does nothing.
* The clipboard's queue is meant to keep the newest content (`lib.rs:375`), and `try_send`
  drops the newest one when it is full (`missed` in `ClipSettles`).
* `force_dial_peer` does not reset the intentional flag, so the loss of a session it opened is not
  dialled again; `auto_reconnect` is a setting that nothing reads.
* A loop that is aborted while its session runs takes the session with it, without
  its cleanup: the device stays listed as connected (`killed` in
  `ConnectedHasSession`).
* Two toggles of gaming mode save their snapshots in any order (`unsaved` in
  `SettingsSettle`).

## The proofs

All theorems hold for every value of the constants that satisfies the
assumptions stated where they are declared: queue bounds of at least one, bands
in the order of the code's thresholds with room between them on the screen, the
sentinel not a device id, tasks of the two kinds apart, a ping and its way shorter than
the watchdog's limit, tasks of a Mac finite in number. A desktop has at least
one and finitely many monitors, each wider and higher by two than the band in which the receiver names
an edge, 10 px in the code (`DesktopAssumption`): `max(1.0)` and `max(0.0)` in `layout.rs`, which guard
against smaller ones, are not modelled.

Every invariant and every action property of the passing runs is the statement of a theorem.

* `SessionSlotProofs`. `ExclusiveUntilStolen` alone is not inductive: the
  history of owners has to be tied to the phases (`OwnerTracks`: while nothing
  is stolen a handler past its claim is the owner, and the owner is such a
  handler or a live outbound session) and a handler past Hello to a peer
  (`PeersKnown`). `SlotInv` is their conjunction with the types. From it follow
  `Exclusive`, `NoInboundSteals` (an action property: no step of an inbound
  handler is the first to overwrite another's value) and, for a machine that only listens,
  `OneControllerInbound`.
* `FocusHandoffProofs`. For the keys the invariant adds that `localHeld` is
  exactly what this session pressed, and that what the receiver will have down
  after reading its queue is covered by `held`, `burst`, `stray` or a release in `inHand`
  (`DownAfter` looks at the last command about a key in the queue; the lemmas
  `DownAfterAppend` and `DownAfterTail` say how sending and reading move it), and that a press still in the
  grab thread's hands is of a key that is in `held` or `stray` (`PressKnown`).
  For the input it adds what holds of a takeover that has sent its warp, and
  where control and pending releases stand in between. Two more theorems are about
  properties that do not hold of the code, and say under which condition they do:
  `StopsTogether` that a stop of the relaying leaves the receiver uncontrolled, or with a FocusReleased
  queued or still to be sent, as long as no FocusAcquired crosses a ReturnToSender (`NeverCross`; by `Returned`, a receiver with a ReturnToSender under
  way is not controlled), and `LinkedRelays` that only a side with a `net_tx` relays as long as no
  takeover is half done when a session ends (`EndsIdle`) and the receiver does not take control.
  `QueuedIsActedOn` is the part of `HandBackCompletes` and `ReleaseArrives` that does not depend on
  fairness: while the sessions and the connection last, a ReturnToSender leaves its queue only by
  stopping the relaying, a FocusReleased only by ending control.
* `ReturnEdgeProofs`. The invariant relates `departed` and the tracker to the
  history of edges left behind. `PixelsRefineZones` maps every step to a step
  of `HandBackZones` or to a stutter; the comparison of bands is done once, in
  lemmas about `ZoneOf`. For the crossing (`CrossingNamed`) the bounds of a desktop are chosen
  as the least and the greatest of finite sets of coordinates; `EndsOfFinite` shows that they exist, from the
  well-founded order of the naturals. `EntryLands` has the entry point on the desktop and in the
  band of the opposite edge, and away from the corners in no other band.
* `RelayGuardProofs`. The three properties are inductive together once the hides
  are counted: every ShowCursor(false) is the one the flag stands for or that of
  a task about to set the flag (`HidesCovered`). That `QuitReachesLoop` is inductive with the handle in
  `deactivate`'s hands rests on the order of the code: taken from `HWND_RAW` first, posted to
  once. `CaptureHasGuard` holds through
  the mutex alone, without any order among the tasks. `CursorBack` needs `Alone`: until two tasks
  overlap or a thread fails, one task acts at a time (`OneTask`) and the hides are counted exactly
  (`HidesExact`). `OneThreadConsumes` says of the finding `capture_dead` when its property does hold: while no thread is started before the last one has gone, the
  registration and the context are those of the one there is (`Consuming`).
* `CounterProofs`. `OneServer` needs to know that the sender in
  `trackpad_shutdown` is the only one not fired or dropped; `CountsPhones` is
  inductive with the types, which keep the count inside its width because there
  are fewer phones than it can count.
  A nonce's number is used once because those used so far are below
  the counter and rise with the calls (`Numbered`); what was opened comes in order
  because the last accepted number is that of the last one opened and the numbers opened
  rise (`Rising`).
* `TaskProofs`. For the file (`StoreInv`): whoever has loaded it holds `CONFIG_LOCK` until
  its copy is in place, so what it replaces is what it has loaded, and
  `FileRefinesAtomic` maps the rename to one mutation and every other step to a stutter. For
  the settings (`SaveInv`): all saves under way carry the settings in use until one is overtaken. For the
  loops (`LoopInv`): a live loop is in `reconnect_handle` or in the hands of the one task that has
  spawned it; a loss is held by a loop that sleeps, dials or returns from its session (`LossHeld`),
  and a disconnect by the flag, with no loop left dialling and every loop that is entering its session
  about to die (`DisconnectHeld`). For the tap (`TapHeld`):
  there is at most one thread on its way, and the static is its. For the cursor (`MacInv`) hides are counted
  as in `RelayGuardProofs`, and while one task acts at a time and no tap fails, whatever is hidden,
  detached or active has a task about to undo it, or the guard (`MacExact`, `MacStarted`, `MacHeld`).
* `ClockProofs`. For the clocks (`IdleInv`): the time since the receiver heard a frame and the
  countdown to the next ping together stay within one period, or a frame is under way that was sent
  within one (`Heard`, unless the frame read last was a request for the log); the watchdog's countdown bounds the silence it has not seen (`Sampled`). For the
  clipboard (`ClipInv`): unless it is noted as missed, the newest content is still with a thread that
  has read it, or it comes last in the queues (`NewestComesLast`). `SmallPastesKeepSession` is the part of
  `LargePasteKeepsSession` that does hold: for images of up to a quarter of the frame limit, 512 KiB.
  `AreasSideBySide` shows that the composition of `MCTasks` takes only steps of its areas, so that every
  theorem about an area is one about the composition, and with it `TasksTypeCorrect`.
* `PartProofs`. Each of these exchanges keeps a one-shot sender somewhere, and the invariant says who
  has it: a creator's in the table under its code or in the hands of one joiner
  (`RoomInv`, from which `RoomsPair`: a joiner meets only a creator whose code it asked
  for); a prompt's in `pending_pairing`, with the answer made for it (`PairInv`); the senders of a log
  pull on both sides (`LogInv`). For the transfer (`TransferInv`) it is the stream that matters: what is
  under way while the receiver writes are the chunks it lacks, of which the last may fail to be written, FileComplete
  comes only behind all of them (`Flow`), and everything past the offer follows from a yes
  (`Consented`). `SideBySide` and `PartsTypeCorrect` are for `MCParts` what `AreasSideBySide` and
  `TasksTypeCorrect` are for `MCTasks`.
* `PlacesBalance` in `SessionSlotProofs`: the count of an address is the number of
  connections from it that are in their handshake, a cardinality that each of the
  paths out of a handshake lowers by one.

Only model-checked are the four liveness properties, `HandBackCompletes`, `ReleaseArrives`,
`LossFreesMouse` and `EveryRoomAnswered`, since the prover has no reasoning about fairness and
ENABLED. Of the seven statements that a run refutes, four have a theorem that says when they hold:
`StopsTogether`, `OneThreadConsumes`, `SmallPastesKeepSession` and, for a machine that only
listens, `OneControllerInbound`. Pushing back, the idle lock and late replies have none: the first two fail in the
course of ordinary use, and of the third nothing short of the statement itself would do.
`LinkedRelays` is about `OnlySendersRelay`, which no run checks: the code breaks it in the two ways listed above.

## What is not modelled

The ciphers and the key exchange, serialisation, the operating systems' input interfaces, the
window system and the user interface. In `FocusHandoff`, mouse buttons and
scrolling follow the path of the keys without being tracked; the listen-only
fallback of Linux, gaming mode's switch and pings are left out. One axis stands
for two in the tracker, whose four edges are tested in sequence: a corner names
the horizontal edge.

`Pairing` has one handshake at a time, as the slot sees to unless it is
stolen (`SessionSlot` shows when). `LogPull` has one direction; the developer
snapshot that is built from a log is left out.

What a connected phone makes the
mouse do is left out, and with it that a button stays pressed when the phone goes away. A transfer is
alone in `FileTransfer`: two of them meet only where
`unique_path` looks for a free name before the file is created. Once two
streams are paired the relay server copies bytes, which `RelayRooms` leaves out.
Paths of `transfer.rs` that return without setting a status leave an entry that
`clear_transfers` keeps; the model has these states and no property speaks of
them, since the code promises nothing about it. The recovery of the cursor at start-up after
a crash is one call into the system. In `ScreenCrossing` the scale factor of a monitor is 1.

The reads of the inbound handshake have no timeout (`server.rs:170`): `SessionSlot` leaves that
wait open, and nothing in the code promises its end.

## What could follow

1. `MacGuard` and `RelayGuard` under `FocusHandoff`: the guard as part of `relay_active`.
2. `SessionIdle` and `Reconnect` together: whose end of a session is dialled again.
3. Two transfers at once, with `unique_path`, and `clear_transfers`.

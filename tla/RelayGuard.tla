----------------------------- MODULE RelayGuard -----------------------------
\* The raw mouse capture of a relaying Windows machine: relay_guard holds a
\* RelayGuard whose activation hides the cursor and starts a thread with a hidden
\* window, and whose drop undoes both.  Any task may take control or release
\* it, each thread goes through its set-up while they do, and the window class
\* and the raw input registration are shared by all threads of the process.
EXTENDS Naturals, FiniteSets

CONSTANTS
  Takers,     \* tasks that take control: edge, hotkey, Take Control
  Releasers,  \* tasks that call set_relaying(false)
  Captures,   \* capture threads alive at once
  Faulty,     \* those of them whose calls of Windows may fail
  HideCap     \* bound on the depth of ShowCursor(false)

Tasks == Takers \cup Releasers
NoCapture == "nothread"

ASSUME GuardAssumption ==
  /\ HideCap \in Nat \ {0} /\ NoCapture \notin Captures
  /\ Faulty \subseteq Captures /\ Takers \cap Releasers = {} /\ IsFiniteSet(Tasks)

VARIABLES
  relayActive,  \* AppState.relay_active
  installed,    \* AppState.relay_guard is Some
  active,       \* ACTIVE
  hwnd,         \* HWND_RAW
  hideFlag,     \* HIDE_CURSOR_ACTIVE
  hidden,       \* calls of ShowCursor(false) not matched yet
  ctx,          \* whose box USER_CTX holds
  step,         \* where each task is
  thread,       \* where each capture thread is
  target,        \* the handle deactivate has taken from HWND_RAW and not posted to yet
  quits,        \* threads with WM_QUIT in their queue
  classKnown,   \* the window class is registered
  sink,         \* the thread whose window raw input goes to
  failed,       \* history: threads that left on an error after storing their handle
  disturbed     \* history: two tasks overlapped, or a thread failed

osVars    == <<quits, classKnown, sink>>
flagVars  == <<active, hwnd, hideFlag, hidden>>
pastVars  == <<failed, disturbed>>
guardVars == <<relayActive, installed, flagVars, ctx, target, step, thread, osVars, pastVars>>

Activating == {"activating", "hiding", "flagging", "spawning", "installing"}
Dropping   == {"deactivating", "taking", "posting", "showing", "unhiding"}
StepNames  == {"idle", "releasing"} \cup Activating \cup Dropping
WithWindow == {"storing", "subscribing", "pumping", "leaving", "destroying", "undoing"}
Failing    == {"undoing", "undone", "clearing", "unclassing", "disowning", "aborting"}
Stages     == {"free", "spawned", "registering", "creating", "destroyed", "cleaning"}
              \cup WithWindow \cup Failing

\* Every variable has a value the code can give it (state.rs:376, raw_mouse_win.rs:83).
GuardTypeOK ==
  /\ {relayActive, installed, active, hideFlag, classKnown, disturbed} \subseteq BOOLEAN
  /\ {hwnd, target, ctx, sink} \subseteq Captures \cup {NoCapture}
  /\ hidden \in 0..HideCap
  /\ step \in [Tasks -> StepNames] /\ thread \in [Captures -> Stages]
  /\ quits \subseteq Captures /\ failed \subseteq Captures

GuardInit ==
  /\ relayActive = FALSE /\ installed = FALSE /\ active = FALSE /\ hideFlag = FALSE
  /\ hwnd = NoCapture /\ target = NoCapture /\ ctx = NoCapture /\ sink = NoCapture /\ hidden = 0
  /\ step = [t \in Tasks |-> "idle"] /\ thread = [c \in Captures |-> "free"]
  /\ quits = {} /\ classKnown = FALSE /\ failed = {} /\ disturbed = FALSE

TaskTo(t, s)   == step' = [step EXCEPT ![t] = s]
ThreadTo(c, s) == thread' = [thread EXCEPT ![c] = s]
Begins(t)  == step[t] = "idle" /\ disturbed' = (disturbed \/ \E u \in Tasks : step[u] # "idle")

\* The mutex of relay_guard: a guard is dropped while it is held.
Locked == \E t \in Tasks : step[t] \in Dropping

\* set_relaying(true), then RelayGuard::activate.
Take(t) ==
  /\ Begins(t) /\ relayActive' = TRUE /\ TaskTo(t, "activating")
  /\ UNCHANGED <<installed, flagVars, ctx, target, thread, osVars, failed>>

\* ACTIVE.swap(true): a second activation returns a guard without a capture.
SwapActive(t) ==
  /\ step[t] = "activating" /\ active' = TRUE
  /\ TaskTo(t, IF active THEN "installing" ELSE "hiding")
  /\ UNCHANGED <<relayActive, installed, hwnd, hideFlag, hidden, ctx, target, thread, osVars, pastVars>>

\* The cursor is hidden when the setting says so, and then flagged as hidden.
Hide(t) ==
  /\ step[t] = "hiding" /\ hidden < HideCap
  /\ \/ hidden' = hidden + 1 /\ TaskTo(t, "flagging")
     \/ hidden' = hidden /\ TaskTo(t, "spawning")
  /\ UNCHANGED <<relayActive, installed, active, hwnd, hideFlag, ctx, target, thread, osVars, pastVars>>

Flag(t) ==
  /\ step[t] = "flagging" /\ hideFlag' = TRUE /\ TaskTo(t, "spawning")
  /\ UNCHANGED <<relayActive, installed, active, hwnd, hidden, ctx, target, thread, osVars, pastVars>>

Spawn(t) ==
  /\ step[t] = "spawning" /\ TaskTo(t, "installing")
  /\ \E c \in Captures : thread[c] = "free" /\ ThreadTo(c, "spawned")
  /\ UNCHANGED <<relayActive, installed, flagVars, ctx, target, osVars, pastVars>>

\* The new guard takes the place of an older one, which is dropped.
Install(t) ==
  /\ step[t] = "installing" /\ ~Locked /\ installed' = TRUE
  /\ TaskTo(t, IF installed THEN "deactivating" ELSE "idle")
  /\ UNCHANGED <<relayActive, flagVars, ctx, target, thread, osVars, pastVars>>

\* set_relaying(false) stores the flag, then drops the guard.
Release(t) ==
  /\ Begins(t) /\ relayActive' = FALSE /\ TaskTo(t, "releasing")
  /\ UNCHANGED <<installed, flagVars, ctx, target, thread, osVars, failed>>

\* Mutation: the guard is taken out without its Drop being run.
DropGuardForgets(t) ==
  /\ step[t] = "releasing" /\ ~Locked /\ installed' = FALSE
  /\ TaskTo(t, "idle")
  /\ UNCHANGED <<relayActive, flagVars, ctx, target, thread, osVars, pastVars>>

DropGuard(t) ==
  /\ step[t] = "releasing" /\ ~Locked /\ installed' = FALSE
  /\ TaskTo(t, IF installed THEN "deactivating" ELSE "idle")
  /\ UNCHANGED <<relayActive, flagVars, ctx, target, thread, osVars, pastVars>>

Deactivate(t) ==
  /\ step[t] = "deactivating" /\ active' = FALSE
  /\ TaskTo(t, IF active THEN "taking" ELSE "idle")
  /\ UNCHANGED <<relayActive, installed, hwnd, hideFlag, hidden, ctx, target, thread, osVars, pastVars>>

\* Mutation: the handle is read and left in HWND_RAW.
TakeKeepsHandle(t) ==
  /\ step[t] = "taking" /\ TaskTo(t, "posting") /\ target' = hwnd
  /\ UNCHANGED <<relayActive, installed, flagVars, ctx, thread, osVars, pastVars>>

\* HWND_RAW.swap(0).  There is one at a time: deactivate runs under the mutex.
TakeHandle(t) ==
  /\ step[t] = "taking" /\ TaskTo(t, "posting") /\ target' = hwnd /\ hwnd' = NoCapture
  /\ UNCHANGED <<relayActive, installed, active, hideFlag, hidden, ctx, thread, osVars, pastVars>>

\* PostMessageW(WM_QUIT) reaches the thread of a window that exists and fails otherwise.
Post(t) ==
  /\ step[t] = "posting" /\ TaskTo(t, "showing") /\ target' = NoCapture
  /\ quits' = quits \cup {c \in Captures : c = target /\ thread[c] \in WithWindow}
  /\ UNCHANGED <<relayActive, installed, flagVars, ctx, thread, classKnown, sink, pastVars>>

\* HIDE_CURSOR_ACTIVE.swap(false), then ShowCursor(true) if it was set.
Show(t) ==
  /\ step[t] = "showing" /\ TaskTo(t, IF hideFlag THEN "unhiding" ELSE "idle")
  /\ hideFlag' = FALSE
  /\ UNCHANGED <<relayActive, installed, active, hwnd, hidden, ctx, target, thread, osVars, pastVars>>

\* Mutation: the flag is cleared and the cursor stays hidden.
UnhideNever(t) ==
  /\ step[t] = "unhiding" /\ TaskTo(t, "idle") /\ hidden' = hidden
  /\ UNCHANGED <<relayActive, installed, active, hwnd, hideFlag, ctx, target, thread, osVars, pastVars>>

Unhide(t) ==
  /\ step[t] = "unhiding" /\ TaskTo(t, "idle") /\ hidden' = hidden - 1
  /\ UNCHANGED <<relayActive, installed, active, hwnd, hideFlag, ctx, target, thread, osVars, pastVars>>

\* run_raw_input_thread: the context, the class, the window, its handle in
\* HWND_RAW, the registration, the message loop; then all of it undone.
SetContext(c) ==
  /\ thread[c] = "spawned" /\ ctx' = c /\ ThreadTo(c, "registering")
  /\ UNCHANGED <<relayActive, installed, flagVars, target, step, osVars, pastVars>>

\* Without a module handle the thread gives up.
RegisterClass(c) ==
  /\ thread[c] = "registering"
  /\ \/ classKnown' = TRUE /\ ThreadTo(c, "creating") /\ UNCHANGED disturbed
     \/ c \in Faulty /\ disturbed' = TRUE /\ ThreadTo(c, "disowning") /\ UNCHANGED classKnown
  /\ UNCHANGED <<relayActive, installed, flagVars, ctx, target, step, quits, sink, failed>>

CreateWindow(c) ==
  /\ thread[c] = "creating"
  /\ \/ classKnown /\ ThreadTo(c, "storing") /\ UNCHANGED disturbed
     \/ /\ c \in Faulty \/ ~classKnown
        /\ disturbed' = TRUE /\ ThreadTo(c, "unclassing")
  /\ UNCHANGED <<relayActive, installed, flagVars, ctx, target, step, osVars, failed>>

StoreHandle(c) ==
  /\ thread[c] = "storing" /\ hwnd' = c /\ ThreadTo(c, "subscribing")
  /\ UNCHANGED <<relayActive, installed, active, hideFlag, hidden, ctx, target, step, osVars, pastVars>>

\* A failure with the handle in HWND_RAW already.
Fails(c, s) == c \in Faulty /\ ThreadTo(c, s) /\ failed' = failed \cup {c} /\ disturbed' = TRUE

Subscribe(c) ==
  /\ thread[c] = "subscribing"
  /\ \/ sink' = c /\ ThreadTo(c, "pumping") /\ UNCHANGED pastVars
     \/ Fails(c, "undoing") /\ UNCHANGED sink
  /\ UNCHANGED <<relayActive, installed, flagVars, ctx, target, step, quits, classKnown>>

\* Leaving the loop: on WM_QUIT, or because GetMessageW failed.
Quit(c) ==
  /\ thread[c] = "pumping"
  /\ \/ c \in quits /\ quits' = quits \ {c} /\ ThreadTo(c, "leaving") /\ UNCHANGED pastVars
     \/ Fails(c, "leaving") /\ UNCHANGED quits
  /\ UNCHANGED <<relayActive, installed, flagVars, ctx, target, step, classKnown, sink>>

\* RIDEV_REMOVE is for the process, whichever window is registered.
Unsubscribe(c) ==
  /\ thread[c] = "leaving" /\ sink' = NoCapture /\ ThreadTo(c, "destroying")
  /\ UNCHANGED <<relayActive, installed, flagVars, ctx, target, step, quits, classKnown, pastVars>>

DestroyWindow(c) ==
  /\ \/ thread[c] = "destroying" /\ ThreadTo(c, "destroyed")
     \/ thread[c] = "undoing" /\ ThreadTo(c, "undone")
  /\ UNCHANGED <<relayActive, installed, flagVars, ctx, target, step, osVars, pastVars>>

\* UnregisterClassW does nothing while a window of the class exists.
UnregisterClass(c) ==
  /\ \/ thread[c] = "destroyed" /\ ThreadTo(c, "cleaning")
     \/ thread[c] = "undone" /\ ThreadTo(c, "clearing")
     \/ thread[c] = "unclassing" /\ ThreadTo(c, "disowning")
  /\ classKnown' = (classKnown /\ \E d \in Captures : thread[d] \in WithWindow)
  /\ UNCHANGED <<relayActive, installed, flagVars, ctx, target, step, quits, sink, pastVars>>

\* HWND_RAW.store(0), whoever's handle is there by now.
ClearHandle(c) ==
  /\ thread[c] = "clearing" /\ hwnd' = NoCapture /\ ThreadTo(c, "disowning")
  /\ UNCHANGED <<relayActive, installed, active, hideFlag, hidden, ctx, target, step, osVars, pastVars>>

\* cleanup_user_ctx takes whatever context is there.
CleanContext(c) ==
  /\ ctx' = NoCapture
  /\ \/ thread[c] = "cleaning" /\ ThreadTo(c, "free") /\ quits' = quits \ {c}
     \/ thread[c] = "disowning" /\ ThreadTo(c, "aborting") /\ UNCHANGED quits
  /\ UNCHANGED <<relayActive, installed, flagVars, target, step, classKnown, sink, pastVars>>

\* A thread that could not start clears ACTIVE, whoever has set it.
Abort(c) ==
  /\ thread[c] = "aborting" /\ active' = FALSE /\ ThreadTo(c, "free") /\ quits' = quits \ {c}
  /\ UNCHANGED <<relayActive, installed, hwnd, hideFlag, hidden, ctx, target, step, classKnown, sink,
                 pastVars>>

Activate(t) == SwapActive(t) \/ Hide(t) \/ Flag(t) \/ Spawn(t) \/ Install(t)
Drop(t)     ==
  \/ DropGuard(t) \/ Deactivate(t) \/ TakeHandle(t) \/ Post(t) \/ Show(t) \/ Unhide(t)
Capture(c)  ==
  \/ SetContext(c) \/ RegisterClass(c) \/ CreateWindow(c) \/ StoreHandle(c)
  \/ Subscribe(c) \/ Quit(c) \/ Unsubscribe(c) \/ DestroyWindow(c) \/ UnregisterClass(c)
  \/ ClearHandle(c) \/ CleanContext(c) \/ Abort(c)

GuardNext ==
  \/ \E t \in Takers : Take(t)
  \/ \E t \in Releasers : Release(t)
  \/ \E t \in Tasks : Activate(t) \/ Drop(t)
  \/ \E c \in Captures : Capture(c)

GuardSpec == GuardInit /\ [][GuardNext]_guardVars

-----------------------------------------------------------------------------
\* While ACTIVE is set some guard can still clear it: it is installed, on its way
\* in, or being dropped.  Otherwise no release path would end the capture,
\* whichever of them the user takes (state.rs:544).
CaptureHasGuard ==
  active => installed \/ \E t \in Tasks :
                step[t] \in (Activating \ {"activating"}) \cup {"deactivating"}

\* A window's handle is in HWND_RAW, in deactivate's hands or in WM_QUIT's queue, and only
\* while its thread is in its message loop or about to enter it: whatever
\* releases, takeovers and errors of other threads come in between, no handle outlives its loop and
\* none is posted to twice, except of a thread that itself left on an error of
\* RegisterRawInputDevices or GetMessageW (raw_mouse_win.rs:251, "pump messages
\* until WM_QUIT (posted by deactivate())").
QuitReachesLoop ==
  \A c \in Captures \ failed :
    /\ c \in quits \/ c = hwnd \/ c = target => thread[c] \in {"subscribing", "pumping"}
    /\ ~(c \in quits /\ c = hwnd) /\ ~(c = hwnd /\ c = target) /\ ~(c \in quits /\ c = target)

Quiet == \A t \in Tasks : step[t] = "idle"

\* The cursor is never shown more often than it was hidden, and is visible again
\* once control is released, if no two tasks overlapped and every capture
\* thread came up (raw_mouse_win.rs:127).
CursorComesBack ==
  /\ hideFlag => hidden > 0
  /\ Quiet /\ ~relayActive /\ ~disturbed => hidden = 0 /\ ~active

\* ACTIVE is "set while the Raw Input thread is alive and consuming events"
\* (raw_mouse_win.rs:81): when nothing is under way, and no two tasks have ever
\* overlapped, some thread receives raw input and has a context to ship it with.
ActiveConsumes ==
  /\ active /\ ~disturbed /\ Quiet /\ \A c \in Captures : thread[c] \in {"free", "pumping"}
  => ctx # NoCapture /\ \E c \in Captures : thread[c] = "pumping" /\ sink = c

=============================================================================

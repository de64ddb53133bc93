------------------------------ MODULE MacGuard ------------------------------
\* The raw mouse capture of a relaying Mac: activation decouples the cursor from
\* the mouse, hides it and starts a thread that owns an event tap and the run loop
\* that feeds it; dropping the guard is to undo the three.  Tasks take control and
\* release it while the thread comes up or goes down, the tap may not be granted,
\* and the system may disable it later.  The cursor calls themselves succeed.
EXTENDS Naturals, FiniteSets

CONSTANTS
  MacTakers,    \* tasks that take control
  MacReleasers, \* tasks that call set_relaying(false)
  Taps,         \* tap threads alive at once
  TapFaults,    \* what the system may do: "denied", "policy"
  MacHideCap    \* bound on the depth of CGDisplayHideCursor

MacTasks == MacTakers \cup MacReleasers
NoTap == "notap"

ASSUME MacAssumption ==
  /\ MacHideCap \in Nat \ {0} /\ NoTap \notin Taps
  /\ MacTakers \cap MacReleasers = {} /\ IsFiniteSet(MacTasks)
  /\ TapFaults \subseteq {"denied", "policy"}

VARIABLES
  macRelay,  \* AppState.relay_active
  guarded,   \* AppState.relay_guard is Some
  tapActive, \* ACTIVE
  tapLoop,   \* TAP_RUNLOOP: whose run loop it holds
  tapPort,   \* TAP_PORT: whose port it holds
  hideOn,    \* HIDE_CURSOR_ACTIVE
  macHidden, \* hides not matched by a show yet
  detached,  \* the cursor is decoupled from the mouse
  macStep,   \* where each task is
  tap,       \* where each tap thread is
  stops,     \* threads whose run loop has been told to stop
  muted,     \* taps the system has disabled
  tapFailed, \* history: a tap was not granted, or was disabled by policy
  macMet,    \* history: two tasks overlapped
  tapEarly   \* history: a release or an activation came while a thread was coming up or going down

curVars  == <<hideOn, macHidden, detached>>
tapVars  == <<tapActive, tapLoop, tapPort, tap, stops, muted>>
histVars == <<tapFailed, macMet, tapEarly>>
macVars  == <<macRelay, guarded, macStep, curVars, tapVars, histVars>>

MacActivating == {"swapping", "detaching", "hiding", "flagging", "spawning", "installing"}
MacDropping   == {"deactivating", "stopping", "unporting", "showing", "attaching"}
TapStages     == {"free", "spawned", "opened", "filed", "running", "leaving", "closing"}

\* Every variable has a value the code can give it (raw_mouse_mac.rs:92-121).
MacTypeOK ==
  /\ {macRelay, guarded, tapActive, hideOn, detached, tapFailed, macMet, tapEarly} \subseteq BOOLEAN
  /\ {tapLoop, tapPort} \subseteq Taps \cup {NoTap}
  /\ macHidden \in 0 .. MacHideCap
  /\ macStep \in [MacTasks -> {"idle", "releasing"} \cup MacActivating \cup MacDropping]
  /\ tap \in [Taps -> TapStages] /\ stops \subseteq Taps /\ muted \subseteq Taps

MacInit ==
  /\ macRelay = FALSE /\ guarded = FALSE /\ tapActive = FALSE
  /\ tapLoop = NoTap /\ tapPort = NoTap
  /\ hideOn = FALSE /\ macHidden = 0 /\ detached = FALSE
  /\ macStep = [t \in MacTasks |-> "idle"] /\ tap = [c \in Taps |-> "free"]
  /\ stops = {} /\ muted = {} /\ tapFailed = FALSE /\ macMet = FALSE /\ tapEarly = FALSE

StepTo(t, s) == macStep' = [macStep EXCEPT ![t] = s]
TapTo(c, s)  == tap' = [tap EXCEPT ![c] = s]
Starts(t)    == macStep[t] = "idle" /\ macMet' = (macMet \/ \E u \in MacTasks : macStep[u] # "idle")

\* The mutex of relay_guard is held while a guard is dropped.
Dropped == \E t \in MacTasks : macStep[t] \in MacDropping

-----------------------------------------------------------------------------
(* Taking control: set_relaying(true), RelayGuard::activate, the guard stored. *)

TakeMac(t) ==
  /\ Starts(t) /\ macRelay' = TRUE /\ StepTo(t, "swapping")
  /\ UNCHANGED <<guarded, curVars, tapVars, tapFailed, tapEarly>>

\* A second activation returns a guard and does nothing else.
SwapOn(t) ==
  /\ macStep[t] = "swapping" /\ tapActive' = TRUE
  /\ StepTo(t, IF tapActive THEN "installing" ELSE "detaching")
  /\ UNCHANGED <<macRelay, guarded, curVars, tapLoop, tapPort, tap, stops, muted, histVars>>

Detach(t) ==
  /\ macStep[t] = "detaching" /\ detached' = TRUE /\ StepTo(t, "hiding")
  /\ UNCHANGED <<macRelay, guarded, hideOn, macHidden, tapVars, histVars>>

\* The setting may leave the cursor visible.
HideMac(t) ==
  /\ macStep[t] = "hiding" /\ macHidden < MacHideCap
  /\ \/ macHidden' = macHidden + 1 /\ StepTo(t, "flagging")
     \/ UNCHANGED macHidden /\ StepTo(t, "spawning")
  /\ UNCHANGED <<macRelay, guarded, hideOn, detached, tapVars, histVars>>

FlagMac(t) ==
  /\ macStep[t] = "flagging" /\ hideOn' = TRUE /\ StepTo(t, "spawning")
  /\ UNCHANGED <<macRelay, guarded, macHidden, detached, tapVars, histVars>>

SpawnTap(t) ==
  /\ macStep[t] = "spawning" /\ StepTo(t, "installing")
  /\ tapEarly' = (tapEarly \/ \E c \in Taps : tap[c] # "free")
  /\ \E c \in Taps : tap[c] = "free" /\ TapTo(c, "spawned")
  /\ UNCHANGED <<macRelay, guarded, curVars, tapActive, tapLoop, tapPort, stops, muted, tapFailed, macMet>>

\* The guard that was there before is dropped, and its Drop deactivates.
InstallMac(t) ==
  /\ macStep[t] = "installing" /\ ~Dropped /\ guarded' = TRUE
  /\ StepTo(t, IF guarded THEN "deactivating" ELSE "idle")
  /\ UNCHANGED <<macRelay, curVars, tapVars, histVars>>

-----------------------------------------------------------------------------
(* Releasing it: set_relaying(false), and deactivate in the guard's Drop.      *)

ReleaseMac(t) ==
  /\ Starts(t) /\ macRelay' = FALSE /\ StepTo(t, "releasing")
  /\ UNCHANGED <<guarded, curVars, tapVars, tapFailed, tapEarly>>

TakeGuard(t) ==
  /\ macStep[t] = "releasing" /\ ~Dropped /\ guarded' = FALSE
  /\ StepTo(t, IF guarded THEN "deactivating" ELSE "idle")
  /\ UNCHANGED <<macRelay, curVars, tapVars, histVars>>

\* Nothing is undone when ACTIVE is already off.
SwapOff(t) ==
  /\ macStep[t] = "deactivating" /\ tapActive' = FALSE
  /\ StepTo(t, IF tapActive THEN "stopping" ELSE "idle")
  /\ UNCHANGED <<macRelay, guarded, curVars, tapLoop, tapPort, tap, stops, muted, histVars>>

\* TAP_RUNLOOP.take(), and CFRunLoopStop on what was there.
TakeLoop == tapLoop' = NoTap /\ stops' = stops \cup ({tapLoop} \ {NoTap})

StopLoop(t) ==
  /\ macStep[t] = "stopping" /\ TakeLoop /\ StepTo(t, "unporting")
  /\ tapEarly' = (tapEarly \/ \E c \in Taps : tap[c] \notin {"free", "running"})
  /\ UNCHANGED <<macRelay, guarded, curVars, tapActive, tapPort, tap, muted, tapFailed, macMet>>

\* The tap lives on as long as the run loop holds its source.
DropPort(t) ==
  /\ macStep[t] = "unporting" /\ tapPort' = NoTap /\ StepTo(t, "showing")
  /\ UNCHANGED <<macRelay, guarded, curVars, tapActive, tapLoop, tap, stops, muted, histVars>>

\* Mutation: the setting is asked instead of the flag.
ShowBySetting(t) ==
  /\ macStep[t] = "showing" /\ hideOn' = FALSE
  /\ macHidden' \in {macHidden, IF hideOn THEN macHidden - 1 ELSE macHidden}
  /\ StepTo(t, "attaching")
  /\ UNCHANGED <<macRelay, guarded, detached, tapVars, histVars>>

ShowMac(t) ==
  /\ macStep[t] = "showing" /\ hideOn' = FALSE
  /\ macHidden' = IF hideOn THEN macHidden - 1 ELSE macHidden
  /\ StepTo(t, "attaching")
  /\ UNCHANGED <<macRelay, guarded, detached, tapVars, histVars>>

Attach(t) ==
  /\ macStep[t] = "attaching" /\ detached' = FALSE /\ StepTo(t, "idle")
  /\ UNCHANGED <<macRelay, guarded, hideOn, macHidden, tapVars, histVars>>

-----------------------------------------------------------------------------
(* run_tap_thread and the callback it runs.                                    *)

OpenTap(c) ==
  /\ tap[c] = "spawned" /\ TapTo(c, "opened")
  /\ UNCHANGED <<macRelay, guarded, macStep, curVars, tapActive, tapLoop, tapPort, stops, muted, histVars>>

\* No permission, or no run loop source: ACTIVE goes off, whoever has set it.
DenyTap(c) ==
  /\ "denied" \in TapFaults /\ tap[c] = "spawned" /\ TapTo(c, "free")
  /\ tapActive' = FALSE /\ tapFailed' = TRUE
  /\ UNCHANGED <<macRelay, guarded, macStep, curVars, tapLoop, tapPort, stops, muted, macMet, tapEarly>>

FileLoop(c) ==
  /\ tap[c] = "opened" /\ tapLoop' = c /\ TapTo(c, "filed")
  /\ UNCHANGED <<macRelay, guarded, macStep, curVars, tapActive, tapPort, stops, muted, histVars>>

\* The port is stored and the loop runs; a stop that came before may be lost.
RunLoop(c) ==
  /\ tap[c] = "filed" /\ tapPort' = c /\ TapTo(c, "running")
  /\ stops' \in {stops, stops \ {c}}
  /\ UNCHANGED <<macRelay, guarded, macStep, curVars, tapActive, tapLoop, muted, histVars>>

LeaveLoop(c) ==
  /\ tap[c] = "running" /\ c \in stops /\ TapTo(c, "leaving")
  /\ stops' = stops \ {c} /\ muted' = muted \ {c}
  /\ UNCHANGED <<macRelay, guarded, macStep, curVars, tapActive, tapLoop, tapPort, histVars>>

\* The thread clears both statics, whoever's they are by then.
ForgetLoop(c) ==
  /\ tap[c] = "leaving" /\ tapLoop' = NoTap /\ TapTo(c, "closing")
  /\ UNCHANGED <<macRelay, guarded, macStep, curVars, tapActive, tapPort, stops, muted, histVars>>

ForgetPort(c) ==
  /\ tap[c] = "closing" /\ tapPort' = NoTap /\ TapTo(c, "free")
  /\ UNCHANGED <<macRelay, guarded, macStep, curVars, tapActive, tapLoop, stops, muted, histVars>>

\* Disabled for being slow: the port in TAP_PORT is enabled again.
TimedOut(c) ==
  /\ tap[c] = "running" /\ c \notin muted
  /\ muted' = (muted \cup {c}) \ {tapPort}
  /\ UNCHANGED <<macRelay, guarded, macStep, curVars, tapActive, tapLoop, tapPort, tap, stops, histVars>>

\* Mutation: the branch only turns ACTIVE off.
PolicyKeepsLoop(c) ==
  /\ "policy" \in TapFaults /\ tap[c] = "running" /\ c \notin muted
  /\ muted' = muted \cup {c} /\ tapActive' = FALSE /\ tapFailed' = TRUE /\ tapLoop' = NoTap
  /\ UNCHANGED <<macRelay, guarded, macStep, curVars, tapPort, tap, stops, macMet, tapEarly>>

\* Disabled by policy: ACTIVE goes off and the loop in TAP_RUNLOOP is stopped.
DisabledByPolicy(c) ==
  /\ "policy" \in TapFaults /\ tap[c] = "running" /\ c \notin muted
  /\ muted' = muted \cup {c} /\ tapActive' = FALSE /\ tapFailed' = TRUE /\ TakeLoop
  /\ UNCHANGED <<macRelay, guarded, macStep, curVars, tapPort, tap, macMet, tapEarly>>

ActivateMac(t) ==
  \/ SwapOn(t) \/ Detach(t) \/ HideMac(t) \/ FlagMac(t) \/ SpawnTap(t) \/ InstallMac(t)
DropMac(t) ==
  \/ TakeGuard(t) \/ SwapOff(t) \/ StopLoop(t) \/ DropPort(t) \/ ShowMac(t) \/ Attach(t)
TapThread(c) ==
  \/ OpenTap(c) \/ DenyTap(c) \/ FileLoop(c) \/ RunLoop(c) \/ LeaveLoop(c)
  \/ ForgetLoop(c) \/ ForgetPort(c) \/ TimedOut(c) \/ DisabledByPolicy(c)

MacNext ==
  \/ \E t \in MacTakers : TakeMac(t)
  \/ \E t \in MacReleasers : ReleaseMac(t)
  \/ \E t \in MacTasks : ActivateMac(t) \/ DropMac(t)
  \/ \E c \in Taps : TapThread(c)

MacSpec == MacInit /\ [][MacNext]_macVars

-----------------------------------------------------------------------------
MacQuiet == \A t \in MacTasks : macStep[t] = "idle"
\* Dropping the guard "guarantees cursor re-association + show + tap teardown" (raw_mouse_mac.rs:124): once control is
\* released, the cursor is shown as often as it was hidden, whatever the setting is by then, and follows
\* the mouse again, when tasks do not overlap and no tap has failed (raw_mouse_mac.rs:178).
MacCursorBack ==
  /\ hideOn => macHidden > 0
  /\ MacQuiet /\ ~macRelay /\ ~macMet /\ ~tapFailed => macHidden = 0 /\ ~detached /\ ~tapActive

\* While no release and no activation has come upon a thread on its way up or down, every running loop
\* can be stopped: it is in TAP_RUNLOOP or has been told already.  Otherwise its tap
\* would swallow the mouse for good (raw_mouse_mac.rs:94, 190, 283, 326).
LoopsStoppable ==
  ~tapEarly => \A c \in Taps : tap[c] = "running" => c = tapLoop \/ c \in stops

=============================================================================

-------------------------- MODULE RelayGuardProofs --------------------------
\* Theorems about the raw mouse capture, for any tasks and any capture threads.
\* One invariant carries them: besides the properties it counts the hides a
\* ShowCursor(true) may still be owed for, and says how exactly while one task at
\* a time acts.  ActiveConsumes, which the code can break, is proved of the runs in which
\* no thread is started before the last one has gone.
EXTENDS RelayGuard, FiniteSetTheorems, TLAPS

\* Tasks that hid the cursor and have still to set the flag, or have cleared it and
\* are about to show the cursor.
Owing == {t \in Tasks : step[t] \in {"flagging", "unhiding"}}

\* Every hide is the one the flag stands for, or that of a task with it in its hands.
HidesCovered == Cardinality(Owing) + (IF hideFlag THEN 1 ELSE 0) <= hidden

\* What holds until two tasks overlap or a thread fails to start: one task
\* takes its steps at a time, every hide is accounted for exactly, and ACTIVE is
\* down whenever control has been released and the release has run.
OneTask     == \A t, u \in Tasks : step[t] # "idle" /\ step[u] # "idle" => t = u
Undone      == {"taking", "posting", "showing", "unhiding"}
Undoing     == \E t \in Tasks : step[t] \in Undone
HidesExact  ==
  /\ hidden = Cardinality(Owing) + (IF hideFlag THEN 1 ELSE 0)
  /\ hideFlag => active \/ Undoing
  /\ \A t \in Tasks : /\ step[t] \in {"hiding", "flagging"} => active /\ ~hideFlag
                      /\ step[t] = "unhiding" => ~hideFlag
ActiveEnds  ==
  /\ \A t \in Tasks : step[t] \in Activating => relayActive
  /\ Undoing => ~active
  /\ Quiet /\ ~relayActive => ~active
NoneAborts  == \A c \in Captures : thread[c] \notin Failing
Alone       == ~disturbed => OneTask /\ HidesExact /\ ActiveEnds /\ NoneAborts

\* A thread that is gone has no queue.
QuietWhenFree == \A c \in Captures : thread[c] = "free" => c \notin quits

GuardInv ==
  GuardTypeOK /\ QuitReachesLoop /\ QuietWhenFree /\ HidesCovered /\ CaptureHasGuard /\ Alone

LEMMA OwingFinite == IsFiniteSet(Owing) /\ Cardinality(Owing) \in Nat
BY GuardAssumption, FS_Subset, FS_CardinalityType DEF Owing

-----------------------------------------------------------------------------
\* Every step of a task or of a thread keeps the types; Unhide, because what it undoes
\* has been counted.
LEMMA TypeStep ==
  GuardTypeOK /\ HidesCovered /\ [GuardNext]_guardVars => GuardTypeOK'
<1> SUFFICES ASSUME GuardTypeOK, HidesCovered, [GuardNext]_guardVars PROVE GuardTypeOK'
  OBVIOUS
<1> USE GuardAssumption DEF GuardTypeOK, TaskTo, ThreadTo, Begins, Tasks,
      Activating, Dropping, StepNames, WithWindow, Failing, Stages, Fails, flagVars, osVars, pastVars
<1>1. ASSUME NEW t \in Takers, Take(t) PROVE GuardTypeOK'
  BY <1>1 DEF Take
<1>2. ASSUME NEW t \in Releasers, Release(t) PROVE GuardTypeOK'
  BY <1>2 DEF Release
<1>3. ASSUME NEW t \in Tasks, Activate(t) PROVE GuardTypeOK'
  <2>1. CASE SwapActive(t)  BY <2>1 DEF SwapActive
  <2>2. CASE Hide(t)        BY <2>2 DEF Hide
  <2>3. CASE Flag(t)        BY <2>3 DEF Flag
  <2>4. CASE Spawn(t)       BY <2>4 DEF Spawn
  <2>5. CASE Install(t)     BY <2>5 DEF Install
  <2> QED BY <1>3, <2>1, <2>2, <2>3, <2>4, <2>5 DEF Activate
<1>4. ASSUME NEW t \in Tasks, Drop(t) PROVE GuardTypeOK'
  <2>1. CASE DropGuard(t)   BY <2>1 DEF DropGuard
  <2>2. CASE Deactivate(t)  BY <2>2 DEF Deactivate
  <2>3. CASE TakeHandle(t)  BY <2>3 DEF TakeHandle
  <2>4. CASE Post(t)        BY <2>4 DEF Post
  <2>5. CASE Show(t)        BY <2>5 DEF Show
  <2>6. CASE Unhide(t)
    <3>1. t \in Owing
      BY <2>6 DEF Unhide, Owing
    <3>2. Cardinality(Owing) # 0
      BY <3>1, OwingFinite, FS_EmptySet
    <3>3. hidden' \in 0..HideCap
      BY <2>6, <3>2, OwingFinite DEF Unhide, HidesCovered
    <3> QED BY <2>6, <3>3 DEF Unhide
  <2> QED BY <1>4, <2>1, <2>2, <2>3, <2>4, <2>5, <2>6 DEF Drop
<1>5. ASSUME NEW c \in Captures, Capture(c) PROVE GuardTypeOK'
  <2>1. CASE SetContext(c)     BY <2>1 DEF SetContext
  <2>2. CASE RegisterClass(c)  BY <2>2 DEF RegisterClass
  <2>3. CASE CreateWindow(c)   BY <2>3 DEF CreateWindow
  <2>4. CASE StoreHandle(c)    BY <2>4 DEF StoreHandle
  <2>5. CASE Subscribe(c)      BY <2>5 DEF Subscribe
  <2>6. CASE Quit(c)           BY <2>6 DEF Quit
  <2>7. CASE Unsubscribe(c)    BY <2>7 DEF Unsubscribe
  <2>8. CASE DestroyWindow(c)  BY <2>8 DEF DestroyWindow
  <2>9. CASE UnregisterClass(c)  BY <2>9 DEF UnregisterClass
  <2>10. CASE ClearHandle(c)   BY <2>10 DEF ClearHandle
  <2>11. CASE CleanContext(c)  BY <2>11 DEF CleanContext
  <2>12. CASE Abort(c)         BY <2>12 DEF Abort
  <2> QED
    BY <1>5, <2>1, <2>2, <2>3, <2>4, <2>5, <2>6, <2>7, <2>8, <2>9, <2>10, <2>11, <2>12 DEF Capture
<1>6. CASE UNCHANGED guardVars
  BY <1>6 DEF guardVars
<1> QED
  BY <1>1, <1>2, <1>3, <1>4, <1>5, <1>6 DEF GuardNext

\* The handle moves from the thread to HWND_RAW, from there to deactivate and on
\* into the queue; a thread leaves its loop with none, or has failed.
LEMMA QuitStep ==
  GuardTypeOK /\ QuitReachesLoop /\ [GuardNext]_guardVars => QuitReachesLoop'
<1> SUFFICES ASSUME GuardTypeOK, QuitReachesLoop, [GuardNext]_guardVars
             PROVE QuitReachesLoop'
  OBVIOUS
<1> USE GuardAssumption DEF GuardTypeOK, QuitReachesLoop, ThreadTo, Fails, flagVars, osVars, pastVars
<1>1. ASSUME NEW t \in Takers, Take(t) PROVE QuitReachesLoop'
  BY <1>1 DEF Take
<1>2. ASSUME NEW t \in Releasers, Release(t) PROVE QuitReachesLoop'
  BY <1>2 DEF Release
<1>3. ASSUME NEW t \in Tasks, Activate(t) PROVE QuitReachesLoop'
  BY <1>3 DEF Activate, SwapActive, Hide, Flag, Spawn, Install
<1>4. ASSUME NEW t \in Tasks, Drop(t) PROVE QuitReachesLoop'
  <2>1. CASE DropGuard(t) \/ Deactivate(t) \/ Show(t) \/ Unhide(t)
    BY <2>1 DEF DropGuard, Deactivate, Show, Unhide
  <2>2. CASE TakeHandle(t)
    BY <2>2 DEF TakeHandle
  <2>3. CASE Post(t)
    BY <2>3 DEF Post
  <2> QED BY <1>4, <2>1, <2>2, <2>3 DEF Drop
<1>5. ASSUME NEW c \in Captures, Capture(c) PROVE QuitReachesLoop'
  <2>1. CASE SetContext(c) \/ RegisterClass(c) \/ CreateWindow(c)
    BY <2>1 DEF SetContext, RegisterClass, CreateWindow
  <2>2. CASE StoreHandle(c)
    BY <2>2 DEF StoreHandle
  <2>3. CASE Subscribe(c)
    BY <2>3 DEF Subscribe
  <2>4. CASE Quit(c)
    BY <2>4 DEF Quit
  <2>5. CASE Unsubscribe(c) \/ DestroyWindow(c) \/ UnregisterClass(c) \/ ClearHandle(c)
    BY <2>5 DEF Unsubscribe, DestroyWindow, UnregisterClass, ClearHandle
  <2>6. CASE CleanContext(c) \/ Abort(c)
    BY <2>6 DEF CleanContext, Abort
  <2> QED BY <1>5, <2>1, <2>2, <2>3, <2>4, <2>5, <2>6 DEF Capture
<1>6. CASE UNCHANGED guardVars
  BY <1>6 DEF guardVars
<1> QED
  BY <1>1, <1>2, <1>3, <1>4, <1>5, <1>6 DEF GuardNext

\* PostMessageW needs a window, and a thread takes its queue with it.
LEMMA QueueStep == GuardTypeOK /\ QuietWhenFree /\ [GuardNext]_guardVars => QuietWhenFree'
<1> SUFFICES ASSUME GuardTypeOK, QuietWhenFree, [GuardNext]_guardVars PROVE QuietWhenFree'
  OBVIOUS
<1> USE DEF GuardTypeOK, QuietWhenFree, ThreadTo, Fails, osVars
<1>1. ASSUME NEW t \in Tasks, Take(t) \/ Release(t) \/ Activate(t) PROVE QuietWhenFree'
  BY <1>1 DEF Take, Release, Activate, SwapActive, Hide, Flag, Spawn, Install
<1>2. ASSUME NEW t \in Tasks, Drop(t) PROVE QuietWhenFree'
  BY <1>2 DEF Drop, DropGuard, Deactivate, TakeHandle, Post, Show, Unhide, WithWindow
<1>3. ASSUME NEW c \in Captures, Capture(c) PROVE QuietWhenFree'
  BY <1>3 DEF Capture, SetContext, RegisterClass, CreateWindow, StoreHandle, Subscribe, Quit,
     Unsubscribe, DestroyWindow, UnregisterClass, ClearHandle, CleanContext, Abort
<1>4. CASE UNCHANGED guardVars
  BY <1>4 DEF guardVars
<1> QED
  BY <1>1, <1>2, <1>3, <1>4 DEF GuardNext, Tasks

\* No step of a thread touches a task, the guard or the cursor, or sets ACTIVE; and unless
\* it disturbs, it keeps the thread off the error paths.
LEMMA CaptureLeaves ==
  ASSUME NEW c \in Captures, Capture(c)
  PROVE  /\ UNCHANGED <<relayActive, installed, step, hideFlag, hidden>>
         /\ active' => active
         /\ thread[c] \notin Failing => active' = active
         /\ thread[c] \notin Failing /\ ~disturbed' => \E s \in Stages \ Failing : ThreadTo(c, s)
BY DEF Capture, SetContext, RegisterClass, CreateWindow, StoreHandle, Subscribe, Quit, Unsubscribe,
       DestroyWindow, UnregisterClass, ClearHandle, CleanContext, Abort, Fails, Failing, Stages,
       WithWindow, flagVars

\* Hide adds a task to Owing and one to hidden; Flag trades the task for the
\* flag, Show the flag for the task, and Unhide the task for one of hidden.
LEMMA HidesStep ==
  GuardTypeOK /\ HidesCovered /\ [GuardNext]_guardVars => HidesCovered'
<1> SUFFICES ASSUME GuardTypeOK, HidesCovered, [GuardNext]_guardVars
             PROVE HidesCovered'
  OBVIOUS
<1> USE OwingFinite DEF TaskTo, Tasks
<1>1. ASSUME Owing' = Owing, UNCHANGED <<hideFlag, hidden>> PROVE HidesCovered'
  BY <1>1 DEF HidesCovered
<1>2. ASSUME NEW t \in Tasks, Hide(t) PROVE HidesCovered'
  <2>1. CASE hidden' = hidden + 1 /\ TaskTo(t, "flagging")
    <3>1. Owing' = Owing \cup {t} /\ t \notin Owing
      BY <1>2, <2>1 DEF Hide, Owing, GuardTypeOK
    <3>2. Cardinality(Owing') = Cardinality(Owing) + 1
      BY <3>1, FS_AddElement
    <3> QED BY <1>2, <2>1, <3>2 DEF Hide, HidesCovered, GuardTypeOK
  <2>2. CASE hidden' = hidden /\ TaskTo(t, "spawning")
    <3>1. Owing' = Owing
      BY <1>2, <2>2 DEF Hide, Owing, GuardTypeOK
    <3> QED BY <1>1, <1>2, <2>2, <3>1 DEF Hide
  <2> QED BY <1>2, <2>1, <2>2 DEF Hide
<1>3. ASSUME NEW t \in Tasks, Flag(t) PROVE HidesCovered'
  <2>1. Owing' = Owing \ {t} /\ t \in Owing
    BY <1>3 DEF Flag, Owing, GuardTypeOK
  <2>2. Cardinality(Owing') = Cardinality(Owing) - 1
    BY <2>1, FS_RemoveElement
  <2> QED BY <1>3, <2>2 DEF Flag, HidesCovered, GuardTypeOK
<1>4. ASSUME NEW t \in Tasks, Show(t) PROVE HidesCovered'
  <2>1. CASE hideFlag
    <3>1. Owing' = Owing \cup {t} /\ t \notin Owing
      BY <1>4, <2>1 DEF Show, Owing, GuardTypeOK
    <3>2. Cardinality(Owing') = Cardinality(Owing) + 1
      BY <3>1, FS_AddElement
    <3> QED BY <1>4, <2>1, <3>2 DEF Show, HidesCovered, GuardTypeOK
  <2>2. CASE ~hideFlag
    <3>1. Owing' = Owing
      BY <1>4, <2>2 DEF Show, Owing, GuardTypeOK
    <3> QED BY <1>4, <2>2, <3>1 DEF Show, HidesCovered, GuardTypeOK
  <2> QED BY <2>1, <2>2
<1>5. ASSUME NEW t \in Tasks, Unhide(t) PROVE HidesCovered'
  <2>1. Owing' = Owing \ {t} /\ t \in Owing
    BY <1>5 DEF Unhide, Owing, GuardTypeOK
  <2>2. Cardinality(Owing') = Cardinality(Owing) - 1
    BY <2>1, FS_RemoveElement
  <2> QED BY <1>5, <2>2 DEF Unhide, HidesCovered, GuardTypeOK
<1>6. ASSUME NEW t \in Tasks,
             \/ Take(t) \/ Release(t) \/ SwapActive(t) \/ Spawn(t) \/ Install(t)
             \/ DropGuard(t) \/ Deactivate(t) \/ TakeHandle(t) \/ Post(t)
      PROVE HidesCovered'
  <2>1. Owing' = Owing /\ UNCHANGED <<hideFlag, hidden>>
    BY <1>6 DEF Take, Release, Begins, SwapActive, Spawn, Install, DropGuard,
       Deactivate, TakeHandle, Post, Owing, GuardTypeOK, flagVars
  <2> QED BY <1>1, <2>1
<1>7. ASSUME NEW c \in Captures, Capture(c) PROVE HidesCovered'
  <2>1. UNCHANGED <<step, hideFlag, hidden>>
    BY <1>7, CaptureLeaves
  <2> QED BY <1>1, <2>1 DEF Owing
<1>8. CASE UNCHANGED guardVars
  BY <1>1, <1>8 DEF guardVars, flagVars, Owing
<1> QED
  BY <1>2, <1>3, <1>4, <1>5, <1>6, <1>7, <1>8 DEF GuardNext, Activate, Drop

\* Only SwapActive sets ACTIVE, and hands the guard to its task; a guard that is
\* dropped or replaced takes ACTIVE with it.
LEMMA GuardStep ==
  GuardTypeOK /\ CaptureHasGuard /\ [GuardNext]_guardVars => CaptureHasGuard'
<1> SUFFICES ASSUME GuardTypeOK, CaptureHasGuard, [GuardNext]_guardVars, active'
             PROVE CaptureHasGuard'
  BY DEF CaptureHasGuard
<1> USE DEF GuardTypeOK, CaptureHasGuard, Activating, TaskTo, flagVars
<1>1. ASSUME NEW t \in Tasks,
             Take(t) \/ Release(t) \/ SwapActive(t) \/ Hide(t) \/ Flag(t)
      PROVE CaptureHasGuard'
  BY <1>1 DEF Take, Release, Begins, SwapActive, Hide, Flag
<1>2. ASSUME NEW t \in Tasks, Spawn(t) \/ Install(t) PROVE CaptureHasGuard'
  BY <1>2 DEF Spawn, Install
<1>3. ASSUME NEW t \in Tasks, DropGuard(t) PROVE CaptureHasGuard'
  BY <1>3 DEF DropGuard
<1>4. ASSUME NEW t \in Tasks, Deactivate(t) \/ TakeHandle(t) \/ Post(t) \/ Show(t) \/ Unhide(t)
      PROVE CaptureHasGuard'
  BY <1>4 DEF Deactivate, TakeHandle, Post, Show, Unhide
<1>5. ASSUME NEW c \in Captures, Capture(c) PROVE CaptureHasGuard'
  <2>1. UNCHANGED <<step, installed>> /\ (active' => active)
    BY <1>5, CaptureLeaves
  <2> QED BY <2>1
<1>6. CASE UNCHANGED guardVars
  BY <1>6 DEF guardVars
<1> QED
  BY <1>1, <1>2, <1>3, <1>4, <1>5, <1>6 DEF GuardNext, Activate, Drop, Tasks

LEMMA DisturbedStays == [GuardNext]_guardVars /\ ~disturbed' => ~disturbed
BY DEF GuardNext, Take, Release, Activate, Drop, Capture, Begins, SwapActive, Hide, Flag, Spawn, Install,
   DropGuard, Deactivate, TakeHandle, Post, Show, Unhide, SetContext, RegisterClass, CreateWindow,
   StoreHandle, Subscribe, Quit, Unsubscribe, DestroyWindow, UnregisterClass, ClearHandle, CleanContext,
   Abort, Fails, guardVars, pastVars

\* Until something overlaps, the task that takes a step is the only one under way.
LEMMA AloneStep ==
  GuardTypeOK /\ CaptureHasGuard /\ Alone /\ [GuardNext]_guardVars => Alone'
<1> SUFFICES ASSUME GuardTypeOK, CaptureHasGuard, Alone, [GuardNext]_guardVars, ~disturbed'
             PROVE (OneTask /\ HidesExact /\ ActiveEnds /\ NoneAborts)'
  BY DEF Alone
<1>0. ~disturbed
  BY DisturbedStays
<1>1. OneTask /\ HidesExact /\ ActiveEnds /\ NoneAborts
  BY <1>0 DEF Alone
<1> USE DEF Undone
<1>2. ASSUME NEW t \in Tasks, Take(t) \/ Release(t)
      PROVE (OneTask /\ HidesExact /\ ActiveEnds /\ NoneAborts)'
  <2>1. \A u \in Tasks : step[u] = "idle"
    BY <1>2 DEF Take, Release, Begins
  <2>2. /\ step'[t] \in {"activating", "releasing"}
        /\ \A u \in Tasks \ {t} : step'[u] = "idle"
        /\ step'[t] = "activating" => relayActive'
        /\ UNCHANGED <<active, hideFlag, hidden, thread>>
    BY <1>2, <2>1 DEF Take, Release, Begins, TaskTo, GuardTypeOK, flagVars
  <2>3. Owing' = {} /\ Owing = {} /\ ~Undoing /\ ~Undoing'
    BY <2>1, <2>2 DEF Owing, Undoing
  <2>4. OneTask'
    BY <2>2 DEF OneTask
  <2>5. HidesExact'
    BY <1>1, <2>2, <2>3 DEF HidesExact
  <2>6. ActiveEnds'
    BY <2>2, <2>3 DEF ActiveEnds, Activating, Quiet
  <2> QED BY <1>1, <2>2, <2>4, <2>5, <2>6 DEF NoneAborts
<1>3. ASSUME NEW t \in Tasks, step[t] # "idle"
      PROVE /\ hidden = (IF step[t] \in {"flagging", "unhiding"} THEN 1 ELSE 0) + (IF hideFlag THEN 1 ELSE 0)
            /\ hideFlag => active \/ step[t] \in Undone
            /\ step[t] \in {"hiding", "flagging"} => active /\ ~hideFlag
            /\ step[t] = "unhiding" => ~hideFlag
            /\ step[t] \in Activating => relayActive
            /\ step[t] \in Undone => ~active
  <2>1. Owing = (IF step[t] \in {"flagging", "unhiding"} THEN {t} ELSE {})
    BY <1>1, <1>3 DEF OneTask, Owing
  <2>2. Cardinality(Owing) = IF step[t] \in {"flagging", "unhiding"} THEN 1 ELSE 0
    BY <2>1, FS_EmptySet, FS_Singleton
  <2>3. Undoing <=> step[t] \in Undone
    BY <1>1, <1>3 DEF OneTask, Undoing
  <2> QED BY <1>1, <2>2, <2>3 DEF HidesExact, ActiveEnds
<1>4. ASSUME NEW t \in Tasks, NEW s \in StepNames, step[t] # "idle", TaskTo(t, s),
             hidden' = (IF s \in {"flagging", "unhiding"} THEN 1 ELSE 0) + (IF hideFlag' THEN 1 ELSE 0),
             hideFlag' => active' \/ s \in Undone,
             s \in {"hiding", "flagging"} => active' /\ ~hideFlag',
             s = "unhiding" => ~hideFlag',
             s \in Activating => relayActive',
             s \in Undone => ~active',
             s = "idle" /\ ~relayActive' => ~active'
      PROVE OneTask' /\ HidesExact' /\ ActiveEnds'
  <2>1. step'[t] = s /\ \A u \in Tasks \ {t} : step'[u] = "idle"
    BY <1>1, <1>4 DEF TaskTo, GuardTypeOK, OneTask
  <2>2. Owing' = (IF s \in {"flagging", "unhiding"} THEN {t} ELSE {})
    BY <2>1 DEF Owing
  <2>3. Cardinality(Owing') = IF s \in {"flagging", "unhiding"} THEN 1 ELSE 0
    BY <2>2, FS_EmptySet, FS_Singleton
  <2>4. Undoing' <=> s \in Undone
    BY <2>1 DEF Undoing
  <2>5. OneTask'
    BY <2>1 DEF OneTask
  <2>6. HidesExact'
    BY <1>4, <2>1, <2>3, <2>4 DEF HidesExact
  <2>7. ActiveEnds'
    BY <1>4, <2>1, <2>4 DEF ActiveEnds, Quiet, Activating
  <2> QED BY <2>5, <2>6, <2>7
<1>5. ASSUME NEW t \in Tasks, Activate(t)
      PROVE OneTask' /\ HidesExact' /\ ActiveEnds'
  <2>1. step[t] # "idle"
    BY <1>5 DEF Activate, SwapActive, Hide, Flag, Spawn, Install
  <2>2. CASE SwapActive(t)
    BY <1>3, <1>4, <2>1, <2>2 DEF SwapActive, Activating, StepNames, GuardTypeOK
  <2>3. CASE Hide(t)
    <3>1. CASE hidden' = hidden + 1 /\ TaskTo(t, "flagging")
      BY <1>3, <1>4, <2>1, <2>3, <3>1 DEF Hide, Activating, StepNames, GuardTypeOK
    <3>2. CASE hidden' = hidden /\ TaskTo(t, "spawning")
      BY <1>3, <1>4, <2>1, <2>3, <3>2 DEF Hide, Activating, StepNames, GuardTypeOK
    <3> QED BY <2>3, <3>1, <3>2 DEF Hide
  <2>4. CASE Flag(t)
    BY <1>3, <1>4, <2>1, <2>4 DEF Flag, Activating, StepNames, GuardTypeOK
  <2>5. CASE Spawn(t)
    BY <1>3, <1>4, <2>1, <2>5 DEF Spawn, Activating, StepNames, flagVars
  <2>6. CASE Install(t)
    BY <1>3, <1>4, <2>1, <2>6 DEF Install, Activating, StepNames, Dropping, flagVars
  <2> QED BY <1>5, <2>2, <2>3, <2>4, <2>5, <2>6 DEF Activate
<1>6. ASSUME NEW t \in Tasks, Drop(t)
      PROVE OneTask' /\ HidesExact' /\ ActiveEnds'
  <2>1. step[t] # "idle"
    BY <1>6 DEF Drop, DropGuard, Deactivate, TakeHandle, Post, Show, Unhide
  <2> USE DEF Activating, StepNames, Dropping, Undone
  <2>2. CASE DropGuard(t)
    <3>1. active => installed
      BY <1>1, <2>2 DEF DropGuard, CaptureHasGuard, OneTask
    <3> QED
      BY <1>3, <1>4, <2>1, <2>2, <3>1 DEF DropGuard, flagVars
  <2>3. CASE Deactivate(t)
    BY <1>3, <1>4, <2>1, <2>3 DEF Deactivate, GuardTypeOK
  <2>4. CASE TakeHandle(t)
    BY <1>3, <1>4, <2>1, <2>4 DEF TakeHandle, GuardTypeOK
  <2>5. CASE Post(t)
    BY <1>3, <1>4, <2>1, <2>5 DEF Post, GuardTypeOK, flagVars
  <2>6. CASE Show(t)
    BY <1>3, <1>4, <2>1, <2>6 DEF Show, GuardTypeOK
  <2>7. CASE Unhide(t)
    BY <1>3, <1>4, <2>1, <2>7 DEF Unhide, GuardTypeOK
  <2> QED BY <1>6, <2>2, <2>3, <2>4, <2>5, <2>6, <2>7 DEF Drop
<1>7. ASSUME NEW c \in Captures, Capture(c)
      PROVE (OneTask /\ HidesExact /\ ActiveEnds /\ NoneAborts)'
  <2>1. thread[c] \notin Failing
    BY <1>1 DEF NoneAborts
  <2>2. UNCHANGED <<relayActive, step, active, hideFlag, hidden>>
    BY <1>7, <2>1, CaptureLeaves
  <2>3. \E s \in Stages \ Failing : ThreadTo(c, s)
    BY <1>7, <2>1, CaptureLeaves
  <2>4. NoneAborts'
    BY <1>1, <2>3 DEF NoneAborts, ThreadTo, GuardTypeOK
  <2> QED
    BY <1>1, <2>2, <2>4 DEF OneTask, HidesExact, ActiveEnds, Owing, Undoing, Quiet
<1>8. CASE UNCHANGED guardVars
  BY <1>1, <1>8 DEF guardVars, flagVars, OneTask, HidesExact, ActiveEnds, NoneAborts,
     Owing, Undoing, Quiet
<1>9. ASSUME NEW t \in Tasks, Activate(t) \/ Drop(t) PROVE NoneAborts'
  BY <1>1, <1>9 DEF Activate, SwapActive, Hide, Flag, Spawn, Install, Drop, DropGuard,
     Deactivate, TakeHandle, Post, Show, Unhide, ThreadTo, NoneAborts, Failing, GuardTypeOK
<1> QED
  BY <1>2, <1>5, <1>6, <1>7, <1>8, <1>9 DEF GuardNext, Tasks

\* The invariant holds initially and is kept by every step.
THEOREM GuardInvariance == GuardSpec => []GuardInv
<1>1. GuardInit => GuardInv
  <2> SUFFICES ASSUME GuardInit PROVE GuardInv
    OBVIOUS
  <2>1. Owing = {}
    BY DEF GuardInit, Owing
  <2>2. GuardTypeOK
    <3>1. step \in [Tasks -> StepNames] /\ thread \in [Captures -> Stages]
      BY DEF GuardInit, StepNames, Stages
    <3>2. hidden \in 0..HideCap
      BY GuardAssumption DEF GuardInit
    <3> QED BY <3>1, <3>2 DEF GuardInit, GuardTypeOK
  <2>3. QuitReachesLoop /\ QuietWhenFree
    BY GuardAssumption DEF GuardInit, QuitReachesLoop, QuietWhenFree
  <2>4. HidesCovered /\ CaptureHasGuard
    BY <2>1, FS_EmptySet DEF GuardInit, HidesCovered, CaptureHasGuard
  <2>5. Alone
    BY <2>1, FS_EmptySet
    DEF GuardInit, Alone, OneTask, HidesExact, ActiveEnds, NoneAborts, Failing, Activating, Undoing, Undone
  <2> QED
    BY <2>2, <2>3, <2>4, <2>5 DEF GuardInv
<1>2. GuardInv /\ [GuardNext]_guardVars => GuardInv'
  BY TypeStep, QuitStep, QueueStep, HidesStep, GuardStep, AloneStep DEF GuardInv
<1> QED
  BY <1>1, <1>2, PTL DEF GuardSpec

-----------------------------------------------------------------------------
\* Type correctness, for any number of tasks and threads (state.rs:376).
THEOREM GuardTypeCorrect == GuardSpec => []GuardTypeOK
BY GuardInvariance, PTL DEF GuardInv

\* No capture outlives its guard, whichever tasks take control and release it
\* at once (state.rs:544).
THEOREM CaptureGuarded == GuardSpec => []CaptureHasGuard
BY GuardInvariance, PTL DEF GuardInv

\* A handle is stored, taken and posted to only while its thread has its message loop still before it or
\* running, unless that thread failed (raw_mouse_win.rs:251).
THEOREM QuitsDelivered == GuardSpec => []QuitReachesLoop
BY GuardInvariance, PTL DEF GuardInv

\* A ShowCursor(true) always has a hide to undo: the cursor's count never goes
\* above where it started (raw_mouse_win.rs:127).
THEOREM NeverShownTwice == GuardSpec => [](hideFlag => hidden > 0)
<1>1. GuardInv => (hideFlag => hidden > 0)
  BY OwingFinite DEF GuardInv, HidesCovered, GuardTypeOK
<1> QED
  BY <1>1, GuardInvariance, PTL

\* The cursor is back once control has been released, unless two tasks overlapped
\* or a capture thread failed to start (raw_mouse_win.rs:127).
THEOREM CursorBack == GuardSpec => []CursorComesBack
<1>1. ASSUME GuardInv PROVE CursorComesBack
  <2>1. hideFlag => hidden > 0
    BY <1>1, OwingFinite DEF GuardInv, HidesCovered, GuardTypeOK
  <2>2. ASSUME Quiet, ~relayActive, ~disturbed PROVE hidden = 0 /\ ~active
    <3>1. HidesExact /\ ActiveEnds
      BY <1>1, <2>2 DEF GuardInv, Alone
    <3>2. Owing = {} /\ ~Undoing
      BY <2>2 DEF Quiet, Owing, Undoing, Undone
    <3> QED BY <2>2, <3>1, <3>2, FS_EmptySet DEF HidesExact, ActiveEnds
  <2> QED BY <2>1, <2>2 DEF CursorComesBack
<1> QED
  BY <1>1, GuardInvariance, PTL

\* No capture thread is started while an older one is still there.
OneThread == \A c, d \in Captures : thread[c] # "free" /\ thread[d] # "free" => c = d

Coming  == {"spawned", "registering", "creating", "storing", "subscribing", "pumping"}
Begun(t) == step[t] \in {"hiding", "flagging", "spawning"}

\* The context and the registration are those of the one thread there is, and while ACTIVE is set that thread
\* is on its way up or in its loop, with no WM_QUIT for it.
Consuming ==
  /\ \A c \in Captures : thread[c] \notin {"free", "spawned"} => ctx = c
  /\ \A c \in Captures : thread[c] \in {"pumping", "leaving"} => sink = c
  /\ active => (\E t \in Tasks : Begun(t)) \/ \E c \in Captures : thread[c] \in Coming /\ c \notin quits

Served == ~disturbed => Consuming

LEMMA ServedStep == GuardInv /\ OneThread /\ Served /\ [GuardNext]_guardVars => Served'
<1> SUFFICES ASSUME GuardInv, OneThread, Served, [GuardNext]_guardVars, ~disturbed' PROVE Consuming'
  BY DEF Served
<1>0. ~disturbed
  BY DisturbedStays
<1>1. Consuming /\ ActiveEnds /\ NoneAborts
  BY <1>0 DEF Served, GuardInv, Alone
<1>2. /\ step \in [Tasks -> StepNames] /\ thread \in [Captures -> Stages]
      /\ NoCapture \notin Captures
  BY GuardAssumption DEF GuardInv, GuardTypeOK
<1>3. \A c \in Captures : thread[c] = "free" => c \notin quits
  BY DEF GuardInv, QuietWhenFree
<1> USE DEF flagVars, osVars, pastVars
\* The tasks.
<1>4. ASSUME NEW t \in Tasks, NEW s, s \notin {"hiding", "flagging", "spawning"}, step[t] \notin {"hiding", "flagging", "spawning"},
             TaskTo(t, s), UNCHANGED <<active, ctx, thread, quits, sink>>
      PROVE  Consuming'
  BY <1>1, <1>2, <1>4 DEF Consuming, Begun, TaskTo
<1>5. ASSUME NEW t \in Tasks, Begun(t)', UNCHANGED <<ctx, thread, sink>> PROVE Consuming'
  BY <1>1, <1>5 DEF Consuming
<1>6. ASSUME NEW t \in Tasks, Take(t) \/ Release(t) PROVE Consuming'
  BY <1>4, <1>6 DEF Take, Release, Begins
<1>7. ASSUME NEW t \in Tasks, SwapActive(t) PROVE Consuming'
  <2>1. CASE active
    <3>1. active' = active
      BY <1>7, <2>1 DEF SwapActive
    <3> QED
      BY <1>4, <1>7, <2>1, <3>1 DEF SwapActive
  <2>2. CASE ~active
    BY <1>2, <1>5, <1>7, <2>2 DEF SwapActive, TaskTo, Begun
  <2> QED
    BY <2>1, <2>2
<1>8. ASSUME NEW t \in Tasks, Hide(t) \/ Flag(t) PROVE Consuming'
  BY <1>2, <1>5, <1>8 DEF Hide, Flag, TaskTo, Begun
<1>9. ASSUME NEW t \in Tasks, Spawn(t) PROVE Consuming'
  <2>1. PICK c \in Captures : thread[c] = "free" /\ thread' = [thread EXCEPT ![c] = "spawned"]
    BY <1>9 DEF Spawn, ThreadTo
  <2>2. c \notin quits' /\ thread'[c] = "spawned" /\ \A d \in Captures \ {c} : thread'[d] = thread[d]
    BY <1>2, <1>3, <1>9, <2>1 DEF Spawn
  <2> QED
    BY <1>1, <1>9, <2>2 DEF Spawn, Consuming, Coming
<1>10. ASSUME NEW t \in Tasks, Install(t) \/ DropGuard(t) PROVE Consuming'
  <2>1. PICK s : s \notin {"hiding", "flagging", "spawning"} /\ TaskTo(t, s)
    BY <1>10 DEF Install, DropGuard
  <2> QED
    BY <1>4, <1>10, <2>1 DEF Install, DropGuard
<1>11. ASSUME NEW t \in Tasks, Deactivate(t) PROVE Consuming'
  BY <1>1, <1>11 DEF Deactivate, Consuming
<1>12. ASSUME NEW t \in Tasks, Post(t) PROVE Consuming'
  <2>1. ~active
    BY <1>1, <1>12 DEF Post, ActiveEnds, Undoing, Undone
  <2> QED
    BY <1>1, <1>12, <2>1 DEF Post, Consuming
<1>13. ASSUME NEW t \in Tasks, TakeHandle(t) \/ Show(t) \/ Unhide(t) PROVE Consuming'
  <2>1. PICK s : s \notin {"hiding", "flagging", "spawning"} /\ TaskTo(t, s)
    BY <1>13 DEF TakeHandle, Show, Unhide
  <2> QED
    BY <1>4, <1>13, <2>1 DEF TakeHandle, Show, Unhide
\* The thread.
<1>14. ASSUME NEW c \in Captures, Capture(c) PROVE Consuming'
  <2>1. \A d \in Captures : thread[d] # "free" => d = c
    BY <1>14 DEF OneThread, Capture, SetContext, RegisterClass, CreateWindow, StoreHandle, Subscribe, Quit,
                 Unsubscribe, DestroyWindow, UnregisterClass, ClearHandle, CleanContext, Abort
  <2>2. UNCHANGED step /\ \A d \in Captures \ {c} : thread'[d] = thread[d]
    BY <1>2, <1>14 DEF Capture, SetContext, RegisterClass, CreateWindow, StoreHandle, Subscribe, Quit, Fails,
                 Unsubscribe, DestroyWindow, UnregisterClass, ClearHandle, CleanContext, Abort, ThreadTo
  <2>3. active => (\E t \in Tasks : Begun(t)) \/ (thread[c] \in Coming /\ c \notin quits)
    BY <1>1, <2>1 DEF Consuming, Coming
  <2>4. /\ thread[c] \notin {"free", "spawned"} => ctx = c
        /\ thread[c] \in {"pumping", "leaving"} => sink = c
    BY <1>1 DEF Consuming
  <2>5. SUFFICES /\ thread'[c] \notin {"free", "spawned"} => ctx' = c
                 /\ thread'[c] \in {"pumping", "leaving"} => sink' = c
                 /\ active' => (\E t \in Tasks : Begun(t)) \/ (thread'[c] \in Coming /\ c \notin quits')
    BY <2>1, <2>2 DEF Consuming, Begun
  <2>6. CASE SetContext(c) \/ RegisterClass(c) \/ StoreHandle(c)
    BY <1>2, <2>3, <2>4, <2>6 DEF SetContext, RegisterClass, StoreHandle, ThreadTo, Coming
  <2>7. CASE CreateWindow(c)
    BY <1>2, <2>3, <2>4, <2>7 DEF CreateWindow, ThreadTo, Coming
  <2>8. CASE Subscribe(c)
    BY <1>2, <2>3, <2>4, <2>8 DEF Subscribe, Fails, ThreadTo, Coming
  <2>9. CASE Quit(c)
    BY <1>2, <2>3, <2>4, <2>9 DEF Quit, Fails, ThreadTo, Coming
  <2>10. CASE Unsubscribe(c) \/ DestroyWindow(c) \/ UnregisterClass(c)
    BY <1>2, <2>3, <2>4, <2>10 DEF Unsubscribe, DestroyWindow, UnregisterClass, ThreadTo, Coming
  <2>11. CASE CleanContext(c)
    BY <1>1, <1>2, <2>3, <2>4, <2>11 DEF CleanContext, ThreadTo, Coming, NoneAborts, Failing
  <2>12. CASE ClearHandle(c) \/ Abort(c)
    BY <1>1, <2>12 DEF ClearHandle, Abort, NoneAborts, Failing
  <2> QED
    BY <1>14, <2>6, <2>7, <2>8, <2>9, <2>10, <2>11, <2>12 DEF Capture
<1>15. CASE UNCHANGED guardVars
  BY <1>1, <1>15 DEF guardVars, Consuming, Begun
<1> QED
  BY <1>6, <1>7, <1>8, <1>9, <1>10, <1>11, <1>12, <1>13, <1>14, <1>15 DEF GuardNext, Activate, Drop, Tasks

\* As long as no capture thread is started while an older one is still shutting down, a capture that is on has
\* a thread that receives raw input and ships it (raw_mouse_win.rs:81).  The counterexample of the run has
\* that overlap.
THEOREM OneThreadConsumes == GuardSpec /\ []OneThread => []ActiveConsumes
<1>1. GuardInit => Served
  BY DEF GuardInit, Served, Consuming
<1>2. Served /\ OneThread /\ GuardInv => ActiveConsumes
  <2> SUFFICES ASSUME Served, OneThread, GuardInv, active, ~disturbed, Quiet,
                      \A c \in Captures : thread[c] \in {"free", "pumping"}
               PROVE  ctx # NoCapture /\ \E c \in Captures : thread[c] = "pumping" /\ sink = c
    BY DEF ActiveConsumes
  <2>1. Consuming /\ ~\E t \in Tasks : Begun(t)
    BY DEF Served, Quiet, Begun
  <2>2. PICK c \in Captures : thread[c] \in Coming
    BY <2>1 DEF Consuming
  <2>3. thread[c] = "pumping"
    BY <2>2 DEF Coming
  <2> QED
    BY <2>1, <2>3, GuardAssumption DEF Consuming
<1> QED
  BY <1>1, <1>2, ServedStep, GuardInvariance, PTL DEF GuardSpec

=============================================================================

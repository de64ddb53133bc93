------------------------------ MODULE TaskProofs ------------------------------
(***************************************************************************)
(* Proofs about the configuration file, the reconnect loop, and the tap    *)
(* and the cursor of a relaying Mac.                                       *)
(* Whoever has loaded the file holds CONFIG_LOCK until its copy is in      *)
(* place, so that the file it has loaded is still the file it replaces;    *)
(* of the settings, all saves that are under way agree until one is        *)
(* overtaken.  A loop that runs is in reconnect_handle or in the hands of  *)
(* the task that has spawned it, and an aborted one sleeps no more.  While *)
(* nobody interferes with a tap thread on its way, there is one at most.   *)
(* As long as takeovers and releases follow each other, the cursor has     *)
(* been hidden once more than shown while a task is on its way or the      *)
(* guard is there.                                                         *)
(***************************************************************************)
EXTENDS ConfigStore, Reconnect, MacGuard, FiniteSetTheorems, TLAPS

-----------------------------------------------------------------------------
(* The configuration file.                                                   *)

Stages == {"free", "flipped", "waiting", "loaded", "written"}

\* A thread on its way to the file has a mutation to make, and nothing
\* is on its way while the program is down.
OpsKnown ==
  /\ \A t \in Writers : writer[t] \in {"waiting", "loaded", "written"} => op[t] \in Atomic!Ops
  /\ \A t \in Writers : writer[t] \in {"free", "flipped"} => op[t] = NoOp
  /\ ~up => \A t \in Writers : writer[t] = "free"

\* Whoever has loaded the file holds the lock, and its copy is made from
\* the file as it still is.
CopyIsCurrent ==
  \A t \in Writers :
    /\ writer[t] \in {"loaded", "written"} => lock = t
    /\ writer[t] = "loaded" => copy[t] \in {file, Atomic!Blank}
    /\ writer[t] = "written" =>
         copy[t] \in {Atomic!Apply(op[t], file), Atomic!Apply(op[t], Atomic!Blank)}

StoreInv ==
  /\ file \in Configs /\ copy \in [Writers -> Configs]
  /\ writer \in [Writers -> Stages] /\ DOMAIN op = Writers
  /\ settings \in Atomic!SettingsSet /\ OpsKnown /\ CopyIsCurrent

\* What the threads are given to do are mutations of the file.
LEMMA OpsOf ==
  /\ \A s \in Atomic!SettingsSet : [kind |-> "settings", value |-> s] \in Atomic!Ops
  /\ \A i \in Ids : [kind |-> "identify", value |-> i] \in Atomic!Ops
BY DEF Atomic!Ops

\* A mutation keeps the type of the file, and only update_settings changes the settings in it.
LEMMA ApplyKeeps ==
  ASSUME NEW c \in Configs, NEW o \in Atomic!Ops
  PROVE  /\ Atomic!Apply(o, c) \in Configs
         /\ o.kind = "settings" => Atomic!Apply(o, c).settings = {o.value} /\ o.value \in Atomic!SettingsSet
         /\ o.kind # "settings" => Atomic!Apply(o, c).settings = c.settings
<1> USE ConfigAssumption DEF Configs, Atomic!Apply
<1>1. CASE o.kind = "settings"
  <2>1. o.value \in Atomic!SettingsSet
    BY <1>1 DEF Atomic!Ops
  <2> QED
    BY <1>1, <2>1
<1>2. CASE o.kind = "save" \/ o.kind = "forget"
  <2>1. o.value \in Devices
    BY <1>2 DEF Atomic!Ops
  <2> QED
    BY <1>2, <2>1
<1>3. CASE o.kind = "identify"
  <2>1. o.value \in Ids
    BY <1>3 DEF Atomic!Ops
  <2> QED
    BY <1>3, <2>1
<1>4. CASE o.kind = "audit" \/ o.kind = "clear"
  BY <1>4
<1> QED
  BY <1>1, <1>2, <1>3, <1>4 DEF Atomic!Ops

LEMMA BlankTyped == Atomic!Blank \in Configs
BY ConfigAssumption DEF Atomic!Blank, Configs

\* What a program takes for its settings are settings.
LEMMA LoadedTyped == \A c \in Configs : Loaded(c) \in Atomic!SettingsSet
<1>1. Defaults \in Atomic!SettingsSet
  BY DEF Defaults, Atomic!SettingsSet
<1> QED
  BY <1>1 DEF Loaded, Configs

LEMMA StoreStart == ConfigInit => StoreInv
<1> SUFFICES ASSUME ConfigInit PROVE StoreInv
  OBVIOUS
<1>1. settings \in Atomic!SettingsSet
  BY DEF ConfigInit, Defaults, Atomic!SettingsSet
<1>2. file \in Configs /\ copy \in [Writers -> Configs] /\ writer \in [Writers -> Stages] /\ DOMAIN op = Writers
  BY BlankTyped DEF ConfigInit, Stages
<1>3. OpsKnown /\ CopyIsCurrent
  BY DEF ConfigInit, OpsKnown, CopyIsCurrent
<1> QED
  BY <1>1, <1>2, <1>3 DEF StoreInv

\* A step keeps the threads' mutations and copies as they should be.
LEMMA StepKeepsStore == StoreInv /\ [ConfigNext]_configVars => StoreInv'
<1> SUFFICES ASSUME StoreInv, [ConfigNext]_configVars PROVE StoreInv'
  OBVIOUS
<1> USE DEF StoreInv, OpsKnown, CopyIsCurrent, Stages, storeVars, memoryVars
<1>1. CASE Boot
  <2>1. file' \in Configs
    BY <1>1, OpsOf, ApplyKeeps, BlankTyped DEF Boot
  <2>2. settings' \in Atomic!SettingsSet
    <3>1. settings' \in {Loaded(file'), Defaults}
      BY <1>1 DEF Boot
    <3>2. Defaults \in Atomic!SettingsSet
      BY DEF Defaults, Atomic!SettingsSet
    <3> QED
      BY <2>1, <3>1, <3>2, LoadedTyped
  <2> QED
    BY <1>1, <2>1, <2>2 DEF Boot
<1>2. CASE StopProgram
  BY <1>2, BlankTyped DEF StopProgram
<1>3. ASSUME NEW t \in Writers, UpdateSettings(t) PROVE StoreInv'
  BY <1>3, OpsOf DEF UpdateSettings, StartSave
<1>4. ASSUME NEW t \in Writers, Snapshot(t) PROVE StoreInv'
  BY <1>4, OpsOf DEF Snapshot, StartSave
<1>5. ASSUME NEW t \in Writers, ToggleGaming(t) PROVE StoreInv'
  BY <1>5 DEF ToggleGaming, Atomic!SettingsSet
<1>6. ASSUME NEW t \in Writers, SwitchMode(t) PROVE StoreInv'
  <2>1. settings' = [settings EXCEPT !.gaming = (detect = "entering")]
    BY <1>6 DEF SwitchMode
  <2>2. settings' \in Atomic!SettingsSet
    <3> DEFINE on == (detect = "entering")
    <3>1. on \in BOOLEAN /\ settings' = [settings EXCEPT !.gaming = on]
      BY <2>1
    <3> HIDE DEF on
    <3> QED
      BY <3>1 DEF Atomic!SettingsSet
  <2>3. UNCHANGED <<file, lock, op, copy, up>> /\ writer' = [writer EXCEPT ![t] = "flipped"] /\ writer[t] = "free" /\ up
    BY <1>6 DEF SwitchMode
  <2> QED
    BY <2>2, <2>3
<1>7. ASSUME NEW fullscreen \in BOOLEAN, Poll \/ Look(fullscreen) PROVE StoreInv'
  BY <1>7 DEF Poll, Look
<1>8. ASSUME NEW t \in Writers, Mutate(t) PROVE StoreInv'
  BY <1>8 DEF Mutate
<1>9. ASSUME NEW t \in Writers, Load(t) PROVE StoreInv'
  BY <1>9, ConfigAssumption, BlankTyped DEF Load
<1>10. ASSUME NEW t \in Writers, Change(t) PROVE StoreInv'
  BY <1>10, ApplyKeeps DEF Change
<1>11. ASSUME NEW t \in Writers, Rename(t) \/ WriteFails(t) PROVE StoreInv'
  BY <1>11, ConfigAssumption, BlankTyped DEF Rename, WriteFails, Unlock
<1>12. CASE UNCHANGED configVars
  BY <1>12 DEF configVars
<1> QED
  BY <1>1, <1>2, <1>3, <1>4, <1>5, <1>6, <1>7, <1>8, <1>9, <1>10, <1>11, <1>12 DEF ConfigNext, Save

\* For any number of threads, devices and audit entries, and wherever the program
\* stops, the file goes from one content to the next by one whole mutation (storage.rs:79).
THEOREM FileRefinesAtomic == ConfigSpec => RefinesAtomic
<1>1. ConfigInit => file = Atomic!Blank
  BY DEF ConfigInit
<1>2. ASSUME StoreInv, [ConfigNext]_configVars PROVE [Atomic!Next]_file
  <2> SUFFICES ASSUME file' # file PROVE Atomic!Next
    OBVIOUS
  <2> USE DEF StoreInv, storeVars, memoryVars
  <2>1. CASE Boot
    <3>1. PICK i \in Ids : file' \in {file, Atomic!Apply([kind |-> "identify", value |-> i], file),
                                      Atomic!Apply([kind |-> "identify", value |-> i], Atomic!Blank)}
      BY <2>1 DEF Boot
    <3> QED
      BY <3>1, OpsOf DEF Atomic!Next, Atomic!Mutate
  <2>2. ASSUME NEW t \in Writers, Rename(t) PROVE Atomic!Next
    <3>0. writer[t] = "written" /\ file' = copy[t]
      BY <2>2 DEF Rename
    <3>1. op[t] \in Atomic!Ops
      BY <1>2, <3>0 DEF OpsKnown
    <3>2. file' \in {Atomic!Apply(op[t], file), Atomic!Apply(op[t], Atomic!Blank)}
      BY <1>2, <3>0 DEF CopyIsCurrent
    <3> QED
      BY <3>1, <3>2 DEF Atomic!Next, Atomic!Mutate
  <2>3. CASE StopProgram \/ Poll \/ (\E fullscreen \in BOOLEAN : Look(fullscreen)) \/ (\E t \in Writers : SwitchMode(t))
    BY <2>3 DEF StopProgram, Poll, Look, SwitchMode
  <2>4. ASSUME NEW t \in Writers,
               UpdateSettings(t) \/ ToggleGaming(t) \/ Snapshot(t) \/ Mutate(t) \/ Load(t) \/ Change(t) \/ WriteFails(t)
        PROVE Atomic!Next
    BY <2>4 DEF UpdateSettings, ToggleGaming, Snapshot, StartSave, Mutate, Load, Change, WriteFails
  <2>5. CASE UNCHANGED configVars
    BY <2>5 DEF configVars
  <2> QED
    BY <1>2, <2>1, <2>2, <2>3, <2>4, <2>5 DEF ConfigNext, Save
<1> QED
  BY <1>1, <1>2, StoreStart, StepKeepsStore, PTL DEF ConfigSpec, RefinesAtomic, Atomic!Spec

-----------------------------------------------------------------------------
(* The settings.                                                             *)

Flipped   == {t \in Writers : writer[t] = "flipped"}
Saving    == {t \in Writers : op[t].kind = "settings"}
InFile(s) == Loaded(file) = s

\* Unless a save has failed or was overtaken, what is being saved is what is in use, and
\* when nothing is being saved that is in the file.
SaveInv ==
  up /\ ~unsaved /\ Flipped = {} =>
    /\ \A t \in Saving : op[t].value = settings
    /\ Saving = {} => InFile(settings)

\* The settings a program takes from a file are those in it.
LEMMA LoadedOne == ASSUME NEW c, NEW v, c.settings = {v} PROVE Loaded(c) = v
BY DEF Loaded

LEMMA LoadedSame == ASSUME NEW c, NEW d, c.settings = d.settings PROVE Loaded(c) = Loaded(d)
BY DEF Loaded

\* A step leaves the settings with the saves that are under way, or in the file.
LEMMA StepKeepsSaves == StoreInv /\ SaveInv /\ [ConfigNext]_configVars => SaveInv'
<1> SUFFICES ASSUME StoreInv, SaveInv, [ConfigNext]_configVars PROVE SaveInv'
  OBVIOUS
<1> USE DEF SaveInv, Flipped, Saving, storeVars, memoryVars
<1>1. CASE Boot
  <2>1. Saving' = {}
    BY <1>1 DEF Boot, StoreInv, OpsKnown, NoOp
  <2>2. unsaved' = (settings' # Loaded(file'))
    BY <1>1 DEF Boot
  <2> QED
    BY <2>1, <2>2 DEF InFile
<1>2. CASE StopProgram
  BY <1>2 DEF StopProgram
<1>3. ASSUME NEW t \in Writers, UpdateSettings(t) \/ Snapshot(t) PROVE SaveInv'
  <2>1. StartSave(t, settings')
    BY <1>3 DEF UpdateSettings, Snapshot
  <2>2. op'[t] = [kind |-> "settings", value |-> settings'] /\ \A u \in Writers \ {t} : op'[u] = op[u]
    BY <2>1 DEF StartSave, StoreInv
  <2>3. ~unsaved' => \A u \in Writers \ {t} : op[u].kind = "settings" => op[u].value = settings'
    BY <2>1 DEF StartSave
  <2> QED
    BY <2>2, <2>3
<1>4. ASSUME NEW t \in Writers, ToggleGaming(t) PROVE SaveInv'
  BY <1>4 DEF ToggleGaming, StoreInv
<1>5. ASSUME NEW t \in Writers, SwitchMode(t) PROVE SaveInv'
  BY <1>5 DEF SwitchMode, StoreInv
<1>6. ASSUME NEW fullscreen \in BOOLEAN, Poll \/ Look(fullscreen) PROVE SaveInv'
  <2>2. CASE UNCHANGED <<storeVars, settings, up, unsaved>>
    BY <2>2 DEF InFile
  <2> QED
    BY <1>6, <2>2 DEF Poll, Look
<1>7. ASSUME NEW t \in Writers, Mutate(t) PROVE SaveInv'
  <2>1. UNCHANGED <<file, memoryVars>> /\ writer'[t] = "waiting"
        /\ op'[t].kind # "settings" /\ op[t].kind # "settings"
        /\ \A u \in Writers \ {t} : op'[u] = op[u] /\ writer'[u] = writer[u]
    BY <1>7 DEF Mutate, StoreInv, OpsKnown, NoOp
  <2>2. Saving' = Saving /\ Flipped' = Flipped
    BY <1>7, <2>1 DEF Mutate
  <2> QED
    BY <2>1, <2>2 DEF InFile
<1>8. ASSUME NEW t \in Writers, Load(t) \/ Change(t) PROVE SaveInv'
  <2>1. UNCHANGED <<file, op, memoryVars>> /\ Flipped' = Flipped
    BY <1>8 DEF Load, Change, StoreInv
  <2> QED
    BY <2>1 DEF InFile
<1>9. ASSUME NEW t \in Writers, Rename(t) \/ WriteFails(t) PROVE SaveInv'
  <2>0. UNCHANGED <<settings, up>> /\ (~unsaved' => ~unsaved) /\ Unlock(t) /\ writer[t] = "written"
    BY <1>9 DEF Rename, WriteFails
  <2>1. /\ Flipped' = Flipped /\ Saving' = Saving \ {t} /\ op[t] \in Atomic!Ops
        /\ \A u \in Saving' : op'[u] = op[u]
    BY <2>0 DEF Unlock, StoreInv, OpsKnown, NoOp
  <2>2. CASE Rename(t)
    <3>1. ~unsaved' => Loaded(file') = Loaded(Atomic!Apply(op[t], file))
      BY <2>2 DEF Rename
    <3>2. ASSUME t \in Saving PROVE Loaded(Atomic!Apply(op[t], file)) = op[t].value
      <4>1. Atomic!Apply(op[t], file).settings = {op[t].value}
        BY <2>1, <3>2, ApplyKeeps DEF StoreInv
      <4> QED
        BY <4>1, LoadedOne
    <3>3. ASSUME t \notin Saving PROVE Loaded(Atomic!Apply(op[t], file)) = Loaded(file)
      <4>1. Atomic!Apply(op[t], file).settings = file.settings
        BY <2>1, <3>3, ApplyKeeps DEF StoreInv
      <4> QED
        BY <4>1, LoadedSame
    <3> QED
      BY <2>0, <2>1, <3>1, <3>2, <3>3 DEF InFile
  <2>3. CASE WriteFails(t)
    <3>1. UNCHANGED file /\ (~unsaved' => t \notin Saving)
      BY <2>3 DEF WriteFails
    <3> QED
      BY <2>0, <2>1, <3>1 DEF InFile
  <2> QED
    BY <1>9, <2>2, <2>3
<1>10. CASE UNCHANGED configVars
  BY <1>10 DEF configVars, InFile
<1> QED
  BY <1>1, <1>2, <1>3, <1>4, <1>5, <1>6, <1>7, <1>8, <1>9, <1>10 DEF ConfigNext, Save

\* For any number of threads, the file holds the settings in use once every save has ended,
\* unless one has failed or was overtaken (commands.rs:223, capture.rs:309).
THEOREM SettingsReachFile == ConfigSpec => []SettingsSettle
<1>1. ConfigInit => SaveInv
  BY DEF ConfigInit, SaveInv
<1>2. SaveInv => SettingsSettle
  BY DEF SaveInv, SettingsSettle, Flipped, Saving, InFile
<1> QED
  BY <1>1, <1>2, StoreStart, StepKeepsStore, StepKeepsSaves, PTL DEF ConfigSpec

\* The threads' mutations, the lock and the counter of fullscreen_detect.
StoreRest ==
  /\ lock \in Writers \cup {NoWriter} /\ op \in [Writers -> Atomic!Ops \cup {NoOp}]
  /\ up \in BOOLEAN /\ unsaved \in BOOLEAN /\ absent \in 0 .. Grace
  /\ detect \in {"idle", "looking", "entering", "leaving"}

LEMMA StepKeepsStoreRest == StoreInv /\ StoreRest /\ [ConfigNext]_configVars => StoreRest'
<1> SUFFICES ASSUME StoreInv, StoreRest, [ConfigNext]_configVars PROVE StoreRest'
  OBVIOUS
<1> USE ConfigAssumption DEF StoreRest, storeVars, memoryVars
<1>1. CASE Boot
  <2>1. unsaved' \in BOOLEAN
    BY <1>1 DEF Boot
  <2> QED
    BY <1>1, <2>1 DEF Boot
<1>2. CASE StopProgram
  BY <1>2 DEF StopProgram
<1>3. ASSUME NEW t \in Writers, NEW s \in Atomic!SettingsSet, StartSave(t, s), UNCHANGED <<absent, detect>>
      PROVE StoreRest'
  <2>1. unsaved' \in BOOLEAN
    BY <1>3 DEF StartSave
  <2>2. [kind |-> "settings", value |-> s] \in Atomic!Ops
    BY OpsOf
  <2> QED
    BY <1>3, <2>1, <2>2 DEF StartSave
<1>4. ASSUME NEW t \in Writers, UpdateSettings(t) \/ Snapshot(t) PROVE StoreRest'
  BY <1>3, <1>4 DEF UpdateSettings, Snapshot, StoreInv
<1>5. ASSUME NEW t \in Writers, ToggleGaming(t) \/ Mutate(t) PROVE StoreRest'
  <2>1. CASE ToggleGaming(t)
    BY <2>1 DEF ToggleGaming
  <2>2. CASE Mutate(t)
    <3>1. PICK o \in Atomic!Ops : op' = [op EXCEPT ![t] = o]
      BY <2>2 DEF Mutate
    <3> QED
      BY <2>2, <3>1 DEF Mutate
  <2> QED
    BY <1>5, <2>1, <2>2
<1>6. ASSUME NEW t \in Writers, SwitchMode(t) PROVE StoreRest'
  BY <1>6 DEF SwitchMode
<1>7. ASSUME NEW fullscreen \in BOOLEAN, Poll \/ Look(fullscreen) PROVE StoreRest'
  <2>1. /\ UNCHANGED <<lock, op, up, unsaved>>
        /\ absent' \in {0, absent} \/ (absent + 1 < Grace /\ absent' = absent + 1)
    BY <1>7 DEF Poll, Look
  <2>2. absent' \in 0 .. Grace
    BY <2>1
  <2>3. detect' \in {"idle", "looking", "entering", "leaving"}
    BY <1>7 DEF Poll, Look
  <2> QED
    BY <2>1, <2>2, <2>3
<1>8. ASSUME NEW t \in Writers, Load(t) \/ Change(t) PROVE StoreRest'
  BY <1>8 DEF Load, Change
<1>9. ASSUME NEW t \in Writers, Rename(t) \/ WriteFails(t) PROVE StoreRest'
  <2>1. unsaved' \in BOOLEAN
    BY <1>9 DEF Rename, WriteFails
  <2> QED
    BY <1>9, <2>1 DEF Rename, WriteFails, Unlock
<1>10. CASE UNCHANGED configVars
  BY <1>10 DEF configVars
<1> HIDE DEF StoreRest
<1> QED
  BY <1>1, <1>2, <1>4, <1>5, <1>6, <1>7, <1>8, <1>9, <1>10 DEF ConfigNext, Save

\* For any number of threads, devices and audit entries the file, the copies and the settings are well-typed,
\* and the count of polls without a game never passes its limit (fullscreen_detect.rs:79).
THEOREM ConfigTypeCorrect == ConfigSpec => []ConfigTypeOK
<1>1. ConfigInit => StoreRest
  <2> SUFFICES ASSUME ConfigInit PROVE StoreRest
    OBVIOUS
  <2>1. op \in [Writers -> Atomic!Ops \cup {NoOp}] /\ lock \in Writers \cup {NoWriter}
    BY DEF ConfigInit
  <2>2. up \in BOOLEAN /\ unsaved \in BOOLEAN
    BY DEF ConfigInit
  <2>3. absent \in 0 .. Grace /\ detect = "idle"
    BY ConfigAssumption DEF ConfigInit
  <2> QED
    BY <2>1, <2>2, <2>3 DEF StoreRest
<1>2. StoreInv /\ StoreRest => ConfigTypeOK
  <2> SUFFICES ASSUME StoreInv, StoreRest PROVE ConfigTypeOK
    OBVIOUS
  <2> QED
    BY DEF StoreInv, StoreRest, ConfigTypeOK, Stages
<1> QED
  BY <1>1, <1>2, StoreStart, StepKeepsStore, StepKeepsStoreRest, PTL DEF ConfigSpec

-----------------------------------------------------------------------------
(* The reconnect loop.                                                       *)

Entering == {"seating", "linking"}
Running  == Entering \cup {"cleaning", "deciding", "storing", "leaving"}
Places  == {"free"} \cup Running \cup Awaiting
Storing == {t \in Dialers : at[t] = "storing"}
Trying  == Entering \cup {"sleeping", "dialing", "leaving"}

\* A loop that was aborted while it ran has not come to an await since, and a task
\* has spawned a loop only until it has stored its handle.
TasksPlaced ==
  /\ at \in [Dialers -> Places] /\ child \in [Dialers -> Loops \cup {NoTask}]
  /\ handle \in Loops \cup {NoTask} /\ doomed \subseteq Loops
  /\ \A r \in doomed : at[r] \in Running
  /\ \A t \in Dialers : child[t] # NoTask <=> at[t] = "storing"

\* While nothing has slipped, one task at most is about to store a handle.
OneStores == ~slipped => \A t, u \in Storing : t = u

\* A loss that nothing has settled is in the hands of a loop that has not come
\* through with it.
LossHeld == lost => \E r \in Loops : r \notin doomed /\ at[r] \in Trying

\* Once the user has disconnected the flag is up, no loop dials, and one that was entering its session
\* is to die.
Halted(r) == at[r] # "dialing" /\ (at[r] \in Entering => r \in doomed)
DisconnectHeld == told => intent /\ (~slipped => \A r \in Loops : Halted(r))

LoopInv == TasksPlaced /\ OneStores /\ OneLoopHeld

\* What an abort leaves: the loop in the handle is gone from where it slept, or doomed.
LEMMA Aborted ==
  ASSUME TasksPlaced, NEW others \in [Dialers -> Places], AbortLoop(others)
  PROVE  /\ handle' = NoTask /\ at' \in [Dialers -> Places] /\ doomed' \subseteq doomed \cup {handle}
         /\ doomed' \subseteq Loops /\ doomed \subseteq doomed'
         /\ \A t \in Dialers : t # handle => at'[t] = others[t]
         /\ handle # NoTask =>
              \/ at[handle] \in Awaiting /\ at'[handle] = "free" /\ doomed' = doomed
              \/ at[handle] \in Running /\ at'[handle] = others[handle] /\ handle \in doomed'
              \/ at[handle] = "free" /\ at'[handle] = others[handle] /\ doomed' = doomed
         /\ handle = NoTask => doomed' = doomed
<1> USE ReconnectAssumption DEF TasksPlaced, Dialers, Places
<1>1. CASE handle # NoTask /\ at[handle] \in Awaiting
  <2>1. handle \in Dialers
    BY <1>1
  <2> QED
    BY <1>1, <2>1 DEF AbortLoop
<1>2. CASE ~(handle # NoTask /\ at[handle] \in Awaiting)
  <2>1. at' = others /\ doomed' = doomed \cup {r \in {handle} \cap Loops : at[r] # "free"} /\ handle' = NoTask
    BY <1>2 DEF AbortLoop
  <2>2. \A t \in Dialers : at[t] \in Awaiting \/ at[t] \in Running \/ at[t] = "free"
    OBVIOUS
  <2> QED
    BY <1>2, <2>1, <2>2
<1> QED
  BY <1>1, <1>2

\* A task that goes on from one place to another, and stores or aborts nothing.
LEMMA Moves ==
  ASSUME LoopInv, NEW t \in Dialers, NEW p \in Places \ {"storing"}, Goto(t, p), at[t] # "storing",
         UNCHANGED <<handle, child, slipped>>, doomed' \in {doomed, doomed \ {t}},
         t \in Loops => at[t] # "free", t \in doomed' => p \in Running, t \in doomed => t \in doomed' \/ p = "free"
  PROVE  LoopInv'
<1> USE DEF LoopInv
<1>1. at' \in [Dialers -> Places] /\ at'[t] = p /\ \A u \in Dialers \ {t} : at'[u] = at[u]
  BY DEF Goto, TasksPlaced
<1>2. TasksPlaced'
  BY <1>1 DEF TasksPlaced, Dialers
<1>3. OneStores'
  BY <1>1 DEF OneStores, Storing
<1>4. \A r \in Loops : Alive(r)' => Alive(r)
  BY <1>1 DEF Alive, Dialers
<1>5. OneLoopHeld'
  BY <1>4 DEF OneLoopHeld
<1> QED
  BY <1>2, <1>3, <1>5

\* An abort without a new loop.
LEMMA Aborts ==
  ASSUME LoopInv, AbortLoop(at), UNCHANGED child PROVE LoopInv'
<1> USE DEF LoopInv
<1>1. at \in [Dialers -> Places]
  BY DEF TasksPlaced
<1>2. TasksPlaced'
  <2>1. at' \in [Dialers -> Places] /\ child' \in [Dialers -> Loops \cup {NoTask}] /\ handle' \in Loops \cup {NoTask}
        /\ doomed' \subseteq Loops
    BY <1>1, Aborted DEF TasksPlaced
  <2>2. ASSUME NEW u \in Dialers
        PROVE  \/ at'[u] = at[u]
               \/ u \notin doomed' /\ at[u] \in Awaiting /\ at'[u] = "free"
    BY <1>1, Aborted, ReconnectAssumption DEF TasksPlaced, Running, Entering, Awaiting, Dialers
  <2>3. ASSUME NEW q \in doomed' PROVE at'[q] \in Running
    <3>1. q \in Dialers /\ at[q] \in Running
      BY <1>1, <2>1, <2>2, <2>3, Aborted, ReconnectAssumption DEF TasksPlaced, Running, Dialers
    <3> QED
      BY <2>2, <2>3, <3>1
  <2>4. ASSUME NEW u \in Dialers PROVE child'[u] # NoTask <=> at'[u] = "storing"
    BY <2>2 DEF TasksPlaced, Awaiting
  <2> QED
    BY <2>1, <2>3, <2>4 DEF TasksPlaced
<1>3. ~slipped' => ~slipped /\ Storing = {}
  BY DEF AbortLoop, Storing
<1>4. Storing' \subseteq Storing
  BY <1>1, Aborted, ReconnectAssumption DEF Storing, TasksPlaced, Dialers
<1>5. ASSUME NEW r \in Loops, Alive(r)', ~slipped' PROVE FALSE
  <2>1. Alive(r) /\ r # handle
    BY <1>1, <1>5, Aborted, ReconnectAssumption DEF Alive, TasksPlaced, Dialers
  <2>2. PICK t \in Dialers : child[t] = r
    BY <1>3, <1>5, <2>1 DEF OneLoopHeld
  <2> QED
    BY <1>3, <1>5, <2>2, ReconnectAssumption DEF TasksPlaced, Storing, Dialers
<1> QED
  BY <1>2, <1>3, <1>4, <1>5 DEF OneStores, OneLoopHeld

\* A new loop: the old one is aborted first.
LEMMA Respawns ==
  ASSUME LoopInv, NEW t \in Dialers, Respawn(t) PROVE LoopInv'
<1> USE ReconnectAssumption DEF LoopInv, Dialers
<1>1. PICK r \in Loops : /\ at[t] = "deciding" /\ Fresh(r)
                        /\ AbortLoop([at EXCEPT ![t] = "storing", ![r] = "sleeping"])
                        /\ child' = [child EXCEPT ![t] = r]
  BY DEF Respawn
<1> DEFINE others == [at EXCEPT ![t] = "storing", ![r] = "sleeping"]
<1>2. at \in [Dialers -> Places] /\ r # t /\ r # handle /\ r \notin doomed
  BY <1>1 DEF Fresh, TasksPlaced, Running, Entering
<1>3. others \in [Dialers -> Places] /\ others[t] = "storing" /\ others[r] = "sleeping"
      /\ \A u \in Dialers \ {t, r} : others[u] = at[u]
  BY <1>2 DEF Places, Running, Awaiting
<1>4. AbortLoop(others)
  BY <1>1
<1> HIDE DEF others
<1>5. at'[r] = "sleeping" /\ at'[t] = "storing" /\ r \notin doomed' /\ handle' = NoTask
  BY <1>1, <1>2, <1>3, <1>4, Aborted DEF TasksPlaced, Awaiting
<1>6. TasksPlaced'
  <2>1. at' \in [Dialers -> Places] /\ child' \in [Dialers -> Loops \cup {NoTask}] /\ handle' \in Loops \cup {NoTask}
        /\ doomed' \subseteq Loops
    BY <1>1, <1>3, <1>4, Aborted DEF TasksPlaced
  <2>2. ASSUME NEW q \in doomed' PROVE at'[q] \in Running
    <3>1. q \in Loops /\ q # r /\ (q \in doomed \/ q = handle)
      BY <1>3, <1>4, <1>5, <2>2, Aborted DEF TasksPlaced
    <3>2. at'[q] = others[q] /\ at[q] \in Running
      <4>1. CASE q = handle
        BY <1>3, <1>4, <2>2, <3>1, <4>1, Aborted DEF TasksPlaced, Running, Entering, Awaiting
      <4>2. CASE q # handle
        BY <1>3, <1>4, <3>1, <4>2, Aborted DEF TasksPlaced
      <4> QED
        BY <4>1, <4>2
    <3> QED
      BY <1>3, <3>1, <3>2 DEF Running
  <2>3. ASSUME NEW u \in Dialers PROVE child'[u] # NoTask <=> at'[u] = "storing"
    BY <1>1, <1>2, <1>3, <1>4, <1>5, Aborted DEF TasksPlaced, Running, Awaiting, Fresh
  <2> QED
    BY <2>1, <2>2, <2>3 DEF TasksPlaced
<1>7. ~slipped' => ~slipped /\ Storing = {}
  BY <1>4 DEF AbortLoop, Storing
<1>8. Storing' \subseteq Storing \cup {t}
  BY <1>2, <1>3, <1>4, <1>5, Aborted DEF Storing, TasksPlaced
<1>9. ASSUME NEW q \in Loops, Alive(q)', ~slipped' PROVE q = r
  <2> SUFFICES ASSUME q # r PROVE FALSE
    OBVIOUS
  <2>1. Alive(q) /\ q # handle
    BY <1>1, <1>2, <1>3, <1>4, <1>9, Aborted DEF Alive, TasksPlaced
  <2>2. PICK u \in Dialers : child[u] = q
    BY <1>7, <1>9, <2>1 DEF OneLoopHeld
  <2> QED
    BY <1>7, <1>9, <2>2 DEF TasksPlaced, Storing
<1>10. child'[t] = r
  BY <1>1 DEF TasksPlaced
<1> QED
  BY <1>6, <1>7, <1>8, <1>9, <1>10 DEF OneStores, OneLoopHeld

\* The task that has spawned a loop stores its handle.
LEMMA Stores ==
  ASSUME LoopInv, NEW t \in Dialers, StoreHandleOf(t) PROVE LoopInv'
<1> USE ReconnectAssumption DEF LoopInv, Dialers
<1>1. /\ at[t] = "storing" /\ handle' = child[t] /\ UNCHANGED doomed
      /\ child' = [child EXCEPT ![t] = NoTask] /\ at' = [at EXCEPT ![t] = "leaving"]
      /\ ~slipped' => ~slipped /\ (handle = NoTask \/ at[handle] = "free")
  BY DEF StoreHandleOf, Goto
<1>2. TasksPlaced'
  BY <1>1 DEF TasksPlaced, Places, Running
<1>3. at'[t] = "leaving" /\ \A u \in Dialers \ {t} : at'[u] = at[u] /\ child'[u] = child[u]
  BY <1>1 DEF TasksPlaced
<1>4. OneStores'
  BY <1>1, <1>3 DEF OneStores, Storing
<1>5. ASSUME NEW r \in Loops, Alive(r)', ~slipped' PROVE handle' = r
  <2>1. Alive(r)
    BY <1>1, <1>3, <1>5 DEF Alive
  <2>2. handle # r
    BY <1>1, <1>5, <2>1 DEF Alive
  <2>3. PICK u \in Dialers : child[u] = r
    BY <1>1, <1>5, <2>1, <2>2 DEF OneLoopHeld
  <2>4. u = t
    BY <1>1, <1>5, <2>3 DEF OneStores, Storing, TasksPlaced
  <2> QED
    BY <1>1, <2>3, <2>4
<1> QED
  BY <1>2, <1>4, <1>5 DEF OneLoopHeld

\* A step keeps the loops where they can be found.
LEMMA StepKeepsLoops == LoopInv /\ [ReNext]_reVars => LoopInv'
<1> SUFFICES ASSUME LoopInv, [ReNext]_reVars PROVE LoopInv'
  OBVIOUS
<1> USE DEF linkVars, loopVars, userVars
<1>1. ASSUME UNCHANGED loopVars PROVE LoopInv'
  BY <1>1 DEF LoopInv, TasksPlaced, OneStores, Storing, OneLoopHeld, Alive
<1>2. CASE ConnectDevice \/ DisconnectNow
  BY <1>2, Aborts DEF ConnectDevice, DisconnectNow
<1>3. CASE MarkAndDial \/ ForceDial
  <2>1. ASSUME NEW d \in Calls, at[d] = "free", Goto(d, "dialing"), UNCHANGED <<handle, child, doomed, slipped>>
        PROVE  LoopInv'
    <3>1. d \in Dialers /\ d \notin Loops /\ d \notin doomed
      BY ReconnectAssumption DEF Dialers, LoopInv, TasksPlaced
    <3>2. "dialing" \in Places \ {"storing"}
      BY DEF Places, Awaiting
    <3> QED
      BY <2>1, <3>1, <3>2, Moves
  <2> QED
    BY <1>1, <1>3, <2>1 DEF MarkAndDial, ForceDial
<1>4. CASE TrayDisconnect \/ Flushed \/ Resolve \/ Withdraw
  BY <1>1, <1>4 DEF TrayDisconnect, Flushed, Resolve, Withdraw
<1>5. ASSUME NEW t \in Dialers, NEW p \in {"free", "sleeping", "dialing"}, Goto(t, p), at[t] \in Awaiting,
             UNCHANGED <<handle, child, doomed, slipped>>
      PROVE  LoopInv'
  <2>1. p \in Places \ {"storing"} /\ at[t] # "storing" /\ at[t] # "free" /\ t \notin doomed
    BY <1>5 DEF Places, Awaiting, Running, Entering, LoopInv, TasksPlaced
  <2> QED
    BY <1>5, <2>1, Moves
<1>6. ASSUME NEW t \in Dialers, NEW p \in Entering \cup {"cleaning", "deciding", "leaving"}, Goto(t, p),
             at[t] \in {"dialing", "seating", "live", "cleaning", "deciding"},
             UNCHANGED <<handle, child, doomed, slipped>>
      PROVE  LoopInv'
  <2>1. p \in Places \ {"storing"} /\ at[t] # "storing" /\ at[t] # "free" /\ p \in Running
    BY <1>6 DEF Places, Awaiting, Running, Entering
  <2> QED
    BY <1>6, <2>1, Moves
<1>7. ASSUME NEW t \in Dialers, NoStream(t) PROVE LoopInv'
  BY <1>5, <1>7 DEF NoStream, NextRound, Awaiting
<1>8. ASSUME NEW t \in Dialers,
             Refused(t) \/ EnterStatus(t) \/ EnterSeat(t) \/ SessionEnds(t) \/ NoRespawn(t)
      PROVE  LoopInv'
  BY <1>6, <1>8 DEF Refused, EnterStatus, EnterSeat, SessionEnds, NoRespawn, Entering
<1>13. ASSUME NEW t \in Dialers, OpenLink(t) PROVE LoopInv'
  <2>1. at[t] = "linking" /\ UNCHANGED <<handle, child, slipped>>
    BY <1>13 DEF OpenLink
  <2>2. "free" \in Places \ {"storing"} /\ "live" \in Places \ {"storing"}
    BY DEF Places, Awaiting
  <2>3. CASE t \in doomed
    <3>1. Goto(t, "free") /\ doomed' = doomed \ {t}
      BY <1>13, <2>3 DEF OpenLink
    <3> QED
      BY <2>1, <2>2, <3>1, Moves
  <2>4. CASE t \notin doomed
    <3>1. Goto(t, "live") /\ doomed' = doomed
      BY <1>13, <2>4 DEF OpenLink
    <3> QED
      BY <2>1, <2>2, <2>4, <3>1, Moves
  <2> QED
    BY <2>3, <2>4
<1>9. ASSUME NEW t \in Dialers, CleanUp(t) PROVE LoopInv'
  <2>1. CASE intent
    BY <1>6, <1>9, <2>1 DEF CleanUp
  <2>2. CASE ~intent
    BY <1>6, <1>9, <2>2 DEF CleanUp
  <2> QED
    BY <2>1, <2>2
<1>10. ASSUME NEW t \in Dialers, Return(t) PROVE LoopInv'
  <2>0. at[t] = "leaving" /\ UNCHANGED <<handle, child, slipped>>
    BY <1>10 DEF Return
  <2>1. CASE t \in Calls
    <3>1. Goto(t, "free") /\ UNCHANGED doomed /\ t \notin doomed
      BY <1>10, <2>1, ReconnectAssumption DEF Return, LoopInv, TasksPlaced
    <3>2. "free" \in Places \ {"storing"}
      BY DEF Places
    <3> QED
      BY <2>0, <3>1, <3>2, Moves
  <2>2. CASE t \notin Calls
    <3>1. doomed' = doomed \ {t} /\ \E p \in {"free", "sleeping"} : Goto(t, p) /\ (t \in doomed => p = "free")
      BY <1>10, <2>2 DEF Return, NextRound
    <3>2. PICK p \in {"free", "sleeping"} : Goto(t, p) /\ (t \in doomed => p = "free")
      BY <3>1
    <3>3. p \in Places \ {"storing"}
      BY DEF Places, Awaiting
    <3> QED
      BY <2>0, <3>1, <3>2, <3>3, Moves
  <2> QED
    BY <2>1, <2>2
<1>11. ASSUME NEW r \in Loops, Wake(r) PROVE LoopInv'
  <2>1. r \in Dialers
    BY DEF Dialers
  <2> QED
    BY <1>5, <1>11, <2>1 DEF Wake, NextRound, Awaiting
<1>12. CASE UNCHANGED reVars
  BY <1>1, <1>12 DEF reVars
<1> QED
  BY <1>2, <1>3, <1>4, <1>7, <1>8, <1>9, <1>10, <1>11, <1>12, <1>13, Respawns, Stores DEF ReNext, User, Session

LEMMA LoopStart == ReInit => LoopInv
<1> SUFFICES ASSUME ReInit PROVE LoopInv
  OBVIOUS
<1>1. at = [t \in Dialers |-> "free"] /\ child = [t \in Dialers |-> NoTask] /\ handle = NoTask /\ doomed = {}
  BY DEF ReInit
<1>2. TasksPlaced
  BY <1>1 DEF TasksPlaced, Places
<1>3. OneStores /\ OneLoopHeld
  BY <1>1 DEF OneStores, Storing, OneLoopHeld, Alive, Dialers
<1> QED
  BY <1>2, <1>3 DEF LoopInv

\* For any number of calls and loops and any number of attempts, there is one reconnect loop at a time and abort_reconnect
\* finds it, as long as no abort has come between a spawn and its store (state.rs:453).
THEOREM LoopHeld == ReSpec => []OneLoopHeld
<1>1. LoopInv => OneLoopHeld
  BY DEF LoopInv
<1> QED
  BY <1>1, LoopStart, StepKeepsLoops, PTL DEF ReSpec

\* An abort that does not slip reaches the loop that dials or enters its session.
LEMMA AbortReaches ==
  ASSUME LoopInv, AbortLoop(at), NEW r \in Loops, ~slipped' PROVE Halted(r)'
<1>1. at \in [Dialers -> Places] /\ TasksPlaced
  BY DEF LoopInv, TasksPlaced
<1>2. Storing = {} /\ ~slipped
  BY DEF AbortLoop, Storing
<1>3. r \in Dialers /\ at[r] \in Places /\ r # NoTask
  BY <1>1, ReconnectAssumption DEF Dialers
<1>4. CASE r # handle
  <2>1. at'[r] = at[r] /\ doomed \subseteq doomed'
    BY <1>1, <1>3, <1>4, Aborted
  <2>2. ASSUME Alive(r) PROVE FALSE
    BY <1>1, <1>2, <1>3, <1>4, <2>2 DEF LoopInv, OneLoopHeld, TasksPlaced, Storing
  <2>3. at[r] = "free" \/ (r \in doomed /\ at[r] \in Running)
    BY <1>1, <2>2 DEF Alive, TasksPlaced
  <2> QED
    BY <2>1, <2>3 DEF Halted, Running, Entering
<1>5. CASE r = handle
  <2>1. CASE at[r] \in Awaiting
    <3>1. at'[r] = "free"
      BY <1>1, <1>3, <1>5, <2>1, Aborted DEF Running, Entering, Awaiting
    <3> QED
      BY <3>1 DEF Halted, Entering
  <2>2. CASE at[r] \in Running
    <3>1. at'[r] = at[r] /\ r \in doomed'
      BY <1>1, <1>3, <1>5, <2>2, Aborted DEF Running, Entering, Awaiting
    <3> QED
      BY <2>2, <3>1 DEF Halted, Running, Entering
  <2>3. CASE at[r] = "free"
    <3>1. at'[r] = "free"
      BY <1>1, <1>3, <1>5, <2>3, Aborted
    <3> QED
      BY <3>1 DEF Halted, Entering
  <2> QED
    BY <1>3, <2>1, <2>2, <2>3 DEF Places
<1> QED
  BY <1>4, <1>5

\* A step keeps the flag up and the loops undone once the user has disconnected.
LEMMA StepKeepsDisconnect == LoopInv /\ DisconnectHeld /\ [ReNext]_reVars => DisconnectHeld'
<1> SUFFICES ASSUME LoopInv, DisconnectHeld, [ReNext]_reVars PROVE DisconnectHeld'
  OBVIOUS
<1> USE DEF DisconnectHeld, linkVars, loopVars, userVars
<1>0. at \in [Dialers -> Places] /\ TasksPlaced
  BY DEF LoopInv, TasksPlaced
<1>1. CASE ConnectDevice \/ ForceDial
  BY <1>1 DEF ConnectDevice, ForceDial
<1>2. CASE DisconnectNow
  <2>1. intent' /\ AbortLoop(at)
    BY <1>2 DEF DisconnectNow
  <2>2. ~slipped' => \A r \in Loops : Halted(r)'
    BY <2>1, AbortReaches
  <2> QED
    BY <2>1, <2>2
<1>a. ASSUME NEW t \in Dialers, NEW p, Goto(t, p), told' => told, slipped = slipped', intent => intent',
             doomed' \in {doomed, doomed \ {t}},
             t \in Loops => p \notin Entering \cup {"dialing"} \/ (told /\ ~slipped => t \in doomed' /\ p # "dialing")
      PROVE  DisconnectHeld'
  <2> SUFFICES ASSUME told', ~slipped', NEW r \in Loops PROVE Halted(r)'
    BY <1>a
  <2>1. told /\ Halted(r) /\ r \in Dialers
    BY <1>a DEF Dialers
  <2>2. CASE r = t
    BY <1>0, <1>a, <2>1, <2>2 DEF Goto, Halted
  <2>3. CASE r # t
    BY <1>0, <1>a, <2>1, <2>3 DEF Goto, Halted
  <2> QED
    BY <2>2, <2>3
<1>3. CASE MarkAndDial
  <2>1. ASSUME NEW d \in Calls, Goto(d, "dialing") PROVE DisconnectHeld'
    <3>1. d \in Dialers /\ d \notin Loops
      BY ReconnectAssumption DEF Dialers
    <3> QED
      BY <1>3, <1>a, <2>1, <3>1 DEF MarkAndDial
  <2>2. CASE UNCHANGED at
    BY <1>3, <2>2 DEF MarkAndDial, Halted
  <2> QED
    BY <1>3, <2>1, <2>2 DEF MarkAndDial
<1>4. CASE TrayDisconnect \/ Flushed \/ Resolve \/ Withdraw
  BY <1>4 DEF TrayDisconnect, Flushed, Resolve, Withdraw, Halted
<1>5. ASSUME NEW t \in Dialers,
             NoStream(t) \/ Refused(t) \/ OpenLink(t) \/ SessionEnds(t) \/ CleanUp(t) \/ NoRespawn(t) \/ Return(t)
      PROVE  DisconnectHeld'
  <2>1. UNCHANGED <<told, slipped>>
    BY <1>5 DEF NoStream, Refused, OpenLink, SessionEnds, CleanUp, NoRespawn, Return
  <2>3. doomed' \in {doomed, doomed \ {t}}
    BY <1>5 DEF NoStream, Refused, OpenLink, SessionEnds, CleanUp, NoRespawn, Return
  <2>4. intent => intent'
    <3>1. CASE SessionEnds(t)
      BY <3>1 DEF SessionEnds
    <3>2. CASE ~SessionEnds(t)
      BY <1>5, <3>2 DEF NoStream, Refused, OpenLink, CleanUp, NoRespawn, Return
    <3> QED
      BY <3>1, <3>2
  <2>2. \E p \in {"free", "sleeping", "leaving", "live", "cleaning", "deciding"} : Goto(t, p)
    BY <1>5 DEF NoStream, NextRound, Refused, OpenLink, SessionEnds, CleanUp, NoRespawn, Return
  <2> QED
    BY <1>a, <2>1, <2>2, <2>3, <2>4 DEF Entering
<1>10. ASSUME NEW t \in Dialers, EnterStatus(t) \/ EnterSeat(t) PROVE DisconnectHeld'
  <2>1. UNCHANGED <<told, slipped, intent, doomed>> /\ at[t] \in {"dialing", "seating"}
        /\ (Goto(t, "seating") \/ Goto(t, "linking"))
    BY <1>10 DEF EnterStatus, EnterSeat
  <2>2. ASSUME t \in Loops, told, ~slipped PROVE t \in doomed'
    <3>1. Halted(t)
      BY <2>2
    <3> QED
      BY <2>1, <3>1 DEF Halted, Entering
  <2> QED
    BY <1>a, <2>1, <2>2
<1>6. ASSUME NEW t \in Dialers, Respawn(t) PROVE DisconnectHeld'
  <2>1. UNCHANGED <<told, intent>> /\ (~slipped' => ~slipped)
    BY <1>6 DEF Respawn, AbortLoop
  <2>2. PICK r \in Loops : AbortLoop([at EXCEPT ![t] = "storing", ![r] = "sleeping"])
    BY <1>6 DEF Respawn
  <2>3. [at EXCEPT ![t] = "storing", ![r] = "sleeping"] \in [Dialers -> Places]
    BY <1>0 DEF Places, Running, Awaiting
  <2>4. ASSUME NEW q \in Loops, at'[q] \in Entering \cup {"dialing"} PROVE at[q] = at'[q]
    <3> DEFINE others == [at EXCEPT ![t] = "storing", ![r] = "sleeping"]
    <3>1. q \in Dialers /\ q # NoTask
      BY ReconnectAssumption DEF Dialers
    <3>2. others[q] \in {"storing", "sleeping", at[q]} /\ AbortLoop(others) /\ others \in [Dialers -> Places]
      BY <1>0, <2>2, <2>3, <3>1
    <3> HIDE DEF others
    <3>3. at'[q] \in {"free", others[q]}
      BY <1>0, <3>1, <3>2, Aborted
    <3> QED
      BY <2>4, <3>2, <3>3 DEF Entering
  <2>5. doomed \subseteq doomed'
    BY <1>0, <2>2, <2>3, Aborted
  <2>6. ASSUME NEW q \in Loops, Halted(q) PROVE Halted(q)'
    BY <2>4, <2>5, <2>6 DEF Halted, Entering
  <2> QED
    BY <2>1, <2>6
<1>7. ASSUME NEW t \in Dialers, StoreHandleOf(t) PROVE DisconnectHeld'
  <2>1. Goto(t, "leaving") /\ UNCHANGED <<told, intent, doomed>> /\ (slipped => slipped')
    BY <1>7 DEF StoreHandleOf
  <2>2. ASSUME NEW q \in Loops, Halted(q) PROVE Halted(q)'
    BY <1>0, <2>1, <2>2 DEF Halted, Goto, Dialers, Entering
  <2> QED
    BY <2>1, <2>2
<1>8. ASSUME NEW r \in Loops, Wake(r) PROVE DisconnectHeld'
  <2>1. CASE intent
    BY <1>a, <1>8, <2>1 DEF Wake, Dialers, Entering
  <2>2. CASE ~intent
    BY <1>8, <2>2 DEF Wake
  <2> QED
    BY <2>1, <2>2
<1>9. CASE UNCHANGED reVars
  BY <1>9 DEF reVars, Halted
<1> QED
  BY <1>1, <1>2, <1>3, <1>4, <1>5, <1>6, <1>7, <1>8, <1>9, <1>10 DEF ReNext, User, Session

\* Once the user or the idle lock has disconnected, no loop begins to enter a session, nor serves the one it
\* was entering, before somebody dials again, however many loops there are (commands.rs:99, lib.rs:278).
THEOREM DisconnectHolds == ReSpec => DisconnectSticks
<1>1. ReInit => DisconnectHeld
  BY DEF ReInit, DisconnectHeld
<1>2. ASSUME LoopInv, DisconnectHeld, [ReNext]_reVars
      PROVE  [\A r \in Loops : at[r] # at'[r] /\ at'[r] \in {"seating", "live"} => ~told \/ slipped]_reVars
  <2> SUFFICES ASSUME ReNext, NEW r \in Loops, at[r] # at'[r], at'[r] \in {"seating", "live"}, told, ~slipped
               PROVE  FALSE
    BY <1>2
  <2> USE DEF linkVars, loopVars, userVars
  <2>0. at \in [Dialers -> Places] /\ TasksPlaced /\ r \in Dialers /\ Halted(r)
    BY <1>2 DEF LoopInv, TasksPlaced, Dialers, DisconnectHeld
  <2>1. ASSUME NEW t \in Dialers, NEW p, Goto(t, p), t = r => p \notin {"seating", "live"} PROVE FALSE
    BY <2>0, <2>1 DEF Goto
  <2>2. ASSUME NEW others \in [Dialers -> Places], AbortLoop(others), others[r] \in {"seating", "live"} => others[r] = at[r]
        PROVE  FALSE
    <3>1. at'[r] \in {others[r], "free"}
      BY <2>0, <2>2, Aborted, ReconnectAssumption
    <3> QED
      BY <2>2, <3>1
  <2>3. CASE ConnectDevice \/ DisconnectNow
    BY <2>0, <2>2, <2>3 DEF ConnectDevice, DisconnectNow
  <2>4. CASE MarkAndDial \/ ForceDial
    <3>1. ASSUME NEW d \in Calls, Goto(d, "dialing") PROVE FALSE
      BY <2>1, <3>1 DEF Dialers
    <3> QED
      BY <2>4, <3>1 DEF MarkAndDial, ForceDial
  <2>5. CASE TrayDisconnect \/ Flushed \/ Resolve \/ Withdraw
    BY <2>5 DEF TrayDisconnect, Flushed, Resolve, Withdraw
  <2>6. ASSUME NEW t \in Dialers,
               NoStream(t) \/ Refused(t) \/ SessionEnds(t) \/ CleanUp(t) \/ NoRespawn(t) \/ StoreHandleOf(t) \/ Return(t)
        PROVE  FALSE
    <3>1. \E p \in {"free", "sleeping", "leaving", "cleaning", "deciding"} : Goto(t, p)
      BY <2>6 DEF NoStream, NextRound, Refused, SessionEnds, CleanUp, NoRespawn, StoreHandleOf, Return
    <3> QED
      BY <2>1, <3>1
  <2>7. ASSUME NEW t \in Dialers, EnterStatus(t) \/ EnterSeat(t) PROVE FALSE
    <3>1. at[t] \in {"dialing", "seating"} /\ \E p \in {"seating", "linking"} : Goto(t, p) /\ (p = "seating" => at[t] = "dialing")
      BY <2>7 DEF EnterStatus, EnterSeat
    <3> QED
      BY <2>0, <2>1, <3>1 DEF Halted
  <2>8. ASSUME NEW t \in Dialers, OpenLink(t) PROVE FALSE
    <3>1. CASE t \in doomed
      <4>1. Goto(t, "free")
        BY <2>8, <3>1 DEF OpenLink
      <4> QED
        BY <2>1, <4>1
    <3>2. CASE t \notin doomed
      <4>1. Goto(t, "live") /\ at[t] = "linking"
        BY <2>8, <3>2 DEF OpenLink
      <4>2. t # r
        BY <2>0, <3>2, <4>1 DEF Halted, Entering
      <4> QED
        BY <2>1, <4>1, <4>2
    <3> QED
      BY <3>1, <3>2
  <2>9. ASSUME NEW t \in Dialers, Respawn(t) PROVE FALSE
    <3>1. PICK q \in Loops : AbortLoop([at EXCEPT ![t] = "storing", ![q] = "sleeping"])
      BY <2>9 DEF Respawn
    <3> DEFINE others == [at EXCEPT ![t] = "storing", ![q] = "sleeping"]
    <3>2. others \in [Dialers -> Places] /\ others[r] \in {"storing", "sleeping", at[r]}
      BY <2>0 DEF Places, Running, Awaiting
    <3> HIDE DEF others
    <3>3. AbortLoop(others)
      BY <3>1 DEF others
    <3> QED
      BY <2>2, <3>2, <3>3
  <2>10. ASSUME NEW q \in Loops, Wake(q) PROVE FALSE
    <3>1. q \in Dialers /\ \E p \in {"free", "sleeping", "dialing"} : Goto(q, p)
      BY <2>10 DEF Wake, NextRound, Dialers
    <3> QED
      BY <2>1, <3>1
  <2> QED
    BY <2>3, <2>4, <2>5, <2>6, <2>7, <2>8, <2>9, <2>10 DEF ReNext, User, Session
<1> QED
  BY <1>1, <1>2, LoopStart, StepKeepsLoops, StepKeepsDisconnect, PTL DEF ReSpec, DisconnectSticks

\* A loop that goes on retrying a loss.
Retries(r) == r \notin doomed /\ at[r] \in Trying

\* A step of a task other than the loop that retries leaves it where it is, and the loop itself goes on or
\* settles the loss.
LEMMA StepKeepsLoss == LoopInv /\ LossHeld /\ [ReNext]_reVars => LossHeld'
<1> SUFFICES ASSUME LoopInv, LossHeld, [ReNext]_reVars, lost' PROVE \E r \in Loops : Retries(r)'
  BY DEF LossHeld, Retries
<1> USE DEF linkVars, loopVars, userVars
<1>0. at \in [Dialers -> Places] /\ TasksPlaced
  BY DEF LoopInv, TasksPlaced
<1>a. lost => \E r \in Loops : Retries(r)
  BY DEF LossHeld, Retries
<1>1. CASE ConnectDevice \/ DisconnectNow \/ TrayDisconnect
  BY <1>1 DEF ConnectDevice, DisconnectNow, TrayDisconnect
<1>2. ASSUME UNCHANGED <<at, doomed, lost>> PROVE \E r \in Loops : Retries(r)'
  BY <1>2, <1>a DEF Retries
<1>3. ASSUME NEW t \in Dialers, NEW p \in Places, Goto(t, p), UNCHANGED <<doomed, lost>>,
             t \in Loops => ~Retries(t) \/ p \in Trying
      PROVE  \E r \in Loops : Retries(r)'
  <2>1. PICK r \in Loops : Retries(r)
    BY <1>3, <1>a
  <2>2. Retries(r)'
    BY <1>0, <1>3, <2>1 DEF Retries, Goto, Dialers
  <2> QED
    BY <2>2
<1>4. CASE MarkAndDial \/ ForceDial
  <2>1. ASSUME NEW d \in Calls, Goto(d, "dialing"), UNCHANGED <<doomed, lost>> PROVE \E r \in Loops : Retries(r)'
    <3>1. d \in Dialers /\ d \notin Loops /\ "dialing" \in Places
      BY ReconnectAssumption DEF Dialers, Places, Awaiting
    <3> QED
      BY <1>3, <2>1, <3>1
  <2> QED
    BY <1>2, <1>4, <2>1 DEF MarkAndDial, ForceDial
<1>5. CASE Flushed \/ Resolve \/ Withdraw
  BY <1>2, <1>5 DEF Flushed, Resolve, Withdraw
<1>6. ASSUME NEW t \in Dialers, NoStream(t) PROVE \E r \in Loops : Retries(r)'
  <2>1. CASE t \in Loops
    <3>1. Goto(t, "sleeping") /\ UNCHANGED <<doomed, lost>>
      BY <1>6, <2>1 DEF NoStream, NextRound
    <3> QED
      BY <1>3, <3>1 DEF Places, Awaiting, Trying
  <2>2. CASE t \notin Loops
    BY <1>3, <1>6, <2>2 DEF NoStream, Places
  <2> QED
    BY <2>1, <2>2
<1>7. ASSUME NEW t \in Dialers, Refused(t) \/ EnterStatus(t) \/ EnterSeat(t) \/ NoRespawn(t)
      PROVE  \E r \in Loops : Retries(r)'
  <2>1. UNCHANGED <<doomed, lost>> /\ \E p \in Entering \cup {"leaving"} : Goto(t, p)
    BY <1>7 DEF Refused, EnterStatus, EnterSeat, NoRespawn, Entering
  <2> QED
    BY <1>3, <2>1 DEF Places, Running, Trying
<1>b. ASSUME NEW t \in Dialers, NEW p, Goto(t, p), lost, t \in doomed, doomed' = doomed \ {t}
      PROVE  \E r \in Loops : Retries(r)'
  <2>1. PICK r \in Loops : Retries(r)
    BY <1>a, <1>b
  <2>2. Retries(r)'
    BY <1>0, <1>b, <2>1 DEF Retries, Goto, Dialers
  <2> QED
    BY <2>2
<1>8. ASSUME NEW t \in Dialers, OpenLink(t) PROVE \E r \in Loops : Retries(r)'
  BY <1>8, <1>b DEF OpenLink
<1>9. ASSUME NEW t \in Dialers, SessionEnds(t) \/ CleanUp(t) PROVE \E r \in Loops : Retries(r)'
  <2>1. at[t] \in {"live", "cleaning"} /\ UNCHANGED <<doomed, lost>>
        /\ (Goto(t, "cleaning") \/ Goto(t, "leaving") \/ Goto(t, "deciding"))
    BY <1>9 DEF SessionEnds, CleanUp
  <2>2. ~Retries(t)
    BY <2>1 DEF Retries, Trying, Entering
  <2> QED
    BY <1>3, <2>1, <2>2 DEF Places, Running
<1>10. ASSUME NEW t \in Dialers, Respawn(t) PROVE \E r \in Loops : Retries(r)'
  <2>1. PICK r \in Loops : /\ at[t] = "deciding" /\ Fresh(r)
                          /\ AbortLoop([at EXCEPT ![t] = "storing", ![r] = "sleeping"])
    BY <1>10 DEF Respawn
  <2>2. r \notin doomed /\ r # handle /\ r # t /\ r \in Dialers
    BY <1>0, <2>1 DEF Fresh, TasksPlaced, Running, Entering, Dialers
  <2>3. [at EXCEPT ![t] = "storing", ![r] = "sleeping"] \in [Dialers -> Places]
    BY <1>0 DEF Places, Running, Awaiting
  <2>4. at'[r] = "sleeping" /\ r \notin doomed'
    BY <1>0, <2>1, <2>2, <2>3, Aborted
  <2> QED
    BY <2>4 DEF Retries, Trying
<1>11. ASSUME NEW t \in Dialers, StoreHandleOf(t) PROVE \E r \in Loops : Retries(r)'
  BY <1>3, <1>11 DEF StoreHandleOf, Places, Running, Trying
<1>12. ASSUME NEW t \in Dialers, Return(t) PROVE \E r \in Loops : Retries(r)'
  <2>1. CASE t \in Calls
    <3>1. t \notin Loops /\ Goto(t, "free") /\ UNCHANGED <<doomed, lost>>
      BY <1>12, <2>1, ReconnectAssumption DEF Return
    <3> QED
      BY <1>3, <3>1 DEF Places
  <2>2. CASE t \notin Calls
    <3>0. t \in Loops /\ doomed' = doomed \ {t}
      BY <1>12, <2>2 DEF Return, Dialers
    <3>1. CASE intent
      BY <1>12, <2>2, <3>1 DEF Return
    <3>2. CASE ~intent /\ t \in doomed
      <4>1. Goto(t, "free") /\ (lost' => lost)
        BY <1>12, <2>2, <3>2 DEF Return
      <4> QED
        BY <1>b, <3>0, <3>2, <4>1
    <3>3. CASE ~intent /\ t \notin doomed
      <4>1. Goto(t, "sleeping") /\ UNCHANGED <<doomed, lost>>
        BY <1>12, <2>2, <3>0, <3>3 DEF Return, NextRound
      <4> QED
        BY <1>3, <4>1 DEF Places, Awaiting, Trying
    <3> QED
      BY <3>1, <3>2, <3>3
  <2> QED
    BY <2>1, <2>2
<1>13. ASSUME NEW r \in Loops, Wake(r) PROVE \E q \in Loops : Retries(q)'
  <2>1. (Goto(r, "sleeping") \/ Goto(r, "dialing")) /\ UNCHANGED <<doomed, lost>>
    BY <1>13 DEF Wake, NextRound
  <2>2. r \in Dialers
    BY DEF Dialers
  <2> QED
    BY <1>3, <2>1, <2>2 DEF Places, Awaiting, Trying
<1>14. CASE UNCHANGED reVars
  BY <1>2, <1>14 DEF reVars
<1> QED
  BY <1>1, <1>4, <1>5, <1>6, <1>7, <1>8, <1>9, <1>10, <1>11, <1>12, <1>13, <1>14 DEF ReNext, User, Session

\* However many sessions end at once, and in whichever task a loss is noticed, a loop is left
\* that no abort has reached, until something settles the loss (client.rs:529).
THEOREM LossRetried == ReSpec => []LossIsRetried
<1>1. ReInit => LossHeld
  BY DEF ReInit, LossHeld
<1>2. LossHeld => LossIsRetried
  BY DEF LossHeld, LossIsRetried, Alive, Trying, Entering
<1> QED
  BY <1>1, <1>2, LoopStart, StepKeepsLoops, StepKeepsLoss, PTL DEF ReSpec

Served     == Entering \cup {"live", "cleaning"}
Serving(t) == at[t] \in Served

\* A session leaves the table as connected only when it is aborted.
LEMMA StepKeepsConnected == LoopInv /\ ConnectedHasSession /\ [ReNext]_reVars => ConnectedHasSession'
<1> SUFFICES ASSUME LoopInv, ConnectedHasSession, [ReNext]_reVars, listing' = "connected", ~killed'
             PROVE  \E t \in Dialers : Serving(t)'
  BY DEF ConnectedHasSession, Serving, Served, Entering
<1> USE DEF linkVars, loopVars, userVars
<1>0. at \in [Dialers -> Places] /\ TasksPlaced
  BY DEF LoopInv, TasksPlaced
<1>a. ASSUME listing = "connected", ~killed PROVE \E t \in Dialers : Serving(t)
  BY <1>a DEF ConnectedHasSession, Serving, Served, Entering
<1>1. ASSUME UNCHANGED <<listing, at, killed>> PROVE \E t \in Dialers : Serving(t)'
  BY <1>1, <1>a DEF Serving
<1>2. ASSUME NEW u \in Dialers, NEW p \in Places, Goto(u, p), UNCHANGED <<listing, killed>>,
             ~Serving(u) \/ p \in Served
      PROVE  \E t \in Dialers : Serving(t)'
  <2>1. PICK t \in Dialers : Serving(t)
    BY <1>2, <1>a
  <2> QED
    BY <1>0, <1>2, <2>1 DEF Serving, Goto
<1>3. ASSUME NEW others \in [Dialers -> Places], AbortLoop(others), UNCHANGED listing,
             \A t \in Dialers : Serving(t) => others[t] = at[t]
      PROVE  \E t \in Dialers : Serving(t)'
  <2>1. ~killed
    BY <1>3 DEF AbortLoop
  <2>2. PICK t \in Dialers : Serving(t)
    BY <1>3, <1>a, <2>1
  <2>3. at'[t] = at[t]
    <3>1. CASE t = handle /\ at[t] \in Awaiting
      <4>1. at[t] = "live"
        BY <2>2, <3>1 DEF Serving, Served, Entering, Awaiting
      <4>2. handle # NoTask
        BY <3>1, ReconnectAssumption
      <4> QED
        BY <1>3, <3>1, <4>1, <4>2 DEF AbortLoop
    <3>2. CASE t = handle /\ at[t] \notin Awaiting
      BY <1>0, <1>3, <2>2, <3>2, Aborted, ReconnectAssumption
    <3>3. CASE t # handle
      BY <1>0, <1>3, <2>2, <3>3, Aborted
    <3> QED
      BY <3>1, <3>2, <3>3
  <2> QED
    BY <2>2, <2>3 DEF Serving
<1>4. CASE ConnectDevice \/ DisconnectNow
  BY <1>0, <1>3, <1>4 DEF ConnectDevice, DisconnectNow
<1>5. CASE MarkAndDial \/ ForceDial
  <2>1. ASSUME NEW d \in Calls, at[d] = "free", Goto(d, "dialing"), UNCHANGED <<listing, killed>>
        PROVE  \E t \in Dialers : Serving(t)'
    BY <1>2, <2>1 DEF Serving, Served, Entering, Dialers, Places, Awaiting
  <2> QED
    BY <1>1, <1>5, <2>1 DEF MarkAndDial, ForceDial
<1>6. CASE TrayDisconnect \/ Flushed \/ Resolve \/ Withdraw
  BY <1>1, <1>6 DEF TrayDisconnect, Flushed, Resolve, Withdraw
<1>7. ASSUME NEW t \in Dialers, NoStream(t) PROVE \E u \in Dialers : Serving(u)'
  <2>1. at[t] = "dialing" /\ UNCHANGED killed /\ (Goto(t, "free") \/ Goto(t, "sleeping"))
    BY <1>7 DEF NoStream, NextRound
  <2>2. UNCHANGED listing
    BY <1>7 DEF NoStream, SetStatus
  <2> QED
    BY <1>2, <2>1, <2>2 DEF Serving, Served, Entering, Places, Awaiting
<1>8. ASSUME NEW t \in Dialers, Refused(t) \/ CleanUp(t) PROVE FALSE
  BY <1>8 DEF Refused, CleanUp, SetStatus
<1>9. ASSUME NEW t \in Dialers, EnterStatus(t) \/ EnterSeat(t) \/ OpenLink(t) PROVE Serving(t)'
  <2>1. Goto(t, "seating") \/ Goto(t, "linking") \/ Goto(t, "live")
    BY <1>9 DEF EnterStatus, EnterSeat, OpenLink
  <2> QED
    BY <1>0, <2>1 DEF Goto, Serving, Served, Entering
<1>10. ASSUME NEW t \in Dialers, SessionEnds(t) \/ NoRespawn(t) \/ StoreHandleOf(t) PROVE \E u \in Dialers : Serving(u)'
  BY <1>2, <1>10 DEF SessionEnds, NoRespawn, StoreHandleOf, Serving, Served, Entering, Places, Running
<1>11. ASSUME NEW t \in Dialers, Return(t) PROVE \E u \in Dialers : Serving(u)'
  <2>1. at[t] = "leaving" /\ UNCHANGED <<listing, killed>> /\ (Goto(t, "free") \/ Goto(t, "sleeping"))
    BY <1>11 DEF Return, NextRound
  <2> QED
    BY <1>2, <2>1 DEF Serving, Served, Entering, Places, Awaiting
<1>12. ASSUME NEW t \in Dialers, Respawn(t) PROVE \E u \in Dialers : Serving(u)'
  <2>1. PICK r \in Loops : /\ at[t] = "deciding" /\ Fresh(r) /\ UNCHANGED listing
                          /\ AbortLoop([at EXCEPT ![t] = "storing", ![r] = "sleeping"])
    BY <1>12 DEF Respawn
  <2>2. [at EXCEPT ![t] = "storing", ![r] = "sleeping"] \in [Dialers -> Places]
    BY <1>0 DEF Places, Running, Awaiting
  <2>3. \A u \in Dialers : Serving(u) => [at EXCEPT ![t] = "storing", ![r] = "sleeping"][u] = at[u]
    BY <1>0, <2>1 DEF Serving, Served, Entering, Fresh
  <2> QED
    BY <1>3, <2>1, <2>2, <2>3
<1>13. ASSUME NEW r \in Loops, Wake(r) PROVE \E u \in Dialers : Serving(u)'
  <2>1. at[r] = "sleeping" /\ r \in Dialers /\ UNCHANGED <<listing, killed>>
        /\ (Goto(r, "free") \/ Goto(r, "sleeping") \/ Goto(r, "dialing"))
    BY <1>13 DEF Wake, NextRound, Dialers
  <2> QED
    BY <1>2, <2>1 DEF Serving, Served, Entering, Places, Awaiting
<1>14. CASE UNCHANGED reVars
  BY <1>1, <1>14 DEF reVars
<1> QED
  BY <1>4, <1>5, <1>6, <1>7, <1>8, <1>9, <1>10, <1>11, <1>12, <1>13, <1>14 DEF ReNext, User, Session

\* The device is listed as connected only while a session with it is entered, runs or is being cleaned up,
\* unless a session was aborted: nothing else leaves it so (client.rs:503).
THEOREM ConnectedServes == ReSpec => []ConnectedHasSession
<1>1. ReInit => ConnectedHasSession
  BY DEF ReInit, ConnectedHasSession
<1> QED
  BY <1>1, LoopStart, StepKeepsLoops, StepKeepsConnected, PTL DEF ReSpec

\* The table, the slot, the attempts of a loop and the flags.
ReRest ==
  /\ listing \in {"gone", "available", "pairing", "connected"} /\ command \in {"idle", "marking"}
  /\ seat \in Dialers \cup {NoTask} /\ netLink \in Dialers \cup {NoTask}
  /\ tries \in [Loops -> 0 .. Rounds]

ReFlags ==
  /\ intent \in BOOLEAN /\ flushing \in BOOLEAN /\ killed \in BOOLEAN
  /\ slipped \in BOOLEAN /\ told \in BOOLEAN /\ lost \in BOOLEAN

\* A loop has at most Rounds attempts.
LEMMA AttemptCounted ==
  ASSUME ReRest, NEW r \in Loops, NextRound(r) PROVE tries' \in [Loops -> 0 .. Rounds]
<1>1. tries[r] \in 0 .. Rounds /\ Rounds \in Nat
  BY ReconnectAssumption DEF ReRest
<1>2. CASE tries[r] + 1 < Rounds
  <2>1. tries[r] + 1 \in 0 .. Rounds
    BY <1>1, <1>2
  <2> QED
    BY <1>2, <2>1 DEF NextRound, ReRest
<1>3. CASE ~(tries[r] + 1 < Rounds)
  BY <1>1, <1>3 DEF NextRound, ReRest
<1> QED
  BY <1>2, <1>3

LEMMA StepKeepsReRest == ReRest /\ [ReNext]_reVars => ReRest'
<1> SUFFICES ASSUME ReRest, [ReNext]_reVars PROVE ReRest'
  OBVIOUS
<1> USE DEF linkVars, loopVars, userVars
<1>0. Rounds \in Nat /\ 0 \in 0 .. Rounds
  BY ReconnectAssumption
<1>1. CASE User
  BY <1>1 DEF User, ConnectDevice, MarkAndDial, ForceDial, DisconnectNow, TrayDisconnect, Flushed, ReRest
<1>2. CASE Resolve \/ Withdraw
  BY <1>2 DEF Resolve, Withdraw, ReRest
<1>3. ASSUME NEW t \in Dialers, NoStream(t) PROVE ReRest'
  <2>1. tries' \in [Loops -> 0 .. Rounds]
    BY <1>3, AttemptCounted DEF NoStream, ReRest
  <2> QED
    BY <1>3, <2>1 DEF NoStream, SetStatus, ReRest
<1>4. ASSUME NEW t \in Dialers,
             Refused(t) \/ EnterStatus(t) \/ EnterSeat(t) \/ SessionEnds(t) \/ CleanUp(t) \/ NoRespawn(t)
      PROVE  ReRest'
  BY <1>4 DEF Refused, EnterStatus, EnterSeat, SessionEnds, CleanUp, NoRespawn, SetStatus, ReRest
<1>10. ASSUME NEW t \in Dialers, OpenLink(t) PROVE ReRest'
  <2>1. tries' \in [Loops -> 0 .. Rounds]
    BY <1>0, <1>10 DEF OpenLink, ReRest
  <2> QED
    BY <1>10, <2>1 DEF OpenLink, ReRest
<1>5. ASSUME NEW t \in Dialers, Respawn(t) PROVE ReRest'
  BY <1>0, <1>5 DEF Respawn, ReRest
<1>6. ASSUME NEW t \in Dialers, StoreHandleOf(t) PROVE ReRest'
  BY <1>6 DEF StoreHandleOf, ReRest
<1>7. ASSUME NEW t \in Dialers, Return(t) PROVE ReRest'
  <2>1. tries' \in [Loops -> 0 .. Rounds]
    BY <1>0, <1>7, AttemptCounted DEF Return, Dialers, ReRest
  <2> QED
    BY <1>7, <2>1 DEF Return, ReRest
<1>8. ASSUME NEW r \in Loops, Wake(r) PROVE ReRest'
  <2>1. tries' \in [Loops -> 0 .. Rounds]
    BY <1>0, <1>8, AttemptCounted DEF Wake, ReRest
  <2> QED
    BY <1>8, <2>1 DEF Wake, ReRest
<1>9. CASE UNCHANGED reVars
  BY <1>9 DEF reVars, ReRest
<1> QED
  BY <1>1, <1>2, <1>3, <1>4, <1>5, <1>6, <1>7, <1>8, <1>9, <1>10 DEF ReNext, Session

LEMMA StepKeepsReFlags == ReFlags /\ [ReNext]_reVars => ReFlags'
<1> SUFFICES ASSUME ReFlags, [ReNext]_reVars PROVE ReFlags'
  OBVIOUS
<1> USE DEF linkVars, loopVars, userVars, ReFlags
<1>1. ASSUME NEW others, AbortLoop(others) PROVE killed' \in BOOLEAN /\ slipped' \in BOOLEAN
  <2>1. slipped' \in BOOLEAN
    BY <1>1 DEF AbortLoop
  <2>2. killed' \in BOOLEAN
    BY <1>1 DEF AbortLoop
  <2> QED
    BY <2>1, <2>2
<1>2. CASE User
  BY <1>1, <1>2 DEF User, ConnectDevice, MarkAndDial, ForceDial, DisconnectNow, TrayDisconnect, Flushed
<1>3. CASE Resolve \/ Withdraw
  BY <1>3 DEF Resolve, Withdraw
<1>4. ASSUME NEW t \in Dialers, NoStream(t) PROVE ReFlags'
  BY <1>4 DEF NoStream, NextRound
<1>5. ASSUME NEW t \in Dialers,
             Refused(t) \/ EnterStatus(t) \/ EnterSeat(t) \/ OpenLink(t) \/ SessionEnds(t) \/ CleanUp(t) \/ NoRespawn(t)
      PROVE  ReFlags'
  BY <1>5 DEF Refused, EnterStatus, EnterSeat, OpenLink, SessionEnds, CleanUp, NoRespawn
<1>6. ASSUME NEW t \in Dialers, Respawn(t) PROVE ReFlags'
  <2>1. killed' \in BOOLEAN /\ slipped' \in BOOLEAN
    BY <1>1, <1>6 DEF Respawn
  <2>2. lost' = TRUE /\ UNCHANGED <<intent, flushing, told>>
    BY <1>6 DEF Respawn
  <2> QED
    BY <2>1, <2>2
<1>7. ASSUME NEW t \in Dialers, StoreHandleOf(t) PROVE ReFlags'
  <2>1. slipped' \in BOOLEAN
    BY <1>7 DEF StoreHandleOf
  <2> QED
    BY <1>7, <2>1 DEF StoreHandleOf
<1>8. ASSUME NEW t \in Dialers, Return(t) PROVE ReFlags'
  <2>1. lost' \in BOOLEAN
    BY <1>8 DEF Return, NextRound
  <2> QED
    BY <1>8, <2>1 DEF Return
<1>9. ASSUME NEW r \in Loops, Wake(r) PROVE ReFlags'
  BY <1>9 DEF Wake, NextRound
<1>10. CASE UNCHANGED reVars
  BY <1>10 DEF reVars
<1> QED
  BY <1>2, <1>3, <1>4, <1>5, <1>6, <1>7, <1>8, <1>9, <1>10 DEF ReNext, Session

\* For any number of calls and loops, every slot and handle has a known owner and no loop makes more
\* attempts than it has (client.rs:556).
THEOREM ReTypeCorrect == ReSpec => []ReTypeOK
<1>1. ReInit => ReRest /\ ReFlags
  <2> SUFFICES ASSUME ReInit PROVE ReRest /\ ReFlags
    OBVIOUS
  <2>1. tries \in [Loops -> 0 .. Rounds]
    BY ReconnectAssumption DEF ReInit
  <2>2. ReFlags
    BY DEF ReInit, ReFlags
  <2> QED
    BY <2>1, <2>2 DEF ReInit, ReRest
<1>2. LoopInv /\ ReRest /\ ReFlags => ReTypeOK
  <2> SUFFICES ASSUME LoopInv, ReRest, ReFlags PROVE ReTypeOK
    OBVIOUS
  <2>1. {intent, flushing, killed, slipped, told, lost} \subseteq BOOLEAN
    BY DEF ReFlags
  <2>2. at \in [Dialers -> {"free", "seating", "linking", "cleaning", "deciding", "storing", "leaving"} \cup Awaiting]
    BY DEF LoopInv, TasksPlaced, Places, Running, Entering
  <2> QED
    BY <2>1, <2>2 DEF LoopInv, TasksPlaced, ReRest, ReTypeOK
<1> QED
  BY <1>1, <1>2, LoopStart, StepKeepsLoops, StepKeepsReRest, StepKeepsReFlags, PTL DEF ReSpec

-----------------------------------------------------------------------------
(* The tap of a relaying Mac.                                                *)

\* While no release or activation has come upon a thread on its way, there is one thread at most, and
\* its run loop is filed from when it says so until it is told to stop.
TapHeld ==
  /\ tap \in [Taps -> TapStages]
  /\ ~tapEarly =>
       /\ \A c, d \in Taps : tap[c] # "free" /\ tap[d] # "free" => c = d
       /\ \A c \in Taps : tap[c] = "filed" => tapLoop = c
       /\ LoopsStoppable

\* A step of a task or of a tap thread keeps the run loop where it can be stopped.
LEMMA StepKeepsTap == TapHeld /\ [MacNext]_macVars => TapHeld'
<1> SUFFICES ASSUME TapHeld, [MacNext]_macVars PROVE TapHeld'
  OBVIOUS
<1> USE MacAssumption DEF TapHeld, LoopsStoppable, TapStages, TapTo, curVars, tapVars, histVars
<1>1. ASSUME UNCHANGED <<tap, tapLoop, stops, tapEarly>> PROVE TapHeld'
  BY <1>1
<1>2. ASSUME NEW t \in MacTasks, SpawnTap(t) PROVE TapHeld'
  <2>1. PICK c \in Taps : tap[c] = "free" /\ tap' = [tap EXCEPT ![c] = "spawned"]
    BY <1>2 DEF SpawnTap
  <2>2. UNCHANGED <<tapLoop, stops>> /\ (~tapEarly' => ~tapEarly /\ \A d \in Taps : tap[d] = "free")
    BY <1>2 DEF SpawnTap
  <2> QED
    BY <2>1, <2>2
<1>3. ASSUME NEW t \in MacTasks, StopLoop(t) PROVE TapHeld'
  <2>1. UNCHANGED tap /\ tapLoop' = NoTap /\ stops' = stops \cup ({tapLoop} \ {NoTap})
    BY <1>3 DEF StopLoop, TakeLoop
  <2>2. ~tapEarly' => ~tapEarly /\ \A d \in Taps : tap[d] \in {"free", "running"}
    BY <1>3 DEF StopLoop
  <2> QED
    BY <2>1, <2>2
<1>4. ASSUME NEW t \in MacTasks, ActivateMac(t) \/ DropMac(t), ~SpawnTap(t), ~StopLoop(t) PROVE TapHeld'
  BY <1>1, <1>4 DEF ActivateMac, DropMac, SwapOn, Detach, HideMac, FlagMac, InstallMac,
                    TakeGuard, SwapOff, DropPort, ShowMac, Attach
<1>5. ASSUME NEW t \in MacTasks, TakeMac(t) \/ ReleaseMac(t) PROVE TapHeld'
  BY <1>1, <1>5 DEF TakeMac, ReleaseMac
<1>6. ASSUME NEW c \in Taps, OpenTap(c) \/ DenyTap(c) PROVE TapHeld'
  BY <1>6 DEF OpenTap, DenyTap
<1>7. ASSUME NEW c \in Taps, FileLoop(c) PROVE TapHeld'
  BY <1>7 DEF FileLoop
<1>8. ASSUME NEW c \in Taps, RunLoop(c) PROVE TapHeld'
  BY <1>8 DEF RunLoop
<1>9. ASSUME NEW c \in Taps, LeaveLoop(c) \/ ForgetLoop(c) \/ ForgetPort(c) PROVE TapHeld'
  BY <1>9 DEF LeaveLoop, ForgetLoop, ForgetPort
<1>10. ASSUME NEW c \in Taps, TimedOut(c) PROVE TapHeld'
  BY <1>1, <1>10 DEF TimedOut
<1>11. ASSUME NEW c \in Taps, DisabledByPolicy(c) PROVE TapHeld'
  <2>1. UNCHANGED <<tap, tapEarly>> /\ tapLoop' = NoTap /\ stops' = stops \cup ({tapLoop} \ {NoTap}) /\ tap[c] = "running"
    BY <1>11 DEF DisabledByPolicy, TakeLoop
  <2> QED
    BY <2>1
<1>12. CASE UNCHANGED macVars
  BY <1>1, <1>12 DEF macVars
<1> QED
  BY <1>2, <1>3, <1>4, <1>5, <1>6, <1>7, <1>8, <1>9, <1>10, <1>11, <1>12 DEF MacNext, TapThread, MacTasks

\* For any number of tasks and tap threads, a run loop that feeds a tap can be stopped, while no release
\* or activation has come upon a thread on its way (raw_mouse_mac.rs:94, 190).
THEOREM TapsStoppable == MacSpec => []LoopsStoppable
<1>1. MacInit => TapHeld
  BY DEF MacInit, TapHeld, TapStages, LoopsStoppable
<1>2. TapHeld => LoopsStoppable
  BY DEF TapHeld, LoopsStoppable
<1> QED
  BY <1>1, <1>2, StepKeepsTap, PTL DEF MacSpec

-----------------------------------------------------------------------------
(* The cursor of a relaying Mac.                                             *)

FlaggingMac == {t \in MacTasks : macStep[t] = "flagging"}

\* Every hide is the one the flag stands for, or that of a task about to set it.
MacHidesCovered == Cardinality(FlaggingMac) + (IF hideOn THEN 1 ELSE 0) <= macHidden

\* What holds until two tasks overlap or a tap fails.  A task alone between two
\* of its steps: what it has done of the activation, or has still to undo of it.
MacOneTask == \A t, u \in MacTasks : macStep[t] # "idle" /\ macStep[u] # "idle" => t = u
MacExact   ==
  /\ macHidden = Cardinality(FlaggingMac) + (IF hideOn THEN 1 ELSE 0)
  /\ hideOn => tapActive \/ \E t \in MacTasks : macStep[t] \in {"stopping", "unporting", "showing"}
  /\ detached => tapActive \/ \E t \in MacTasks : macStep[t] \in MacDropping \ {"deactivating"}
MacStarted ==
  \A t \in MacTasks :
    /\ macStep[t] \in {"detaching", "hiding", "flagging"} => tapActive /\ ~hideOn
    /\ macStep[t] \in MacActivating => macRelay
    /\ macStep[t] \in MacDropping \ {"deactivating"} => ~tapActive
MacHeld    ==
  /\ tapActive => guarded \/ \E t \in MacTasks :
                    macStep[t] \in (MacActivating \ {"swapping"}) \cup {"deactivating"}
  /\ MacQuiet /\ ~macRelay => ~tapActive
MacAlone   ==
  ~macMet /\ ~tapFailed => MacOneTask /\ MacExact /\ MacStarted /\ MacHeld

MacInv == MacTypeOK /\ MacHidesCovered /\ MacAlone

LEMMA FlaggingMacFinite == IsFiniteSet(FlaggingMac) /\ Cardinality(FlaggingMac) \in Nat
BY MacAssumption, FS_Subset, FS_CardinalityType DEF FlaggingMac

\* Every step of a task or of a tap thread keeps the types; ShowMac, because what
\* it undoes has been counted.
LEMMA StepKeepsMacType == MacTypeOK /\ MacHidesCovered /\ [MacNext]_macVars => MacTypeOK'
<1> SUFFICES ASSUME MacTypeOK, MacHidesCovered, [MacNext]_macVars PROVE MacTypeOK'
  OBVIOUS
<1>0. hideOn => macHidden > 0
  BY FlaggingMacFinite DEF MacHidesCovered, MacTypeOK
<1> USE MacAssumption DEF MacTypeOK, StepTo, TapTo, Starts, MacTasks, MacActivating,
      MacDropping, TapStages, curVars, tapVars, histVars
<1>1. ASSUME NEW t \in MacTasks, TakeMac(t) \/ ReleaseMac(t) PROVE MacTypeOK'
  BY <1>1 DEF TakeMac, ReleaseMac
<1>2. ASSUME NEW t \in MacTasks, ActivateMac(t) PROVE MacTypeOK'
  <2>1. CASE SwapOn(t)     BY <2>1 DEF SwapOn
  <2>2. CASE Detach(t)     BY <2>2 DEF Detach
  <2>3. CASE HideMac(t)    BY <2>3 DEF HideMac
  <2>4. CASE FlagMac(t)    BY <2>4 DEF FlagMac
  <2>5. CASE SpawnTap(t)   BY <2>5 DEF SpawnTap
  <2>6. CASE InstallMac(t) BY <2>6 DEF InstallMac
  <2> QED BY <1>2, <2>1, <2>2, <2>3, <2>4, <2>5, <2>6 DEF ActivateMac
<1>3. ASSUME NEW t \in MacTasks, DropMac(t) PROVE MacTypeOK'
  <2>1. CASE TakeGuard(t)  BY <2>1 DEF TakeGuard
  <2>2. CASE SwapOff(t)    BY <2>2 DEF SwapOff
  <2>3. CASE StopLoop(t)   BY <2>3 DEF StopLoop, TakeLoop
  <2>4. CASE DropPort(t)   BY <2>4 DEF DropPort
  <2>5. CASE ShowMac(t)
    <3>1. macHidden' \in 0 .. MacHideCap
      <4>1. CASE hideOn   BY <1>0, <2>5, <4>1 DEF ShowMac
      <4>2. CASE ~hideOn  BY <2>5, <4>2 DEF ShowMac
      <4> QED BY <4>1, <4>2
    <3> QED BY <2>5, <3>1 DEF ShowMac
  <2>6. CASE Attach(t)     BY <2>6 DEF Attach
  <2> QED BY <1>3, <2>1, <2>2, <2>3, <2>4, <2>5, <2>6 DEF DropMac
<1>4. ASSUME NEW c \in Taps, TapThread(c) PROVE MacTypeOK'
  <2>1. CASE OpenTap(c)    BY <2>1 DEF OpenTap
  <2>2. CASE DenyTap(c)    BY <2>2 DEF DenyTap
  <2>3. CASE FileLoop(c)   BY <2>3 DEF FileLoop
  <2>4. CASE RunLoop(c)    BY <2>4 DEF RunLoop
  <2>5. CASE LeaveLoop(c)  BY <2>5 DEF LeaveLoop
  <2>6. CASE ForgetLoop(c) BY <2>6 DEF ForgetLoop
  <2>7. CASE ForgetPort(c) BY <2>7 DEF ForgetPort
  <2>8. CASE TimedOut(c)   BY <2>8 DEF TimedOut
  <2>9. CASE DisabledByPolicy(c)
    BY <2>9 DEF DisabledByPolicy, TakeLoop
  <2> QED
    BY <1>4, <2>1, <2>2, <2>3, <2>4, <2>5, <2>6, <2>7, <2>8, <2>9 DEF TapThread
<1>5. CASE UNCHANGED macVars
  BY <1>5 DEF macVars
<1> QED
  BY <1>1, <1>2, <1>3, <1>4, <1>5 DEF MacNext

\* HideMac adds a task to those about to set the flag and one to the hides; FlagMac trades
\* the task for the flag, and ShowMac the flag for one of the hides.
LEMMA StepKeepsMacHides ==
  MacTypeOK /\ MacHidesCovered /\ [MacNext]_macVars => MacHidesCovered'
<1> SUFFICES ASSUME MacTypeOK, MacHidesCovered, [MacNext]_macVars PROVE MacHidesCovered'
  OBVIOUS
<1> USE FlaggingMacFinite DEF StepTo, MacTasks
<1>1. ASSUME FlaggingMac' = FlaggingMac, UNCHANGED <<hideOn, macHidden>> PROVE MacHidesCovered'
  BY <1>1 DEF MacHidesCovered
<1>2. ASSUME NEW t \in MacTasks, HideMac(t) PROVE MacHidesCovered'
  <2>1. CASE macHidden' = macHidden + 1 /\ StepTo(t, "flagging")
    <3>1. FlaggingMac' = FlaggingMac \cup {t} /\ t \notin FlaggingMac
      BY <1>2, <2>1 DEF HideMac, FlaggingMac, MacTypeOK
    <3>2. Cardinality(FlaggingMac') = Cardinality(FlaggingMac) + 1
      BY <3>1, FS_AddElement
    <3> QED BY <1>2, <2>1, <3>2 DEF HideMac, MacHidesCovered, MacTypeOK
  <2>2. CASE UNCHANGED macHidden /\ StepTo(t, "spawning")
    <3>1. FlaggingMac' = FlaggingMac
      BY <1>2, <2>2 DEF HideMac, FlaggingMac, MacTypeOK
    <3> QED BY <1>1, <1>2, <2>2, <3>1 DEF HideMac
  <2> QED BY <1>2, <2>1, <2>2 DEF HideMac
<1>3. ASSUME NEW t \in MacTasks, FlagMac(t) PROVE MacHidesCovered'
  <2>1. FlaggingMac' = FlaggingMac \ {t} /\ t \in FlaggingMac
    BY <1>3 DEF FlagMac, FlaggingMac, MacTypeOK
  <2>2. Cardinality(FlaggingMac') = Cardinality(FlaggingMac) - 1
    BY <2>1, FS_RemoveElement
  <2> QED BY <1>3, <2>2 DEF FlagMac, MacHidesCovered, MacTypeOK
<1>4. ASSUME NEW t \in MacTasks, ShowMac(t) PROVE MacHidesCovered'
  <2>1. FlaggingMac' = FlaggingMac
    BY <1>4 DEF ShowMac, FlaggingMac, MacTypeOK
  <2> QED BY <1>4, <2>1 DEF ShowMac, MacHidesCovered, MacTypeOK
<1>5. ASSUME NEW t \in MacTasks, TakeMac(t) \/ ReleaseMac(t) \/ ActivateMac(t) \/ DropMac(t),
             ~HideMac(t), ~FlagMac(t), ~ShowMac(t)
      PROVE MacHidesCovered'
  <2>1. FlaggingMac' = FlaggingMac /\ UNCHANGED <<hideOn, macHidden>>
    BY <1>5 DEF TakeMac, ReleaseMac, Starts, ActivateMac, DropMac, SwapOn, Detach, SpawnTap,
       InstallMac, TakeGuard, SwapOff, StopLoop, DropPort, Attach, FlaggingMac, MacTypeOK,
       curVars
  <2> QED BY <1>1, <2>1
<1>6. ASSUME NEW c \in Taps, TapThread(c) PROVE MacHidesCovered'
  <2>1. UNCHANGED <<macStep, hideOn, macHidden>>
    BY <1>6 DEF TapThread, OpenTap, DenyTap, FileLoop, RunLoop, LeaveLoop, ForgetLoop,
       ForgetPort, TimedOut, DisabledByPolicy, curVars
  <2> QED BY <1>1, <2>1 DEF FlaggingMac
<1>7. CASE UNCHANGED macVars
  BY <1>1, <1>7 DEF macVars, curVars, FlaggingMac
<1> QED
  BY <1>2, <1>3, <1>4, <1>5, <1>6, <1>7 DEF MacNext

\* What a lone task has done and not undone, as its place tells.
Undone(s) ==
  /\ macHidden = (IF s = "flagging" THEN 1 ELSE 0) + (IF hideOn THEN 1 ELSE 0)
  /\ hideOn => tapActive \/ s \in {"stopping", "unporting", "showing"}
  /\ detached => tapActive \/ s \in MacDropping \ {"deactivating"}
  /\ s \in {"detaching", "hiding", "flagging"} => tapActive /\ ~hideOn
  /\ s \in MacActivating => macRelay
  /\ s \in MacDropping \ {"deactivating"} => ~tapActive
  /\ tapActive => guarded \/ s \in (MacActivating \ {"swapping"}) \cup {"deactivating"}
  /\ s = "idle" /\ ~macRelay => ~tapActive

\* Until tasks overlap or a tap fails, the invariant is about the one task under way.
LEMMA StepKeepsMacAlone ==
  MacTypeOK /\ MacAlone /\ [MacNext]_macVars => MacAlone'
<1> SUFFICES ASSUME MacTypeOK, MacAlone, [MacNext]_macVars, ~macMet', ~tapFailed'
             PROVE (MacOneTask /\ MacExact /\ MacStarted /\ MacHeld)'
  BY DEF MacAlone
<1>0. ~macMet /\ ~tapFailed
  <2>1. ASSUME NEW t \in MacTasks, TakeMac(t) \/ ReleaseMac(t) PROVE ~macMet /\ ~tapFailed
    <3>1. macMet' = (macMet \/ \E u \in MacTasks : macStep[u] # "idle") /\ UNCHANGED tapFailed
      BY <2>1 DEF TakeMac, ReleaseMac, Starts
    <3> QED BY <3>1
  <2>2. ASSUME NEW t \in MacTasks, ActivateMac(t) PROVE ~macMet /\ ~tapFailed
    BY <2>2 DEF ActivateMac, SwapOn, Detach, HideMac, FlagMac, SpawnTap, InstallMac, histVars
  <2>3. ASSUME NEW t \in MacTasks, DropMac(t) PROVE ~macMet /\ ~tapFailed
    BY <2>3 DEF DropMac, TakeGuard, SwapOff, StopLoop, DropPort, ShowMac, Attach, histVars
  <2>4. ASSUME NEW c \in Taps, TapThread(c) PROVE ~macMet /\ ~tapFailed
    BY <2>4 DEF TapThread, OpenTap, DenyTap, FileLoop, RunLoop, LeaveLoop, ForgetLoop,
       ForgetPort, TimedOut, DisabledByPolicy, histVars
  <2>5. CASE UNCHANGED macVars
    BY <2>5 DEF macVars, histVars
  <2> QED BY <2>1, <2>2, <2>3, <2>4, <2>5 DEF MacNext, MacTasks
<1>1. MacOneTask /\ MacExact /\ MacStarted /\ MacHeld
  BY <1>0 DEF MacAlone
<1>2. ASSUME NEW t \in MacTasks, \A u \in MacTasks \ {t} : macStep[u] = "idle"
      PROVE Undone(macStep[t])
  <2>1. FlaggingMac = (IF macStep[t] = "flagging" THEN {t} ELSE {})
    BY <1>2 DEF FlaggingMac
  <2>2. Cardinality(FlaggingMac) = IF macStep[t] = "flagging" THEN 1 ELSE 0
    BY <2>1, FS_EmptySet, FS_Singleton
  <2>3. \A S : "idle" \notin S /\ (\E u \in MacTasks : macStep[u] \in S) => macStep[t] \in S
    BY <1>2
  <2>4. /\ hideOn => tapActive \/ macStep[t] \in {"stopping", "unporting", "showing"}
        /\ detached => tapActive \/ macStep[t] \in MacDropping \ {"deactivating"}
        /\ tapActive => guarded \/ macStep[t] \in (MacActivating \ {"swapping"}) \cup {"deactivating"}
    BY <1>1, <2>3 DEF MacExact, MacHeld, MacDropping, MacActivating
  <2>5. macStep[t] = "idle" /\ ~macRelay => ~tapActive
    BY <1>1, <1>2 DEF MacHeld, MacQuiet
  <2> QED BY <1>1, <2>2, <2>4, <2>5 DEF Undone, MacExact, MacStarted
<1>3. ASSUME NEW t \in MacTasks, NEW s, StepTo(t, s), Undone(s)',
             \A u \in MacTasks \ {t} : macStep[u] = "idle"
      PROVE (MacOneTask /\ MacExact /\ MacStarted /\ MacHeld)'
  <2>1. macStep'[t] = s /\ \A u \in MacTasks \ {t} : macStep'[u] = "idle"
    BY <1>3 DEF StepTo, MacTypeOK
  <2>2. FlaggingMac' = (IF s = "flagging" THEN {t} ELSE {})
    BY <2>1 DEF FlaggingMac
  <2>3. Cardinality(FlaggingMac') = IF s = "flagging" THEN 1 ELSE 0
    BY <2>2, FS_EmptySet, FS_Singleton
  <2>4. MacOneTask'
    BY <2>1 DEF MacOneTask
  <2>5. MacExact'
    BY <1>3, <2>1, <2>3 DEF MacExact, Undone
  <2>6. MacStarted'
    BY <1>3, <2>1 DEF MacStarted, Undone, MacActivating, MacDropping
  <2>7. MacHeld'
    BY <1>3, <2>1 DEF MacHeld, Undone, MacQuiet
  <2> QED BY <2>4, <2>5, <2>6, <2>7
<1>4. ASSUME NEW t \in MacTasks, macStep[t] # "idle"
      PROVE \A u \in MacTasks \ {t} : macStep[u] = "idle"
  BY <1>1, <1>4 DEF MacOneTask
<1> USE DEF Undone, MacActivating, MacDropping, MacTypeOK, curVars, tapVars
<1>5. ASSUME NEW t \in MacTasks, TakeMac(t) \/ ReleaseMac(t)
      PROVE (MacOneTask /\ MacExact /\ MacStarted /\ MacHeld)'
  <2>1. \A u \in MacTasks : macStep[u] = "idle"
    BY <1>5 DEF TakeMac, ReleaseMac, Starts
  <2>2. Undone("idle")
    BY <1>2, <2>1
  <2> QED BY <1>3, <1>5, <2>1, <2>2 DEF TakeMac, ReleaseMac
<1>6. ASSUME NEW t \in MacTasks, ActivateMac(t)
      PROVE (MacOneTask /\ MacExact /\ MacStarted /\ MacHeld)'
  <2>1. macStep[t] # "idle"
    BY <1>6 DEF ActivateMac, SwapOn, Detach, HideMac, FlagMac, SpawnTap, InstallMac
  <2>2. Undone(macStep[t]) /\ \A u \in MacTasks \ {t} : macStep[u] = "idle"
    BY <1>2, <1>4, <2>1
  <2>3. CASE SwapOn(t)     BY <1>3, <2>2, <2>3 DEF SwapOn
  <2>4. CASE Detach(t)     BY <1>3, <2>2, <2>4 DEF Detach
  <2>5. CASE HideMac(t)
    <3>1. CASE macHidden' = macHidden + 1 /\ StepTo(t, "flagging")
      BY <1>3, <2>2, <2>5, <3>1 DEF HideMac
    <3>2. CASE UNCHANGED macHidden /\ StepTo(t, "spawning")
      BY <1>3, <2>2, <2>5, <3>2 DEF HideMac
    <3> QED BY <2>5, <3>1, <3>2 DEF HideMac
  <2>6. CASE FlagMac(t)    BY <1>3, <2>2, <2>6 DEF FlagMac
  <2>7. CASE SpawnTap(t)   BY <1>3, <2>2, <2>7 DEF SpawnTap
  <2>8. CASE InstallMac(t) BY <1>3, <2>2, <2>8 DEF InstallMac
  <2> QED BY <1>6, <2>3, <2>4, <2>5, <2>6, <2>7, <2>8 DEF ActivateMac
<1>7. ASSUME NEW t \in MacTasks, DropMac(t)
      PROVE (MacOneTask /\ MacExact /\ MacStarted /\ MacHeld)'
  <2>1. macStep[t] # "idle"
    BY <1>7 DEF DropMac, TakeGuard, SwapOff, StopLoop, DropPort, ShowMac, Attach
  <2>2. Undone(macStep[t]) /\ \A u \in MacTasks \ {t} : macStep[u] = "idle"
    BY <1>2, <1>4, <2>1
  <2>3. CASE TakeGuard(t)  BY <1>3, <2>2, <2>3 DEF TakeGuard
  <2>4. CASE SwapOff(t)    BY <1>3, <2>2, <2>4 DEF SwapOff
  <2>5. CASE StopLoop(t)   BY <1>3, <2>2, <2>5 DEF StopLoop
  <2>6. CASE DropPort(t)   BY <1>3, <2>2, <2>6 DEF DropPort
  <2>7. CASE ShowMac(t)    BY <1>3, <2>2, <2>7 DEF ShowMac
  <2>8. CASE Attach(t)     BY <1>3, <2>2, <2>8 DEF Attach
  <2> QED BY <1>7, <2>3, <2>4, <2>5, <2>6, <2>7, <2>8 DEF DropMac
<1>8. ASSUME UNCHANGED <<macRelay, guarded, macStep, hideOn, macHidden, detached, tapActive>>
      PROVE (MacOneTask /\ MacExact /\ MacStarted /\ MacHeld)'
  BY <1>1, <1>8 DEF MacOneTask, MacExact, MacStarted, MacHeld, FlaggingMac, MacQuiet
<1>9. ASSUME NEW c \in Taps, TapThread(c)
      PROVE UNCHANGED <<macRelay, guarded, macStep, hideOn, macHidden, detached, tapActive>>
  BY <1>9 DEF TapThread, OpenTap, DenyTap, FileLoop, RunLoop, LeaveLoop, ForgetLoop,
     ForgetPort, TimedOut, DisabledByPolicy
<1>10. CASE UNCHANGED macVars
  BY <1>8, <1>10 DEF macVars
<1> QED
  BY <1>5, <1>6, <1>7, <1>8, <1>9, <1>10 DEF MacNext, MacTasks

\* The invariant of the Mac's guard holds initially and is kept by every step.
THEOREM MacInvariance == MacSpec => []MacInv
<1>1. ASSUME MacInit PROVE MacInv
  <2>1. FlaggingMac = {}
    BY <1>1 DEF MacInit, FlaggingMac
  <2>2. MacTypeOK
    <3>1. macStep \in [MacTasks -> {"idle"}] /\ tap \in [Taps -> TapStages]
      BY <1>1 DEF MacInit, TapStages
    <3>2. macHidden \in 0 .. MacHideCap
      BY <1>1, MacAssumption DEF MacInit
    <3> QED BY <1>1, <3>1, <3>2 DEF MacInit, MacTypeOK
  <2> QED
    BY <1>1, <2>1, <2>2, FS_EmptySet
    DEF MacInit, MacInv, MacHidesCovered, MacAlone, MacOneTask, MacExact, MacStarted,
        MacHeld, MacActivating, MacDropping
<1>2. MacInv /\ [MacNext]_macVars => MacInv'
  BY StepKeepsMacType, StepKeepsMacHides, StepKeepsMacAlone DEF MacInv
<1> QED
  BY <1>1, <1>2, PTL DEF MacSpec

\* Once control is released the Mac's cursor is visible and follows the mouse again, for any
\* tasks and tap threads, unless tasks overlapped or a tap failed (raw_mouse_mac.rs:124, 178).
THEOREM MacCursorReturns == MacSpec => []MacCursorBack
<1>1. ASSUME MacInv PROVE MacCursorBack
  <2>1. hideOn => macHidden > 0
    BY <1>1, FlaggingMacFinite DEF MacInv, MacHidesCovered, MacTypeOK
  <2>2. ASSUME MacQuiet, ~macRelay, ~macMet, ~tapFailed
        PROVE macHidden = 0 /\ ~detached /\ ~tapActive
    <3>1. MacExact /\ MacHeld
      BY <1>1, <2>2 DEF MacInv, MacAlone
    <3>2. FlaggingMac = {} /\ ~tapActive
      BY <2>2, <3>1 DEF MacQuiet, FlaggingMac, MacHeld
    <3>3. ~hideOn /\ ~detached
      BY <2>2, <3>1, <3>2 DEF MacExact, MacQuiet, MacDropping
    <3> QED BY <3>1, <3>2, <3>3, FS_EmptySet DEF MacExact
  <2> QED BY <2>1, <2>2 DEF MacCursorBack
<1> QED
  BY <1>1, MacInvariance, PTL

=============================================================================

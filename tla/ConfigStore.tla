------------------------------ MODULE ConfigStore ------------------------------
\* The configuration file, the threads that change it, and the settings in memory that
\* gaming mode toggles.  A thread loads the file, changes its copy, writes the
\* copy beside the file and renames it, all under CONFIG_LOCK; the program may
\* stop at any point of that and is started again.
EXTENDS Naturals

CONSTANTS
  Writers,   \* threads on their way to with_config_mut
  Devices, Ids, AuditCap,
  Grace      \* polls without a game before gaming mode ends (OFF_GRACE_POLLS, 3)

VARIABLES
  file,     \* config.json, Blank while there is none
  lock,     \* CONFIG_LOCK: its holder
  writer,   \* where each thread is
  op,       \* the mutation each thread makes
  copy,     \* the configuration a thread has loaded, then changed
  settings, \* AppState.settings
  up,       \* the program runs
  absent,   \* OFF_COUNT
  detect,   \* where the thread of fullscreen_detect is
  unsaved   \* history: since the start a save has failed or was overtaken

storeVars  == <<file, lock, writer, op, copy>>
memoryVars == <<settings, up, absent, detect, unsaved>>
configVars == <<storeVars, memoryVars>>

Atomic == INSTANCE AtomicConfig WITH config <- file

NoWriter == "nowriter"
NoOp     == [kind |-> "none", value |-> "none"]
Defaults == [gaming |-> FALSE, auto |-> TRUE]
Configs  == [settings : SUBSET Atomic!SettingsSet, known : SUBSET Devices, id : SUBSET Ids, audit : 0 .. AuditCap]

ASSUME ConfigAssumption == NoWriter \notin Writers /\ AuditCap \in Nat /\ Grace \in Nat \ {0}

ConfigTypeOK ==
  /\ file \in Configs /\ lock \in Writers \cup {NoWriter}
  /\ writer \in [Writers -> {"free", "flipped", "waiting", "loaded", "written"}]
  /\ op \in [Writers -> Atomic!Ops \cup {NoOp}] /\ copy \in [Writers -> Configs]
  /\ settings \in Atomic!SettingsSet /\ {up, unsaved} \subseteq BOOLEAN
  /\ absent \in 0 .. Grace /\ detect \in {"idle", "looking", "entering", "leaving"}

ConfigInit ==
  /\ file = Atomic!Blank /\ lock = NoWriter
  /\ writer = [t \in Writers |-> "free"] /\ op = [t \in Writers |-> NoOp]
  /\ copy = [t \in Writers |-> Atomic!Blank]
  /\ settings = Defaults /\ up = FALSE /\ absent = 0 /\ detect = "idle" /\ unsaved = FALSE

Loaded(c) == IF c.settings = {} THEN Defaults ELSE CHOOSE s \in c.settings : TRUE

-----------------------------------------------------------------------------
(* The program: AppState::new, and its end at any moment.                    *)

\* get_or_create_device_id, whose write may fail, then load_settings; the file may be unreadable for either.
Boot ==
  /\ ~up /\ up' = TRUE /\ absent' = 0 /\ detect' = "idle"
  /\ \E i \in Ids : LET identify == [kind |-> "identify", value |-> i] IN
       file' \in {file, Atomic!Apply(identify, file), Atomic!Apply(identify, Atomic!Blank)}
  /\ settings' \in {Loaded(file'), Defaults} /\ unsaved' = (settings' # Loaded(file'))
  /\ UNCHANGED <<lock, writer, op, copy>>

\* A crash, or the end: what is beside the file stays there and is overwritten one day.
StopProgram ==
  /\ up /\ up' = FALSE /\ lock' = NoWriter
  /\ writer' = [t \in Writers |-> "free"] /\ op' = [t \in Writers |-> NoOp]
  /\ copy' = [t \in Writers |-> Atomic!Blank] /\ detect' = "idle"
  /\ UNCHANGED <<file, settings, absent, unsaved>>

-----------------------------------------------------------------------------
(* The settings in memory.                                                   *)

\* A save of s starts; one of other settings that is still under way may end later.
StartSave(t, s) ==
  /\ op' = [op EXCEPT ![t] = [kind |-> "settings", value |-> s]]
  /\ writer' = [writer EXCEPT ![t] = "waiting"]
  /\ unsaved' = (unsaved \/ \E u \in Writers \ {t} : op[u].kind = "settings" /\ op[u].value # s)
  /\ UNCHANGED <<file, lock, copy, up>>

\* update_settings: whatever the user interface sends.
UpdateSettings(t) ==
  /\ up /\ writer[t] = "free"
  /\ \E s \in Atomic!SettingsSet : settings' = s /\ StartSave(t, s)
  /\ UNCHANGED <<absent, detect>>

\* Pause/Break and the tray: the flag is flipped under the lock, the snapshot taken after it.
ToggleGaming(t) ==
  /\ up /\ writer[t] = "free" /\ writer' = [writer EXCEPT ![t] = "flipped"]
  /\ settings' = [settings EXCEPT !.gaming = ~@]
  /\ UNCHANGED <<file, lock, op, copy, up, absent, detect, unsaved>>

\* Mutation: the settings are read before they are changed.
SnapshotBeforeFlip(t) ==
  /\ writer[t] = "flipped" /\ StartSave(t, [settings EXCEPT !.gaming = ~@])
  /\ UNCHANGED <<settings, absent, detect>>

Snapshot(t) ==
  /\ writer[t] = "flipped" /\ StartSave(t, settings)
  /\ UNCHANGED <<settings, absent, detect>>

\* A round of fullscreen_detect: it reads auto_gaming_mode, then gaming_mode, and sets that last.
Poll ==
  /\ up /\ detect = "idle"
  /\ IF settings.auto THEN detect' = "looking" /\ UNCHANGED absent ELSE absent' = 0 /\ UNCHANGED detect
  /\ UNCHANGED <<storeVars, settings, up, unsaved>>

Look(fullscreen) ==
  /\ detect = "looking"
  /\ \/ fullscreen = settings.gaming /\ absent' = 0 /\ detect' = "idle"
     \/ fullscreen /\ ~settings.gaming /\ detect' = "entering" /\ UNCHANGED absent
     \/ /\ ~fullscreen /\ settings.gaming
        /\ IF absent + 1 < Grace THEN absent' = absent + 1 /\ detect' = "idle"
                                 ELSE detect' = "leaving" /\ UNCHANGED absent
  /\ UNCHANGED <<storeVars, settings, up, unsaved>>

SwitchMode(t) ==
  /\ up /\ detect \in {"entering", "leaving"} /\ detect' = "idle" /\ absent' = 0
  /\ writer[t] = "free" /\ writer' = [writer EXCEPT ![t] = "flipped"]
  /\ settings' = [settings EXCEPT !.gaming = (detect = "entering")]
  /\ UNCHANGED <<file, lock, op, copy, up, unsaved>>

-----------------------------------------------------------------------------
(* The file: with_config_mut.                                                *)

\* A pairing, Forget, an audit entry, Clear.
Mutate(t) ==
  /\ up /\ writer[t] = "free" /\ writer' = [writer EXCEPT ![t] = "waiting"]
  /\ \E o \in Atomic!Ops :
       o.kind \in {"save", "forget", "audit", "clear"} /\ op' = [op EXCEPT ![t] = o]
  /\ UNCHANGED <<file, lock, copy, memoryVars>>

\* Mutation: the load takes no lock.
LoadUnlocked(t) ==
  /\ writer[t] = "waiting" /\ writer' = [writer EXCEPT ![t] = "loaded"]
  /\ copy' = [copy EXCEPT ![t] = file]
  /\ UNCHANGED <<file, lock, op, memoryVars>>

\* load_unlocked: a file that cannot be read, or parsed, counts as none.
Load(t) ==
  /\ writer[t] = "waiting" /\ lock = NoWriter
  /\ writer' = [writer EXCEPT ![t] = "loaded"] /\ lock' = t
  /\ \E c \in {file, Atomic!Blank} : copy' = [copy EXCEPT ![t] = c]
  /\ UNCHANGED <<file, op, memoryVars>>

Change(t) ==
  /\ writer[t] = "loaded" /\ writer' = [writer EXCEPT ![t] = "written"]
  /\ copy' = [copy EXCEPT ![t] = Atomic!Apply(op[t], @)]
  /\ UNCHANGED <<file, lock, op, memoryVars>>

Unlock(t) ==
  /\ lock' = NoWriter
  /\ writer' = [writer EXCEPT ![t] = "free"] /\ op' = [op EXCEPT ![t] = NoOp]
  /\ copy' = [copy EXCEPT ![t] = Atomic!Blank]

\* The rename replaces the file at once.
Rename(t) ==
  /\ writer[t] = "written" /\ file' = copy[t] /\ Unlock(t)
  /\ unsaved' = (unsaved \/ Loaded(copy[t]) # Loaded(Atomic!Apply(op[t], file)))
  /\ UNCHANGED <<settings, up, absent, detect>>

\* The write or the rename fails: the file stays as it was, and nobody is told.
WriteFails(t) ==
  /\ writer[t] = "written" /\ Unlock(t)
  /\ unsaved' = (unsaved \/ op[t].kind = "settings")
  /\ UNCHANGED <<file, settings, up, absent, detect>>

Save(t) == Load(t) \/ Change(t) \/ Rename(t) \/ WriteFails(t)

ConfigNext ==
  \/ Boot \/ StopProgram \/ Poll \/ \E fullscreen \in BOOLEAN : Look(fullscreen)
  \/ \E t \in Writers :
       UpdateSettings(t) \/ ToggleGaming(t) \/ SwitchMode(t) \/ Snapshot(t) \/ Mutate(t) \/ Save(t)

ConfigSpec == ConfigInit /\ [][ConfigNext]_configVars

-----------------------------------------------------------------------------
\* Every content of the file comes from the one before it, or from a blank one when that could not be read, by
\* one whole mutation: none is lost to another's write, none is half written, wherever the program
\* stops (storage.rs:31 and 59, "never a half-written config.json").
RefinesAtomic == Atomic!Spec

\* Once every save has ended the file holds the settings in use, unless one has failed or two
\* were under way at once (commands.rs:223, capture.rs:309).
SettingsSettle ==
  up /\ ~unsaved /\ (\A t \in Writers : op[t].kind # "settings" /\ writer[t] # "flipped")
    => Loaded(file) = settings

=============================================================================

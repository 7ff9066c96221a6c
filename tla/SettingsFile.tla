----------------------------- MODULE SettingsFile -----------------------------
(***************************************************************************)
(* The settings on disk and the programs that change them: settings panels *)
(* (panel.rs), which save a whole form into the configuration and the      *)
(* output preferences (config.rs, prefs.rs), and the tray, which toggles   *)
(* one preference.  They take one lock (settings_lock.rs), merge what they *)
(* edited into what they find, and replace each file at once.              *)
(***************************************************************************)
EXTENDS Naturals, FiniteSets

CONSTANTS Panels,
          ConfigFields,    \* fields of config.toml
          PrefFields,      \* fields of tray.json
          Toggles,         \* the preferences the tray toggles, of value 0 or 1
          Values,          \* values of the other fields; 0 is the default
          MaxEdits         \* bound on the edits by hand, in forms and the tray

ASSUME SettingsAssumption ==
    /\ 0 \in Values /\ 1 \in Values
    /\ Toggles \subseteq PrefFields
    /\ ConfigFields \intersect PrefFields = {}
    /\ {"nobody", "tray"} \intersect Panels = {}
    /\ MaxEdits \in Nat

VARIABLES stDisk,       \* what the two files say
          stDamaged,    \* the files that do not parse
          stHolder,     \* who holds the lock
          stPanel,      \* panels: form, what they loaded, and the save under way
          stTray,       \* the toggle under way
          stEdits

stVars == <<stDisk, stDamaged, stHolder, stPanel, stTray, stEdits>>

Files == {"config", "prefs"}
Fields == ConfigFields \union PrefFields
FieldsOf(file) == IF file = "config" THEN ConfigFields ELSE PrefFields
ValuesOf(field) == IF field \in Toggles THEN {0, 1} ELSE Values
Contents == {disk \in [Fields -> Values] : \A field \in Toggles : disk[field] \in {0, 1}}
Defaults == [field \in Fields |-> 0]
Nobody == "nobody"
TrayProcess == "tray"

ClosedPanel == [phase |-> "closed", base |-> Defaults, form |-> Defaults, merged |-> Defaults]
IdleTray == [phase |-> "idle", field |-> "none", read |-> Defaults]

SettingsInit ==
    /\ stDisk = Defaults /\ stDamaged = {}
    /\ stHolder = Nobody /\ stEdits = 0
    /\ stPanel = [panel \in Panels |-> ClosedPanel]
    /\ stTray = IdleTray

May(panel, phase) == stPanel[panel].phase = phase
Step(panel, phase) == stPanel' = [stPanel EXCEPT ![panel].phase = phase]
Edits == stEdits < MaxEdits /\ stEdits' = stEdits + 1

(* Config::load and prefs::load: a file that does not parse shows defaults. *)
Loaded == [field \in Fields |->
              IF \E file \in stDamaged : field \in FieldsOf(file) THEN 0 ELSE stDisk[field]]

OpenPanel(panel) ==
    /\ May(panel, "closed")
    /\ stPanel' = [stPanel EXCEPT ![panel] = [@ EXCEPT !.phase = "idle", !.base = Loaded, !.form = Loaded]]
    /\ UNCHANGED <<stDisk, stDamaged, stHolder, stTray, stEdits>>

EditForm(panel, field, value) ==
    /\ May(panel, "idle") /\ Edits /\ value \in ValuesOf(field)
    /\ stPanel[panel].form[field] # value
    /\ stPanel' = [stPanel EXCEPT ![panel].form[field] = value]
    /\ UNCHANGED <<stDisk, stDamaged, stHolder, stTray>>

RestoreDefaults(panel) ==
    /\ May(panel, "idle") /\ Edits /\ stPanel[panel].form # Defaults
    /\ stPanel' = [stPanel EXCEPT ![panel].form = Defaults]
    /\ UNCHANGED <<stDisk, stDamaged, stHolder, stTray>>

(* The main loop of the panel stands still from here to the end of a save. *)
AskSave(panel) ==
    /\ May(panel, "idle") /\ Step(panel, "locking")
    /\ UNCHANGED <<stDisk, stDamaged, stHolder, stTray, stEdits>>

(* Lock::acquire: non-blocking tries for half a second. *)
CanTake(process) == stHolder = Nobody
Take(process) == CanTake(process) /\ stHolder' = process

LockPanel(panel) ==
    /\ May(panel, "locking") /\ Take(panel) /\ Step(panel, "merge")
    /\ UNCHANGED <<stDisk, stDamaged, stTray, stEdits>>

LockTimesOut(panel) ==
    /\ May(panel, "locking") /\ ~CanTake(panel) /\ Step(panel, "idle")
    /\ UNCHANGED <<stDisk, stDamaged, stHolder, stTray, stEdits>>

Drop(process) == stHolder' = IF stHolder = process THEN Nobody ELSE stHolder

(* settings_lock::merge, field by field. *)
Conflict(base, edited, latest) == edited # base /\ latest # base /\ latest # edited
Merge(base, edited, latest) == IF edited = base THEN latest ELSE edited

(* Mutation: the whole form is written, edited or not. *)
FormOf(panel) == stPanel[panel].form

Merged(panel) ==
    [field \in Fields |-> Merge(stPanel[panel].base[field], stPanel[panel].form[field], stDisk[field])]

Conflicting(panel) ==
    \E field \in Fields :
        Conflict(stPanel[panel].base[field], stPanel[panel].form[field], stDisk[field])

(* save_settings looks at both files before it writes either. *)
MergeSettings(panel) ==
    /\ May(panel, "merge")
    /\ IF stDamaged # {} \/ Conflicting(panel)
       THEN Step(panel, "idle") /\ Drop(panel)
       ELSE /\ stPanel' = [stPanel EXCEPT ![panel].phase = "config", ![panel].merged = Merged(panel)]
            /\ UNCHANGED stHolder
    /\ UNCHANGED <<stDisk, stDamaged, stTray, stEdits>>

Written(file, contents) ==
    stDisk' = [field \in Fields |-> IF field \in FieldsOf(file) THEN contents[field] ELSE stDisk[field]]

(* atomic_write of the configuration, all of it from what this version     *)
(* knows: it succeeds, fails, or fails after the file was replaced.        *)
WriteConfig(panel) ==
    /\ May(panel, "config")
    /\ \/ Written("config", stPanel[panel].merged)
          /\ \/ Step(panel, "prefs") /\ UNCHANGED stHolder
             \/ Step(panel, "idle") /\ Drop(panel)
       \/ Step(panel, "idle") /\ Drop(panel) /\ UNCHANGED stDisk
    /\ UNCHANGED <<stDamaged, stTray, stEdits>>

(* store_unlocked keeps the keys it does not know.  Only a save that went  *)
(* through tells the panel what is on disk now.                            *)
WritePrefs(panel) ==
    /\ May(panel, "prefs") /\ Drop(panel)
    /\ \/ /\ Written("prefs", stPanel[panel].merged)
          /\ \/ stPanel' = [stPanel EXCEPT ![panel] =
                    [ClosedPanel EXCEPT !.phase = "idle", !.base = stPanel[panel].merged,
                                        !.form = stPanel[panel].merged]]
             \/ Step(panel, "idle")
       \/ Step(panel, "idle") /\ UNCHANGED stDisk
    /\ UNCHANGED <<stDamaged, stTray, stEdits>>

(* Closed by the user, or broken off at any point of a save. *)
ClosePanel(panel) ==
    /\ ~May(panel, "closed") /\ Drop(panel)
    /\ stPanel' = [stPanel EXCEPT ![panel] = ClosedPanel]
    /\ UNCHANGED <<stDisk, stDamaged, stTray, stEdits>>

(* prefs::update, from a check mark of the tray's menu. *)
ToggleRead(field) ==
    /\ stTray.phase = "idle" /\ Edits /\ Take(TrayProcess)
    /\ "prefs" \notin stDamaged
    /\ stTray' = [phase |-> "write", field |-> field, read |-> stDisk]
    /\ UNCHANGED <<stDisk, stDamaged, stPanel>>

Flipped(contents, field) == [contents EXCEPT ![field] = 1 - @]

ToggleWrite ==
    /\ stTray.phase = "write"
    /\ stTray' = IdleTray /\ Drop(TrayProcess)
    /\ \/ Written("prefs", Flipped(stTray.read, stTray.field))
       \/ UNCHANGED stDisk
    /\ UNCHANGED <<stDamaged, stPanel, stEdits>>

(* The user edits a file, not while a program saves: a program does not    *)
(* notice what happens between its reading and its writing.                *)
EditByHand(file) ==
    /\ stHolder = Nobody /\ Edits
    /\ stDamaged' \in {stDamaged \union {file}, stDamaged \ {file}} /\ stDamaged' # stDamaged
    /\ UNCHANGED <<stDisk, stHolder, stPanel, stTray>>

SettingsNext ==
    \/ \E panel \in Panels :
        \/ OpenPanel(panel) \/ RestoreDefaults(panel) \/ AskSave(panel)
        \/ \E field \in Fields, value \in Values : EditForm(panel, field, value)
        \/ LockPanel(panel) \/ LockTimesOut(panel) \/ MergeSettings(panel)
        \/ WriteConfig(panel) \/ WritePrefs(panel) \/ ClosePanel(panel)
    \/ \E field \in Toggles : ToggleRead(field)
    \/ ToggleWrite
    \/ \E file \in Files : EditByHand(file)

SettingsSpec == SettingsInit /\ [][SettingsNext]_stVars

-----------------------------------------------------------------------------
SettingsTypeOK ==
    /\ stDisk \in Contents /\ stDamaged \subseteq Files
    /\ stHolder \in Panels \union {Nobody, TrayProcess}
    /\ \A panel \in Panels :
        /\ stPanel[panel].phase \in {"closed", "idle", "locking", "merge", "config", "prefs"}
        /\ {stPanel[panel].base, stPanel[panel].form, stPanel[panel].merged} \subseteq Contents
    /\ stTray.phase \in {"idle", "write"} /\ stTray.read \in Contents
    /\ stEdits \in 0 .. MaxEdits

(* A save changes a field on disk only to what its form says, and only     *)
(* from the value that panel had loaded; the tray changes only the         *)
(* preference it toggles, and from what it is now; neither writes a file   *)
(* that does not parse.  So no program undoes what another saved meanwhile *)
(* (save_settings, prefs::update), whatever the order of their steps.      *)
SeenBefore(field) ==
    \E panel \in Panels :
        stPanel[panel].base[field] = stDisk[field] /\ stPanel[panel].form[field] = stDisk'[field]

SavesKeepOthers ==
    [][\A file \in Files : \A field \in FieldsOf(file) :
        stDisk'[field] # stDisk[field] =>
            /\ file \notin stDamaged
            /\ \/ SeenBefore(field)
               \/ stTray.field = field /\ stDisk'[field] = 1 - stDisk[field]]_stVars
=============================================================================

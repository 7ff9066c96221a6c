---------------------------- MODULE ServicesProofs ----------------------------
(*****************************************************************************)
(* The settings, the tray and the services, for every bound.                 *)
(*                                                                           *)
(* A save writes what it merged some steps ago: nothing the merge looked at  *)
(* can have changed since, the form because its panel waits, and the files   *)
(* because its panel has the lock (SettingsFile). Then the settings window,  *)
(* with one request of its login switch at a time (Workbench); the model     *)
(* names, whose list, cursor, buttons and hint are true of each other        *)
(* (ModelPicker); and the tray, one icon with the marks of the disk (Tray).  *)
(*                                                                           *)
(* ServicesSafe is for every list of units and any interference. A call      *)
(* looks at the services one after the other and reports on all of them at   *)
(* its end: the proof is that what it saw first still holds then, because a  *)
(* service that is as desired does not move by itself and whoever else       *)
(* touches it is remembered; and that an entry taken away by a command is    *)
(* either being put back or accounted for. Last the budget of a recognition, *)
(* and, with the proofs about the shortcuts, what holds in the composition   *)
(* that is model-checked.                                                    *)
(*****************************************************************************)
EXTENDS MCServices, PartsProofs, FiniteSetTheorems, SequenceTheorems, WellFoundedInduction, TLAPS

PanelPhases == {"closed", "idle", "locking", "merge", "config", "prefs"}
Holding == {"merge", "config", "prefs"}

(* The type invariant, with the shape of the records.                      *)
Typed ==
    /\ stDisk \in Contents /\ stDamaged \subseteq Files
    /\ stHolder \in Panels \union {Nobody, TrayProcess}
    /\ stPanel \in [Panels -> [phase : PanelPhases, base : Contents, form : Contents, merged : Contents]]
    /\ stTray \in [phase : {"idle", "write"}, field : Toggles \union {"none"}, read : Contents]
    /\ stEdits \in 0 .. MaxEdits

(* Who is between taking the lock and dropping it has it.                  *)
LockHeld ==
    /\ \A panel \in Panels : stPanel[panel].phase \in Holding <=> stHolder = panel
    /\ stTray.phase = "write" <=> stHolder = TrayProcess

(* What is still to be written of a save is the merge of the form with the *)
(* file as it is now, and there is no conflict in it.                      *)
StillMerged(panel, field) ==
    /\ stPanel[panel].merged[field] =
         Merge(stPanel[panel].base[field], stPanel[panel].form[field], stDisk[field])
    /\ ~Conflict(stPanel[panel].base[field], stPanel[panel].form[field], stDisk[field])

PlanTrue ==
    \A panel \in Panels :
        /\ stPanel[panel].phase \in {"config", "prefs"} =>
             stDamaged = {} /\ \A field \in PrefFields : StillMerged(panel, field)
        /\ stPanel[panel].phase = "config" => \A field \in ConfigFields : StillMerged(panel, field)

(* The tray flips what is on disk now.                                     *)
ToggleTrue ==
    stTray.phase = "write" =>
        "prefs" \notin stDamaged /\ stTray.read = stDisk /\ stTray.field \in Toggles

SettingsInv == Typed /\ LockHeld /\ PlanTrue /\ ToggleTrue

-----------------------------------------------------------------------------
(* Every form and file the operators make has all fields, a toggle being 0 *)
(* or 1: what is shown of a damaged file, a merge, a file after one was    *)
(* replaced, a toggled preference, an edited form.                         *)
LEMMA TogglesAreFields == Toggles \subseteq Fields
BY SettingsAssumption DEF Fields

LEMMA DefaultsIn == Defaults \in Contents
BY SettingsAssumption, TogglesAreFields DEF Defaults, Contents

LEMMA LoadedIn ==
    ASSUME stDisk \in Contents PROVE Loaded \in Contents
BY SettingsAssumption, TogglesAreFields DEF Loaded, Contents

LEMMA MergedIn ==
    ASSUME Typed, NEW panel \in Panels PROVE Merged(panel) \in Contents
<1> DEFINE side == stPanel[panel]
<1>1. side.base \in Contents /\ side.form \in Contents /\ stDisk \in Contents
  BY DEF Typed
<1>2. \A field \in Fields :
          Merged(panel)[field] \in {side.form[field], stDisk[field]}
  BY DEF Merged, Merge
<1>3. Toggles \subseteq Fields
  BY TogglesAreFields
<1>4. \A field \in Fields : Merged(panel)[field] \in Values
  BY <1>1, <1>2 DEF Contents
<1>5. \A field \in Toggles : Merged(panel)[field] \in {0, 1}
  BY <1>1, <1>2, <1>3 DEF Contents
<1> QED
  BY <1>4, <1>5 DEF Merged, Contents

LEMMA WrittenIn ==
    ASSUME NEW file, NEW contents \in Contents, stDisk \in Contents, Written(file, contents)
    PROVE  stDisk' \in Contents
<1> QED
  BY TogglesAreFields DEF Written, Contents

LEMMA FlippedIn ==
    ASSUME NEW contents \in Contents, NEW field \in Toggles
    PROVE  Flipped(contents, field) \in Contents
<1>1. Toggles \subseteq Fields /\ contents[field] \in {0, 1}
  BY TogglesAreFields DEF Contents
<1>2. 1 - contents[field] \in {0, 1} /\ {0, 1} \subseteq Values
  BY <1>1, SettingsAssumption
<1> QED
  BY <1>1, <1>2 DEF Flipped, Contents

LEMMA EditedIn ==
    ASSUME NEW contents \in Contents, NEW field \in Fields, NEW value \in Values,
           value \in ValuesOf(field)
    PROVE  [contents EXCEPT ![field] = value] \in Contents
BY SettingsAssumption, TogglesAreFields DEF Contents, ValuesOf

-----------------------------------------------------------------------------
LEMMA InitInv == SettingsInit => SettingsInv
<1> SUFFICES ASSUME SettingsInit PROVE SettingsInv
  OBVIOUS
<1> USE SettingsAssumption, DefaultsIn DEF SettingsInit, ClosedPanel, IdleTray, Nobody, TrayProcess
<1>1. Typed
  BY DEF Typed, PanelPhases
<1>2. LockHeld
  BY DEF LockHeld, Holding
<1>3. PlanTrue /\ ToggleTrue
  BY DEF PlanTrue, ToggleTrue
<1> QED
  BY <1>1, <1>2, <1>3 DEF SettingsInv

(* A step of one panel outside its save: the others, the lock, the files   *)
(* and the tray stay, so the invariant asks only for that panel's record.  *)
LEMMA OutsideASave ==
    ASSUME SettingsInv, NEW panel \in Panels, NEW record,
           record \in [phase : {"closed", "idle", "locking"}, base : Contents, form : Contents,
                       merged : Contents],
           stPanel' = [stPanel EXCEPT ![panel] = record],
           stHolder' = IF stHolder = panel THEN Nobody ELSE stHolder,
           stDisk' = stDisk, stDamaged' = stDamaged, stTray' = stTray,
           stEdits' \in 0 .. MaxEdits
    PROVE  SettingsInv'
<1> USE DEF SettingsInv
<1>1. Typed'
  BY DEF Typed, PanelPhases
<1>2. stPanel'[panel] = record /\ record.phase \notin Holding
  BY DEF Typed, Holding
<1>3. \A other \in Panels \ {panel} : stPanel'[other] = stPanel[other]
  BY DEF Typed
<1>4. LockHeld'
  BY <1>2, <1>3, SettingsAssumption DEF LockHeld, Nobody, TrayProcess
<1>5. PlanTrue'
  BY <1>2, <1>3 DEF PlanTrue, StillMerged, Holding
<1>6. ToggleTrue'
  BY DEF ToggleTrue
<1> QED
  BY <1>1, <1>4, <1>5, <1>6

(* A panel that changes the files or is about to has the lock: no other    *)
(* panel and not the tray is between reading and writing.                  *)
LEMMA OneWriter ==
    ASSUME SettingsInv, NEW panel \in Panels, stPanel[panel].phase \in Holding
    PROVE  /\ stHolder = panel
           /\ \A other \in Panels \ {panel} : stPanel[other].phase \notin Holding
           /\ stTray.phase # "write"
BY SettingsAssumption DEF SettingsInv, LockHeld, TrayProcess

(* The end of a save, whatever became of the files: the lock is free and   *)
(* nobody has anything under way.                                          *)
LEMMA SaveEnds ==
    ASSUME SettingsInv, NEW panel \in Panels, stPanel[panel].phase \in Holding, NEW record,
           record \in [phase : {"idle"}, base : Contents, form : Contents, merged : Contents],
           stPanel' = [stPanel EXCEPT ![panel] = record], Drop(panel),
           stDisk' \in Contents, stDamaged' = stDamaged, stTray' = stTray, stEdits' = stEdits
    PROVE  SettingsInv'
<1>1. /\ stHolder = panel /\ stTray.phase # "write"
      /\ \A other \in Panels \ {panel} : stPanel[other].phase \notin Holding
  BY OneWriter
<1>2. stHolder' = Nobody
  BY <1>1 DEF Drop
<1>3. stPanel'[panel] = record /\ record.phase = "idle"
  BY DEF SettingsInv, Typed
<1>4. \A other \in Panels \ {panel} : stPanel'[other] = stPanel[other]
  BY DEF SettingsInv, Typed
<1>5. \A other \in Panels : stPanel'[other].phase \notin Holding
  BY <1>1, <1>3, <1>4 DEF Holding
<1>6. Typed'
  BY <1>2 DEF SettingsInv, Typed, PanelPhases
<1>7. LockHeld'
  BY <1>1, <1>2, <1>5, SettingsAssumption DEF LockHeld, Nobody, TrayProcess
<1>8. PlanTrue' /\ ToggleTrue'
  BY <1>1, <1>5 DEF PlanTrue, ToggleTrue, Holding
<1> QED
  BY <1>6, <1>7, <1>8 DEF SettingsInv


-----------------------------------------------------------------------------
(* Opening, editing, asking to save, waiting for the lock in vain, closing *)
(* at any time.                                                            *)
LEMMA OutsideSteps ==
    ASSUME SettingsInv, NEW panel \in Panels,
           \/ OpenPanel(panel) \/ RestoreDefaults(panel) \/ AskSave(panel)
           \/ \E field \in Fields, value \in Values : EditForm(panel, field, value)
           \/ LockTimesOut(panel) \/ ClosePanel(panel)
    PROVE  SettingsInv'
<1> DEFINE side == stPanel[panel]
<1> USE DEF May, Step
<1>1. /\ side \in [phase : PanelPhases, base : Contents, form : Contents, merged : Contents]
      /\ stPanel \in [Panels -> [phase : PanelPhases, base : Contents, form : Contents, merged : Contents]]
      /\ stDisk \in Contents /\ stEdits \in 0 .. MaxEdits
  BY DEF SettingsInv, Typed
<1>2. side.phase \notin Holding => stHolder # panel
  BY DEF SettingsInv, LockHeld
<1>3. Edits => stEdits' \in 0 .. MaxEdits
  BY <1>1, SettingsAssumption DEF Edits
<1>4. CASE OpenPanel(panel)
  <2>1. side.phase = "closed"
    BY <1>4 DEF OpenPanel
  <2>2. [side EXCEPT !.phase = "idle", !.base = Loaded, !.form = Loaded]
          \in [phase : {"closed", "idle", "locking"}, base : Contents, form : Contents, merged : Contents]
    BY <1>1, LoadedIn
  <2> QED
    BY <1>1, <1>2, <1>4, <2>1, <2>2, OutsideASave DEF OpenPanel, Holding
<1>5. CASE RestoreDefaults(panel)
  <2>1. side.phase = "idle"
    BY <1>5 DEF RestoreDefaults
  <2>2. [side EXCEPT !.form = Defaults]
          \in [phase : {"closed", "idle", "locking"}, base : Contents, form : Contents, merged : Contents]
    BY <1>1, <2>1, DefaultsIn
  <2>3. stPanel' = [stPanel EXCEPT ![panel] = [side EXCEPT !.form = Defaults]]
    BY <1>1, <1>5 DEF RestoreDefaults
  <2> QED
    BY <1>2, <1>3, <1>5, <2>1, <2>2, <2>3, OutsideASave DEF RestoreDefaults, Holding
<1>6. CASE AskSave(panel)
  <2>1. side.phase = "idle"
    BY <1>6 DEF AskSave
  <2>2. [side EXCEPT !.phase = "locking"]
          \in [phase : {"closed", "idle", "locking"}, base : Contents, form : Contents, merged : Contents]
    BY <1>1
  <2>3. stPanel' = [stPanel EXCEPT ![panel] = [side EXCEPT !.phase = "locking"]]
    BY <1>1, <1>6 DEF AskSave
  <2> QED
    BY <1>1, <1>2, <1>6, <2>1, <2>2, <2>3, OutsideASave DEF AskSave, Holding
<1>7. ASSUME NEW field \in Fields, NEW value \in Values, EditForm(panel, field, value)
      PROVE  SettingsInv'
  <2> DEFINE edited == [side EXCEPT !.form = [side.form EXCEPT ![field] = value]]
  <2>1. side.phase = "idle"
    BY <1>7 DEF EditForm
  <2>2. [side.form EXCEPT ![field] = value] \in Contents
    BY <1>1, <1>7, EditedIn DEF EditForm
  <2>3. edited \in [phase : {"closed", "idle", "locking"}, base : Contents, form : Contents,
                    merged : Contents]
    BY <1>1, <2>1, <2>2
  <2>4. stPanel' = [stPanel EXCEPT ![panel] = edited]
    BY <1>1, <1>7 DEF EditForm
  <2> HIDE DEF edited
  <2> QED
    BY <1>2, <1>3, <1>7, <2>1, <2>3, <2>4, OutsideASave DEF EditForm, Holding
<1>8. CASE LockTimesOut(panel)
  <2>1. side.phase = "locking"
    BY <1>8 DEF LockTimesOut
  <2>2. [side EXCEPT !.phase = "idle"]
          \in [phase : {"closed", "idle", "locking"}, base : Contents, form : Contents, merged : Contents]
    BY <1>1
  <2>3. stPanel' = [stPanel EXCEPT ![panel] = [side EXCEPT !.phase = "idle"]]
    BY <1>1, <1>8 DEF LockTimesOut
  <2> QED
    BY <1>1, <1>2, <1>8, <2>1, <2>2, <2>3, OutsideASave DEF LockTimesOut, Holding
<1>9. CASE ClosePanel(panel)
  <2>1. ClosedPanel \in [phase : {"closed", "idle", "locking"}, base : Contents, form : Contents,
                         merged : Contents]
    BY DefaultsIn DEF ClosedPanel
  <2> QED
    BY <1>1, <1>9, <2>1, OutsideASave DEF ClosePanel, Drop
<1> QED
  BY <1>4, <1>5, <1>6, <1>7, <1>8, <1>9

(* The lock was free, so nobody is between reading and writing.            *)
LEMMA LockPanelStep ==
    ASSUME SettingsInv, NEW panel \in Panels, LockPanel(panel) PROVE SettingsInv'
<1> USE DEF SettingsInv, LockPanel, May, Step, Take, CanTake
<1>1. stPanel'[panel].phase = "merge" /\ stHolder' = panel
  BY DEF Typed
<1>2. \A other \in Panels \ {panel} : stPanel'[other] = stPanel[other]
  BY DEF Typed
<1>3. stTray.phase # "write" /\ \A other \in Panels : stPanel[other].phase \notin Holding
  BY SettingsAssumption DEF LockHeld, Nobody, TrayProcess
<1>4. Typed'
  BY DEF Typed, PanelPhases
<1>5. LockHeld'
  BY <1>1, <1>2, <1>3, SettingsAssumption DEF LockHeld, Holding, TrayProcess
<1>6. PlanTrue' /\ ToggleTrue'
  BY <1>1, <1>2, <1>3 DEF PlanTrue, ToggleTrue, Holding
<1> QED
  BY <1>4, <1>5, <1>6

(* A save goes on only when both files parse and nothing conflicts, and    *)
(* then what it plans is by definition the merge.                          *)
LEMMA MergeStep ==
    ASSUME SettingsInv, NEW panel \in Panels, MergeSettings(panel) PROVE SettingsInv'
<1> USE DEF MergeSettings, May, Step
<1> DEFINE side == stPanel[panel]
<1>1. side.phase = "merge" /\ side.phase \in Holding
  BY DEF Holding
<1>2. /\ stHolder = panel /\ stTray.phase # "write"
      /\ \A other \in Panels \ {panel} : stPanel[other].phase \notin Holding
  BY <1>1, OneWriter
<1>3. /\ side \in [phase : PanelPhases, base : Contents, form : Contents, merged : Contents]
      /\ stPanel \in [Panels -> [phase : PanelPhases, base : Contents, form : Contents, merged : Contents]]
      /\ stDisk \in Contents
  BY DEF SettingsInv, Typed
<1>4. CASE stDamaged # {} \/ Conflicting(panel)
  <2>1. [side EXCEPT !.phase = "idle"]
          \in [phase : {"idle"}, base : Contents, form : Contents, merged : Contents]
    BY <1>3
  <2>2. stPanel' = [stPanel EXCEPT ![panel] = [side EXCEPT !.phase = "idle"]]
    BY <1>3, <1>4
  <2> QED
    BY <1>1, <1>3, <1>4, <2>1, <2>2, SaveEnds
<1>5. CASE ~(stDamaged # {} \/ Conflicting(panel))
  <2>1. /\ stPanel' = [stPanel EXCEPT ![panel] =
                          [side EXCEPT !.phase = "config", !.merged = Merged(panel)]]
        /\ stHolder' = stHolder
    BY <1>3, <1>5
  <2>2. [side EXCEPT !.phase = "config", !.merged = Merged(panel)]
          \in [phase : PanelPhases, base : Contents, form : Contents, merged : Contents]
    BY <1>3, MergedIn DEF SettingsInv, PanelPhases
  <2>3. /\ stPanel'[panel].phase = "config" /\ stPanel'[panel].merged = Merged(panel)
        /\ stPanel'[panel].base = side.base /\ stPanel'[panel].form = side.form
        /\ \A other \in Panels \ {panel} : stPanel'[other] = stPanel[other]
    BY <1>3, <2>1
  <2>4. Typed'
    BY <2>1, <2>2 DEF SettingsInv, Typed
  <2>5. LockHeld'
    BY <1>1, <1>2, <2>1, <2>3 DEF SettingsInv, LockHeld, Holding
  <2>6. \A field \in Fields : StillMerged(panel, field)'
    BY <1>5, <2>3 DEF StillMerged, Merged, Conflicting
  <2>7. PlanTrue'
    BY <1>2, <1>5, <2>3, <2>6 DEF PlanTrue, Holding, Fields
  <2>8. ToggleTrue'
    BY <1>2 DEF ToggleTrue
  <2> QED
    BY <2>4, <2>5, <2>7, <2>8 DEF SettingsInv
<1> QED
  BY <1>4, <1>5


(* The first file is replaced: the plan for the second is not touched.     *)
LEMMA WriteConfigStep ==
    ASSUME SettingsInv, NEW panel \in Panels, WriteConfig(panel) PROVE SettingsInv'
<1> USE DEF WriteConfig, May, Step
<1> DEFINE side == stPanel[panel]
<1>1. side.phase = "config" /\ side.phase \in Holding
  BY DEF Holding
<1>2. /\ stHolder = panel /\ stTray.phase # "write"
      /\ \A other \in Panels \ {panel} : stPanel[other].phase \notin Holding
  BY <1>1, OneWriter
<1>3. /\ side \in [phase : PanelPhases, base : Contents, form : Contents, merged : Contents]
      /\ stPanel \in [Panels -> [phase : PanelPhases, base : Contents, form : Contents, merged : Contents]]
      /\ stDisk \in Contents
  BY DEF SettingsInv, Typed
<1>4. stDisk' \in Contents
  BY <1>3, WrittenIn
<1>5. CASE stPanel' = [stPanel EXCEPT ![panel].phase = "idle"] /\ Drop(panel)
  <2>1. [side EXCEPT !.phase = "idle"]
          \in [phase : {"idle"}, base : Contents, form : Contents, merged : Contents]
    BY <1>3
  <2>2. stPanel' = [stPanel EXCEPT ![panel] = [side EXCEPT !.phase = "idle"]]
    BY <1>3, <1>5
  <2> QED
    BY <1>1, <1>4, <1>5, <2>1, <2>2, SaveEnds
<1>6. CASE /\ Written("config", side.merged)
           /\ stPanel' = [stPanel EXCEPT ![panel].phase = "prefs"] /\ stHolder' = stHolder
  <2>1. /\ stPanel' = [stPanel EXCEPT ![panel] = [side EXCEPT !.phase = "prefs"]]
        /\ [side EXCEPT !.phase = "prefs"]
              \in [phase : PanelPhases, base : Contents, form : Contents, merged : Contents]
    BY <1>3, <1>6 DEF PanelPhases
  <2>2. /\ stPanel'[panel].phase = "prefs" /\ stPanel'[panel].merged = side.merged
        /\ stPanel'[panel].base = side.base /\ stPanel'[panel].form = side.form
        /\ \A other \in Panels \ {panel} : stPanel'[other] = stPanel[other]
    BY <1>3, <2>1
  <2>3. Typed'
    BY <1>4, <1>6, <2>1 DEF SettingsInv, Typed
  <2>4. LockHeld'
    BY <1>1, <1>2, <1>6, <2>2 DEF SettingsInv, LockHeld, Holding
  <2>5. \A field \in PrefFields : stDisk'[field] = stDisk[field]
    BY <1>6, SettingsAssumption DEF Written, FieldsOf, Fields
  <2>6. stDamaged = {} /\ \A field \in PrefFields : StillMerged(panel, field)'
    BY <1>1, <2>2, <2>5 DEF SettingsInv, PlanTrue, StillMerged
  <2>7. PlanTrue'
    BY <1>2, <2>2, <2>6 DEF PlanTrue, Holding
  <2>8. ToggleTrue'
    BY <1>2 DEF ToggleTrue
  <2> QED
    BY <2>3, <2>4, <2>7, <2>8 DEF SettingsInv
<1> QED
  BY <1>5, <1>6

(* The second one: the save has gone through, or it is broken off.         *)
LEMMA WritePrefsStep ==
    ASSUME SettingsInv, NEW panel \in Panels, WritePrefs(panel) PROVE SettingsInv'
<1> USE DEF WritePrefs, May, Step
<1> DEFINE side == stPanel[panel]
           saved == [ClosedPanel EXCEPT !.phase = "idle", !.base = side.merged, !.form = side.merged]
<1>1. side.phase = "prefs" /\ side.phase \in Holding /\ Drop(panel)
  BY DEF Holding
<1>2. /\ side \in [phase : PanelPhases, base : Contents, form : Contents, merged : Contents]
      /\ stPanel \in [Panels -> [phase : PanelPhases, base : Contents, form : Contents, merged : Contents]]
      /\ stDisk \in Contents
  BY DEF SettingsInv, Typed
<1>3. stDisk' \in Contents
  BY <1>2, WrittenIn
<1>4. CASE stPanel' = [stPanel EXCEPT ![panel].phase = "idle"]
  <2>1. [side EXCEPT !.phase = "idle"]
          \in [phase : {"idle"}, base : Contents, form : Contents, merged : Contents]
    BY <1>2
  <2>2. stPanel' = [stPanel EXCEPT ![panel] = [side EXCEPT !.phase = "idle"]]
    BY <1>2, <1>4
  <2> QED
    BY <1>1, <1>3, <2>1, <2>2, SaveEnds
<1>5. CASE stPanel' = [stPanel EXCEPT ![panel] = saved]
  <2>1. saved \in [phase : {"idle"}, base : Contents, form : Contents, merged : Contents]
    BY <1>2, DefaultsIn DEF ClosedPanel
  <2> HIDE DEF saved
  <2> QED
    BY <1>1, <1>3, <1>5, <2>1, SaveEnds
<1> QED
  BY <1>4, <1>5

(* The tray between its reading and its writing, and the user's editor,    *)
(* which moves only while the lock is free.                                *)
LEMMA OtherSteps ==
    ASSUME SettingsInv,
           \/ \E field \in Toggles : ToggleRead(field)
           \/ ToggleWrite
           \/ \E file \in Files : EditByHand(file)
    PROVE  SettingsInv'
<1>1. /\ stDisk \in Contents /\ stDamaged \subseteq Files /\ stEdits \in 0 .. MaxEdits
      /\ stTray \in [phase : {"idle", "write"}, field : Toggles \union {"none"}, read : Contents]
  BY DEF SettingsInv, Typed
<1>2. Edits => stEdits' \in 0 .. MaxEdits
  BY <1>1, SettingsAssumption DEF Edits
<1>3. ASSUME NEW field \in Toggles, ToggleRead(field) PROVE SettingsInv'
  <2> USE <1>3 DEF ToggleRead, Take, CanTake
  <2>1. \A panel \in Panels : stPanel[panel].phase \notin Holding
    BY SettingsAssumption DEF SettingsInv, LockHeld, Nobody
  <2>2. /\ stHolder' = TrayProcess /\ stTray'.phase = "write" /\ stTray'.read = stDisk
        /\ stTray'.field = field
        /\ stTray' \in [phase : {"idle", "write"}, field : Toggles \union {"none"}, read : Contents]
    BY <1>1
  <2>3. Typed'
    BY <1>2, <2>2 DEF SettingsInv, Typed
  <2>4. LockHeld'
    BY <2>1, <2>2, SettingsAssumption DEF LockHeld, TrayProcess
  <2>5. PlanTrue' /\ ToggleTrue'
    BY <2>1, <2>2 DEF PlanTrue, ToggleTrue, Holding
  <2> QED
    BY <2>3, <2>4, <2>5 DEF SettingsInv
<1>4. CASE ToggleWrite
  <2> USE <1>4 DEF ToggleWrite
  <2>1. stHolder = TrayProcess /\ stHolder' = Nobody /\ stTray'.phase = "idle"
    BY DEF SettingsInv, LockHeld, Drop, IdleTray
  <2>2. \A panel \in Panels : stPanel[panel].phase \notin Holding
    BY <2>1, SettingsAssumption DEF SettingsInv, LockHeld, TrayProcess
  <2>3. stTray.read \in Contents /\ stTray.field \in Toggles
    BY <1>1 DEF SettingsInv, ToggleTrue
  <2>4. stDisk' \in Contents
    BY <1>1, <2>3, FlippedIn, WrittenIn
  <2>5. Typed'
    BY <2>1, <2>4, DefaultsIn DEF SettingsInv, Typed, IdleTray
  <2>6. LockHeld'
    BY <2>1, <2>2, SettingsAssumption DEF LockHeld, Nobody, TrayProcess
  <2>7. PlanTrue' /\ ToggleTrue'
    BY <2>1, <2>2 DEF PlanTrue, ToggleTrue, Holding
  <2> QED
    BY <2>5, <2>6, <2>7 DEF SettingsInv
<1>5. ASSUME NEW file \in Files, EditByHand(file) PROVE SettingsInv'
  <2> USE <1>5 DEF EditByHand
  <2>1. stDamaged' \subseteq Files
    BY <1>1
  <2>2. stTray.phase # "write" /\ \A panel \in Panels : stPanel[panel].phase \notin Holding
    BY SettingsAssumption DEF SettingsInv, LockHeld, Nobody, TrayProcess
  <2>3. Typed' /\ LockHeld'
    BY <1>2, <2>1 DEF SettingsInv, Typed, LockHeld
  <2>4. PlanTrue' /\ ToggleTrue'
    BY <2>2 DEF PlanTrue, ToggleTrue, Holding
  <2> QED
    BY <2>3, <2>4 DEF SettingsInv
<1> QED
  BY <1>3, <1>4, <1>5

LEMMA NextInv == SettingsInv /\ [SettingsNext]_stVars => SettingsInv'
<1> SUFFICES ASSUME SettingsInv, [SettingsNext]_stVars PROVE SettingsInv'
  OBVIOUS
<1>1. CASE UNCHANGED stVars
  BY <1>1 DEF stVars, SettingsInv, Typed, LockHeld, PlanTrue, StillMerged, ToggleTrue
<1>2. CASE SettingsNext
  BY <1>2, OutsideSteps, LockPanelStep, MergeStep, WriteConfigStep, WritePrefsStep, OtherSteps
  DEF SettingsNext
<1> QED
  BY <1>1, <1>2

(* The contents of the files, of forms and of merges, the lock and the     *)
(* steps of a save (panel.rs, prefs.rs, settings_lock.rs) keep their types.*)
THEOREM SettingsTyped == SettingsSpec => []SettingsTypeOK
<1>1. SettingsInv => SettingsTypeOK
  BY DEF SettingsInv, Typed, SettingsTypeOK, PanelPhases
<1> QED
  BY InitInv, NextInv, <1>1, PTL DEF SettingsSpec

(* Nobody is between reading the settings and writing them but the holder  *)
(* of the lock, and what it will write is a merge with the files as they   *)
(* are (save_settings, prefs::update under settings_lock::acquire).        *)
THEOREM SavesExact == SettingsSpec => [](LockHeld /\ PlanTrue /\ ToggleTrue)
BY InitInv, NextInv, PTL DEF SettingsSpec, SettingsInv

-----------------------------------------------------------------------------
(* The file that a step replaces, and what the replacing says of a field   *)
(* of it.                                                                  *)
LEMMA PanelWrites ==
    ASSUME SettingsInv, NEW panel \in Panels, NEW file \in Files,
           stPanel[panel].phase \in {"config", "prefs"},
           \A field \in FieldsOf(file) : StillMerged(panel, field),
           Written(file, stPanel[panel].merged),
           NEW changed \in Fields, stDisk'[changed] # stDisk[changed]
    PROVE  stDamaged = {} /\ SeenBefore(changed)
<1>1. changed \in FieldsOf(file) /\ stDisk'[changed] = stPanel[panel].merged[changed]
  BY DEF Written
<1>2. /\ stPanel[panel].form[changed] = stDisk'[changed]
      /\ stPanel[panel].base[changed] = stDisk[changed]
  BY <1>1 DEF StillMerged, Merge, Conflict
<1> QED
  BY <1>2 DEF SettingsInv, PlanTrue, SeenBefore

LEMMA TrayWrites ==
    ASSUME SettingsInv, ToggleWrite, NEW changed \in Fields, stDisk'[changed] # stDisk[changed]
    PROVE  /\ changed \in PrefFields /\ "prefs" \notin stDamaged
           /\ stTray.field = changed /\ stDisk'[changed] = 1 - stDisk[changed]
<1>1. /\ stTray.read = stDisk /\ stTray.field \in Toggles /\ "prefs" \notin stDamaged
      /\ stDisk \in [Fields -> Values]
  BY DEF ToggleWrite, SettingsInv, ToggleTrue, Typed, Contents
<1>2. Written("prefs", Flipped(stDisk, stTray.field))
  BY <1>1 DEF ToggleWrite
<1>3. changed \in PrefFields /\ stDisk'[changed] = Flipped(stDisk, stTray.field)[changed]
  BY <1>2 DEF Written, FieldsOf
<1>4. changed = stTray.field
  BY <1>1, <1>3 DEF Flipped
<1> QED
  BY <1>1, <1>3, <1>4 DEF Flipped

(* A save or a toggle changes a field only from the value its program had  *)
(* seen, to the one its user chose, and in no damaged file: no program     *)
(* undoes what another has saved meanwhile (panel.rs save_settings,        *)
(* prefs.rs update).                                                       *)
THEOREM OthersKept == SettingsSpec => SavesKeepOthers
<1> DEFINE Kept ==
      \A file \in Files : \A field \in FieldsOf(file) :
        stDisk'[field] # stDisk[field] =>
            /\ file \notin stDamaged
            /\ \/ SeenBefore(field)
               \/ stTray.field = field /\ stDisk'[field] = 1 - stDisk[field]
<1>1. SettingsInv /\ [SettingsNext]_stVars => Kept
  <2> SUFFICES ASSUME SettingsInv, [SettingsNext]_stVars, NEW file \in Files,
                      NEW field \in FieldsOf(file), stDisk'[field] # stDisk[field]
               PROVE  /\ file \notin stDamaged
                      /\ \/ SeenBefore(field)
                         \/ stTray.field = field /\ stDisk'[field] = 1 - stDisk[field]
    OBVIOUS
  <2>1. field \in Fields
    BY SMTT(25) DEF Fields, FieldsOf, Files
  <2>2. \/ \E panel \in Panels : WriteConfig(panel) \/ WritePrefs(panel)
        \/ ToggleWrite
    BY DEF SettingsNext, stVars, OpenPanel, RestoreDefaults, AskSave, EditForm, LockPanel,
           LockTimesOut, MergeSettings, ClosePanel, ToggleRead, EditByHand
  <2>3. ASSUME NEW panel \in Panels, WriteConfig(panel)
        PROVE  stDamaged = {} /\ SeenBefore(field)
    <3>1. /\ stPanel[panel].phase = "config" /\ Written("config", stPanel[panel].merged)
          /\ \A f \in FieldsOf("config") : StillMerged(panel, f)
      BY <2>3 DEF WriteConfig, May, SettingsInv, PlanTrue, FieldsOf
    <3> QED
      BY <2>1, <3>1, PanelWrites DEF Files
  <2>4. ASSUME NEW panel \in Panels, WritePrefs(panel)
        PROVE  stDamaged = {} /\ SeenBefore(field)
    <3>1. /\ stPanel[panel].phase = "prefs" /\ Written("prefs", stPanel[panel].merged)
          /\ \A f \in FieldsOf("prefs") : StillMerged(panel, f)
      BY <2>4 DEF WritePrefs, May, SettingsInv, PlanTrue, FieldsOf
    <3> QED
      BY <2>1, <3>1, PanelWrites DEF Files
  <2>5. CASE ToggleWrite
    <3>1. /\ field \in PrefFields /\ "prefs" \notin stDamaged
          /\ stTray.field = field /\ stDisk'[field] = 1 - stDisk[field]
      BY <2>1, <2>5, TrayWrites
    <3>2. file = "prefs"
      BY <3>1, SettingsAssumption DEF FieldsOf, Files
    <3> QED
      BY <3>1, <3>2
  <2> QED
    BY <2>2, <2>3, <2>4, <2>5
<1> QED
  BY InitInv, NextInv, <1>1, PTL DEF SettingsSpec, SavesKeepOthers

-----------------------------------------------------------------------------
(* The settings window.  There is one request of the login switch at a     *)
(* time; what it answers is how login start is, until the next; the switch *)
(* cannot be turned while it runs, and stays dirty until it is granted.    *)
OneRequest ==
    /\ wbWorker = NoRequest \/ wbAnswers = NoRequest
    /\ wbAnswers # NoRequest => wbAnswers.enabled = wbSystem
    /\ wbClaim = "login" => wbWorker = NoRequest /\ wbAnswers = NoRequest
    /\ wbOpen =>
         /\ wbSwitch.busy => ~wbSwitch.sensitive
         /\ wbWorker # NoRequest /\ wbWorker.wants # "ask" => wbSwitch.dirty
         /\ wbAnswers # NoRequest /\ wbAnswers.wants # "ask" => wbSwitch.dirty

WorkbenchInv == WorkbenchTypeOK /\ OneRequest /\ SwitchTrue /\ SavedMeansSaved /\ wbChosen /\ CaptureByChoice

LEMMA RequestsAre ==
    /\ \A request \in [wants : Wants, done : BOOLEAN] : request # NoRequest
    /\ \A answer \in [wants : Wants, ok : BOOLEAN, enabled : BOOLEAN] : answer # NoRequest
<1>1. "done" \notin DOMAIN NoRequest /\ "ok" \notin DOMAIN NoRequest
  BY DEF NoRequest
<1>2. \A request \in [wants : Wants, done : BOOLEAN] : "done" \in DOMAIN request
  OBVIOUS
<1>3. \A answer \in [wants : Wants, ok : BOOLEAN, enabled : BOOLEAN] : "ok" \in DOMAIN answer
  OBVIOUS
<1> QED
  BY <1>1, <1>2, <1>3

(* While the switch and its request rest, they stay as true as they were;  *)
(* so does the status line, while the form and the file do.                *)
LEMMA SwitchStays ==
    ASSUME WorkbenchInv, SwitchRest, wbOpen' => wbOpen, wbClaim' \in {"none", "form", wbClaim}
    PROVE  OneRequest' /\ SwitchTrue' /\ (wbClaim' = "login" /\ wbOpen' => wbSwitch'.shown = wbSystem')
<1>1. UNCHANGED <<wbSwitch, wbWorker, wbAnswers, wbSystem>>
  BY DEF SwitchRest
<1>2. OneRequest'
  BY <1>1 DEF WorkbenchInv, OneRequest
<1>3. SwitchTrue'
  BY <1>1 DEF WorkbenchInv, SwitchTrue
<1> QED
  BY <1>1, <1>2, <1>3 DEF WorkbenchInv, SavedMeansSaved

LEMMA EditingKeeps ==
    ASSUME WorkbenchInv, EditField \/ FillDefaults \/ FolderChosen PROVE WorkbenchInv'
<1>1. /\ UNCHANGED <<wbJob, wbCapture, wbOpen, wbChosen, wbDisk>> /\ SwitchRest /\ wbClaim' = "none"
      /\ \E v \in FormValues : wbForm' = [wbForm EXCEPT !.shown = v]
      /\ wbCounts' \in [edits : 0 .. MaxFormEdits, requests : 1 .. MaxRequests]
      /\ wbDialog' \in {wbDialog, "none"}
  <2>1. wbCounts' \in [edits : 0 .. MaxFormEdits, requests : 1 .. MaxRequests]
    <3>1. wbCounts \in [edits : 0 .. MaxFormEdits, requests : 1 .. MaxRequests]
      BY DEF WorkbenchInv, WorkbenchTypeOK
    <3>2. \/ wbCounts' = wbCounts
          \/ wbCounts.edits < MaxFormEdits /\ wbCounts' = [wbCounts EXCEPT !.edits = @ + 1]
      BY DEF EditField, FillDefaults, FolderChosen, FormEdits
    <3> QED
      BY <3>1, <3>2, WorkbenchAssumption
  <2> QED
    BY <2>1, WorkbenchAssumption DEF EditField, FillDefaults, FolderChosen, WindowRest
<1>2. WorkbenchTypeOK'
  BY <1>1 DEF WorkbenchInv, WorkbenchTypeOK, SwitchRest
<1>3. OneRequest' /\ SwitchTrue'
  BY <1>1, SwitchStays
<1>4. SavedMeansSaved' /\ wbChosen' /\ CaptureByChoice'
  BY <1>1 DEF WorkbenchInv, SavedMeansSaved, CaptureByChoice
<1> QED
  BY <1>2, <1>3, <1>4 DEF WorkbenchInv

LEMMA FlipSwitchKeeps == ASSUME WorkbenchInv, FlipSwitch PROVE WorkbenchInv'
<1>1. /\ UNCHANGED <<wbForm, wbDisk, wbWorker, wbAnswers, wbSystem, wbDialog, wbJob, wbCapture, wbOpen, wbChosen>>
      /\ wbOpen /\ wbSwitch.sensitive /\ wbClaim' = "none"
      /\ wbSwitch' = Notified([wbSwitch EXCEPT !.shown = ~@])
      /\ wbCounts' = [wbCounts EXCEPT !.edits = @ + 1] /\ wbCounts.edits < MaxFormEdits
  BY DEF FlipSwitch, FormUsable, FormEdits, FormRest, WindowRest
<1>2. wbSwitch \in [shown : BOOLEAN, dirty : BOOLEAN, busy : BOOLEAN, sensitive : BOOLEAN] /\ ~wbSwitch.busy
  BY <1>1 DEF WorkbenchInv, WorkbenchTypeOK, OneRequest
<1>3. /\ wbSwitch' \in [shown : BOOLEAN, dirty : BOOLEAN, busy : BOOLEAN, sensitive : BOOLEAN]
      /\ wbSwitch'.dirty /\ ~wbSwitch'.busy
  <2>1. (~wbSwitch.shown) \in BOOLEAN
    OBVIOUS
  <2> QED
    BY <1>1, <1>2, <2>1 DEF Notified
<1>4. wbCounts' \in [edits : 0 .. MaxFormEdits, requests : 1 .. MaxRequests]
  BY <1>1, WorkbenchAssumption DEF WorkbenchInv, WorkbenchTypeOK
<1>5. WorkbenchTypeOK'
  BY <1>1, <1>3, <1>4 DEF WorkbenchInv, WorkbenchTypeOK
<1>6. OneRequest'
  BY <1>1, <1>3 DEF WorkbenchInv, OneRequest
<1>7. SwitchTrue'
  BY <1>1, <1>2, <1>3 DEF WorkbenchInv, SwitchTrue
<1>8. SavedMeansSaved' /\ wbChosen' /\ CaptureByChoice'
  BY <1>1 DEF WorkbenchInv, SavedMeansSaved, CaptureByChoice
<1> QED
  BY <1>5, <1>6, <1>7, <1>8 DEF WorkbenchInv

LEMMA SaveFormKeeps == ASSUME WorkbenchInv, SaveForm PROVE WorkbenchInv'
<1>1. /\ UNCHANGED <<wbAnswers, wbSystem, wbDialog, wbJob, wbCapture, wbOpen, wbChosen>> /\ wbOpen
      /\ wbForm \in [shown : FormValues, saved : FormValues]
      /\ wbSwitch \in [shown : BOOLEAN, dirty : BOOLEAN, busy : BOOLEAN, sensitive : BOOLEAN]
  BY DEF SaveForm, WindowRest, FormUsable, WorkbenchInv, WorkbenchTypeOK
<1>2. wbChosen' /\ CaptureByChoice'
  BY <1>1 DEF WorkbenchInv, CaptureByChoice
<1>3. CASE wbClaim' = "none" /\ UNCHANGED <<wbForm, wbDisk, wbSwitch, wbWorker, wbCounts>>
  <2>1. WorkbenchTypeOK'
    BY <1>1, <1>3 DEF WorkbenchInv, WorkbenchTypeOK
  <2>2. OneRequest' /\ SwitchTrue'
    BY <1>1, <1>3, SwitchStays DEF SwitchRest
  <2>3. SavedMeansSaved'
    BY <1>3 DEF SavedMeansSaved
  <2> QED
    BY <1>2, <2>1, <2>2, <2>3 DEF WorkbenchInv
<1>4. ASSUME wbForm' = [wbForm EXCEPT !.saved = wbForm.shown], wbDisk' = wbForm.shown
      PROVE  wbForm' \in [shown : FormValues, saved : FormValues] /\ wbDisk' \in FormValues
             /\ wbForm'.shown = wbDisk' /\ wbForm'.saved = wbDisk'
  BY <1>1, <1>4
<1>5. CASE /\ ~wbSwitch.busy /\ wbCounts.requests < MaxRequests
           /\ wbForm' = [wbForm EXCEPT !.saved = wbForm.shown] /\ wbDisk' = wbForm.shown
           /\ wbSwitch.dirty /\ Requested(SwitchedTo(wbSwitch.shown))
           /\ wbCounts' = [wbCounts EXCEPT !.requests = @ + 1] /\ wbClaim' = "none"
  <2>1. wbWorker = NoRequest /\ wbAnswers = NoRequest
    BY <1>1, <1>5 DEF WorkbenchInv, SwitchTrue
  <2>2. /\ wbWorker' \in [wants : Wants, done : BOOLEAN] /\ wbWorker' # NoRequest
        /\ wbSwitch' \in [shown : BOOLEAN, dirty : BOOLEAN, busy : BOOLEAN, sensitive : BOOLEAN]
        /\ wbSwitch'.busy /\ ~wbSwitch'.sensitive /\ wbSwitch'.dirty
    BY <1>1, <1>5, RequestsAre DEF Requested, SwitchedTo, Wants
  <2>3. wbCounts' \in [edits : 0 .. MaxFormEdits, requests : 1 .. MaxRequests]
    BY <1>5, WorkbenchAssumption DEF WorkbenchInv, WorkbenchTypeOK
  <2>4. WorkbenchTypeOK'
    BY <1>1, <1>4, <1>5, <2>2, <2>3 DEF WorkbenchInv, WorkbenchTypeOK
  <2>5. OneRequest' /\ SwitchTrue' /\ SavedMeansSaved'
    BY <1>1, <1>5, <2>1, <2>2 DEF OneRequest, SwitchTrue, SavedMeansSaved
  <2> QED
    BY <1>2, <2>4, <2>5 DEF WorkbenchInv
<1>6. CASE /\ wbForm' = [wbForm EXCEPT !.saved = wbForm.shown] /\ wbDisk' = wbForm.shown
           /\ wbClaim' = "form" /\ UNCHANGED <<wbSwitch, wbWorker, wbCounts>>
  <2>1. WorkbenchTypeOK'
    BY <1>1, <1>4, <1>6 DEF WorkbenchInv, WorkbenchTypeOK
  <2>2. OneRequest' /\ SwitchTrue'
    BY <1>1, <1>6, SwitchStays DEF SwitchRest
  <2>3. SavedMeansSaved'
    BY <1>4, <1>6 DEF SavedMeansSaved
  <2> QED
    BY <1>2, <2>1, <2>2, <2>3 DEF WorkbenchInv
<1> QED
  BY <1>3, <1>5, <1>6 DEF SaveForm

LEMMA ManagerActsKeeps == ASSUME WorkbenchInv, ManagerActs PROVE WorkbenchInv'
<1>1. /\ UNCHANGED <<wbSwitch, wbAnswers, wbClaim, wbCounts, wbForm, wbDisk, wbDialog, wbJob, wbCapture, wbOpen, wbChosen>>
      /\ wbWorker # NoRequest /\ wbWorker' = [wbWorker EXCEPT !.done = TRUE] /\ wbSystem' \in BOOLEAN
  BY DEF ManagerActs, FormRest, WindowRest, WorkbenchInv, WorkbenchTypeOK
<1>2. wbWorker \in [wants : Wants, done : BOOLEAN] /\ wbAnswers = NoRequest /\ wbClaim # "login"
  BY <1>1 DEF WorkbenchInv, WorkbenchTypeOK, OneRequest
<1>3. wbWorker' \in [wants : Wants, done : BOOLEAN] /\ wbWorker'.wants = wbWorker.wants /\ wbWorker' # NoRequest
  BY <1>1, <1>2, RequestsAre
<1>4. WorkbenchTypeOK'
  BY <1>1, <1>3 DEF WorkbenchInv, WorkbenchTypeOK
<1>5. OneRequest'
  BY <1>1, <1>2, <1>3 DEF WorkbenchInv, OneRequest
<1>6. SwitchTrue'
  BY <1>1, <1>3 DEF WorkbenchInv, SwitchTrue
<1>7. SavedMeansSaved' /\ wbChosen' /\ CaptureByChoice'
  BY <1>1, <1>2 DEF WorkbenchInv, SavedMeansSaved, CaptureByChoice
<1> QED
  BY <1>4, <1>5, <1>6, <1>7 DEF WorkbenchInv

LEMMA WorkerPostsKeeps == ASSUME WorkbenchInv, WorkerPosts PROVE WorkbenchInv'
<1>1. /\ UNCHANGED <<wbSwitch, wbSystem, wbClaim, wbCounts, wbForm, wbDisk, wbDialog, wbJob, wbCapture, wbOpen, wbChosen>>
      /\ wbWorker # NoRequest /\ wbAnswers = NoRequest /\ wbWorker' = NoRequest
  BY DEF WorkerPosts, FormRest, WindowRest
<1>2. PICK ok \in BOOLEAN : wbAnswers' = [wants |-> wbWorker.wants, ok |-> ok, enabled |-> wbSystem]
  BY DEF WorkerPosts
<1>3. wbWorker \in [wants : Wants, done : BOOLEAN] /\ wbSystem \in BOOLEAN /\ wbClaim # "login"
  BY <1>1 DEF WorkbenchInv, WorkbenchTypeOK, OneRequest
<1>4. /\ wbAnswers' \in [wants : Wants, ok : BOOLEAN, enabled : BOOLEAN] /\ wbAnswers' # NoRequest
      /\ wbAnswers'.wants = wbWorker.wants /\ wbAnswers'.enabled = wbSystem
  BY <1>2, <1>3, RequestsAre
<1>5. WorkbenchTypeOK'
  BY <1>1, <1>4 DEF WorkbenchInv, WorkbenchTypeOK
<1>6. OneRequest'
  BY <1>1, <1>3, <1>4 DEF WorkbenchInv, OneRequest
<1>7. SwitchTrue'
  BY <1>1, <1>4 DEF WorkbenchInv, SwitchTrue
<1>8. SavedMeansSaved' /\ wbChosen' /\ CaptureByChoice'
  BY <1>1 DEF WorkbenchInv, SavedMeansSaved, CaptureByChoice
<1> QED
  BY <1>5, <1>6, <1>7, <1>8 DEF WorkbenchInv

LEMMA ApplyAnswerKeeps == ASSUME WorkbenchInv, ApplyAnswer PROVE WorkbenchInv'
<1>1. /\ UNCHANGED <<wbWorker, wbSystem, wbCounts, wbForm, wbDisk, wbDialog, wbJob, wbCapture, wbOpen, wbChosen>>
      /\ wbAnswers # NoRequest /\ wbAnswers' = NoRequest
  BY DEF ApplyAnswer, FormRest, WindowRest
<1>2. /\ wbAnswers \in [wants : Wants, ok : BOOLEAN, enabled : BOOLEAN] /\ wbWorker = NoRequest
      /\ wbAnswers.enabled = wbSystem
      /\ wbSwitch \in [shown : BOOLEAN, dirty : BOOLEAN, busy : BOOLEAN, sensitive : BOOLEAN]
  BY <1>1 DEF WorkbenchInv, WorkbenchTypeOK, OneRequest
<1>3. wbChosen' /\ CaptureByChoice'
  BY <1>1 DEF WorkbenchInv, CaptureByChoice
<1>4. CASE ~wbOpen /\ UNCHANGED <<wbSwitch, wbClaim>>
  <2>1. WorkbenchTypeOK'
    BY <1>1, <1>4 DEF WorkbenchInv, WorkbenchTypeOK
  <2>2. OneRequest' /\ SwitchTrue' /\ SavedMeansSaved'
    BY <1>1, <1>2, <1>4 DEF WorkbenchInv, OneRequest, SwitchTrue, SavedMeansSaved
  <2> QED
    BY <1>3, <2>1, <2>2 DEF WorkbenchInv
<1>5. CASE wbOpen
  <2> DEFINE saving == wbAnswers.wants # "ask"
  <2>1. /\ wbSwitch' = AfterAnswer(wbAnswers, saving)
        /\ wbClaim' = IF saving /\ wbAnswers.ok THEN "login" ELSE IF saving THEN "none" ELSE wbClaim
    BY <1>5 DEF ApplyAnswer
  <2>2. wbSwitch.busy /\ (saving => wbSwitch.dirty) /\ saving \in BOOLEAN
    BY <1>1, <1>2, <1>5 DEF WorkbenchInv, SwitchTrue, OneRequest
  <2> HIDE DEF saving
  <2>3. /\ wbSwitch' \in [shown : BOOLEAN, dirty : BOOLEAN, busy : BOOLEAN, sensitive : BOOLEAN]
        /\ ~wbSwitch'.busy
        /\ wbSwitch'.sensitive /\ ~wbSwitch'.dirty => wbSwitch'.shown = wbSystem
        /\ wbAnswers.ok => wbSwitch'.shown = wbSystem
    <3>1. CASE wbAnswers.ok
      <4>1. wbSwitch' = [[wbSwitch EXCEPT !.shown = wbAnswers.enabled]
                           EXCEPT !.dirty = FALSE, !.sensitive = TRUE, !.busy = FALSE]
        BY <1>2, <2>1, <2>2, <3>1 DEF AfterAnswer, Notified
      <4> QED
        BY <1>2, <4>1
    <3>2. CASE ~wbAnswers.ok
      BY <1>2, <2>1, <2>2, <3>2 DEF AfterAnswer
    <3> QED
      BY <3>1, <3>2
  <2>4. wbClaim' \in {"none", "form", "login"} /\ (wbClaim' = "login" => wbAnswers.ok)
        /\ (wbClaim' = "form" => wbClaim = "form")
    BY <1>1, <2>1 DEF WorkbenchInv, WorkbenchTypeOK, OneRequest
  <2>5. WorkbenchTypeOK'
    BY <1>1, <2>3, <2>4 DEF WorkbenchInv, WorkbenchTypeOK
  <2>6. OneRequest' /\ SwitchTrue'
    BY <1>1, <1>2, <2>3 DEF OneRequest, SwitchTrue
  <2>7. SavedMeansSaved'
    BY <1>1, <2>3, <2>4 DEF WorkbenchInv, SavedMeansSaved
  <2> QED
    BY <1>3, <2>5, <2>6, <2>7 DEF WorkbenchInv
<1> QED
  BY <1>4, <1>5 DEF ApplyAnswer

(* Dialogs, the end of the window and the capture change neither the form  *)
(* nor the switch.                                                         *)
LEMMA DialogStep ==
    ASSUME WorkbenchInv, FormRest, SwitchRest, UNCHANGED <<wbClaim, wbCounts>>,
           wbDialog' \in {"none", "unsaved", "folder", "image"}, wbJob' \in BOOLEAN,
           wbCapture' \in {"none", "scheduled", "started", "failed"}, wbOpen' \in BOOLEAN,
           wbOpen' => wbOpen, wbChosen', wbChosen' \in BOOLEAN, wbCapture' # "none" => ~wbOpen'
    PROVE  WorkbenchInv'
<1>1. UNCHANGED <<wbForm, wbDisk, wbSwitch, wbWorker, wbAnswers, wbSystem>>
  BY DEF FormRest, SwitchRest
<1>2. WorkbenchTypeOK'
  BY <1>1 DEF WorkbenchInv, WorkbenchTypeOK
<1>3. OneRequest' /\ SwitchTrue' /\ (wbClaim' = "login" /\ wbOpen' => wbSwitch'.shown = wbSystem')
  BY SwitchStays
<1>4. SavedMeansSaved'
  BY <1>1, <1>3 DEF WorkbenchInv, SavedMeansSaved
<1> QED
  BY <1>2, <1>3, <1>4 DEF WorkbenchInv, CaptureByChoice

LEMMA DialogsKeep ==
    ASSUME WorkbenchInv,
           LaunchCapture \/ Asks("folder") \/ Asks("image") \/ DialogDismissed \/ DiscardChosen
             \/ ImageChosen \/ ImageDecoded \/ CloseWindow \/ StartCapture
    PROVE  WorkbenchInv'
<1>1. /\ wbDialog \in {"none", "unsaved", "folder", "image"} /\ wbJob \in BOOLEAN
      /\ wbCapture \in {"none", "scheduled", "started", "failed"} /\ wbOpen \in BOOLEAN
      /\ wbChosen = TRUE /\ (wbCapture # "none" => ~wbOpen)
  BY DEF WorkbenchInv, WorkbenchTypeOK, CaptureByChoice
<1>2. CASE LaunchCapture \/ DiscardChosen
  <2>1. FormRest /\ SwitchRest /\ UNCHANGED <<wbClaim, wbCounts, wbJob>> /\ wbOpen
    BY <1>2 DEF LaunchCapture, DiscardChosen, FormUsable
  <2>2. CASE wbOpen' = FALSE /\ wbCapture' = "scheduled" /\ wbDialog' = "none" /\ wbChosen' = TRUE
    BY <1>1, <2>1, <2>2, DialogStep
  <2>3. CASE wbDialog' \in {"none", "unsaved"} /\ UNCHANGED <<wbOpen, wbCapture, wbChosen>>
    BY <1>1, <2>1, <2>3, DialogStep
  <2> QED
    BY <1>1, <1>2, <2>2, <2>3 DEF LaunchCapture, DiscardChosen, ClosesForCapture, NoProgram
<1>3. CASE Asks("folder") \/ Asks("image") \/ DialogDismissed \/ ImageChosen \/ ImageDecoded
  <2>1. FormRest /\ SwitchRest /\ UNCHANGED <<wbClaim, wbCounts, wbCapture, wbOpen, wbChosen>>
        /\ wbDialog' \in {"none", "folder", "image", wbDialog} /\ wbJob' \in {TRUE, FALSE, wbJob}
    BY <1>3 DEF Asks, DialogDismissed, ImageChosen, ImageDecoded
  <2>2. wbDialog' \in {"none", "unsaved", "folder", "image"} /\ wbJob' \in BOOLEAN
    BY <1>1, <2>1
  <2> QED
    BY <1>1, <2>1, <2>2, DialogStep
<1>4. CASE CloseWindow \/ StartCapture
  <2>1. FormRest /\ SwitchRest /\ UNCHANGED <<wbClaim, wbCounts, wbDialog, wbJob, wbChosen>>
    BY <1>4 DEF CloseWindow, StartCapture
  <2>2. /\ wbCapture' \in {"none", "scheduled", "started", "failed"} /\ wbOpen' \in BOOLEAN
        /\ (wbOpen' => wbOpen) /\ (wbCapture' # "none" => ~wbOpen')
    <3>1. CASE CloseWindow
      BY <1>1, <3>1 DEF CloseWindow
    <3>2. CASE StartCapture
      <4>1. wbOpen' = wbOpen /\ wbCapture # "none" /\ wbCapture' \in {"started", "failed"}
        BY <3>2 DEF StartCapture
      <4> QED
        BY <1>1, <4>1
    <3> QED
      BY <1>4, <3>1, <3>2
  <2> QED
    BY <1>1, <2>1, <2>2, DialogStep
<1> QED
  BY <1>2, <1>3, <1>4

LEMMA WorkbenchInitInv == WorkbenchInit => WorkbenchInv
<1> SUFFICES ASSUME WorkbenchInit PROVE WorkbenchInv
  OBVIOUS
<1>1. wbWorker \in [wants : Wants, done : BOOLEAN] /\ wbWorker # NoRequest
  BY RequestsAre DEF WorkbenchInit, Wants
<1>2. wbForm \in [shown : FormValues, saved : FormValues]
      /\ wbCounts \in [edits : 0 .. MaxFormEdits, requests : 1 .. MaxRequests]
  BY WorkbenchAssumption DEF WorkbenchInit
<1>3. WorkbenchTypeOK
  BY <1>1, <1>2 DEF WorkbenchInit, WorkbenchTypeOK
<1>4. OneRequest /\ SwitchTrue /\ SavedMeansSaved /\ wbChosen /\ CaptureByChoice
  BY <1>1 DEF WorkbenchInit, OneRequest, SwitchTrue, SavedMeansSaved, CaptureByChoice
<1> QED
  BY <1>3, <1>4 DEF WorkbenchInv

LEMMA WorkbenchNextInv == WorkbenchInv /\ [WorkbenchNext]_wbVars => WorkbenchInv'
<1> SUFFICES ASSUME WorkbenchInv, [WorkbenchNext]_wbVars PROVE WorkbenchInv'
  OBVIOUS
<1>1. CASE UNCHANGED wbVars
  BY <1>1 DEF WorkbenchInv, WorkbenchTypeOK, OneRequest, SwitchTrue, SavedMeansSaved, CaptureByChoice, wbVars
<1>2. CASE EditField \/ FillDefaults \/ FolderChosen \/ FlipSwitch \/ SaveForm
  BY <1>2, EditingKeeps, FlipSwitchKeeps, SaveFormKeeps
<1>3. CASE ManagerActs \/ WorkerPosts \/ ApplyAnswer
  BY <1>3, ManagerActsKeeps, WorkerPostsKeeps, ApplyAnswerKeeps
<1>4. CASE LaunchCapture \/ Asks("folder") \/ Asks("image") \/ DialogDismissed \/ DiscardChosen
           \/ ImageChosen \/ ImageDecoded \/ CloseWindow \/ StartCapture
  BY <1>4, DialogsKeep
<1> QED
  BY <1>1, <1>2, <1>3, <1>4 DEF WorkbenchNext

(* The settings window tells the truth about what it saved, however many   *)
(* edits and requests there are, while the answers of the release manager, *)
(* the dialogs and the closing of the window come in any order (panel.rs). *)
THEOREM WorkbenchKeeps == WorkbenchSpec => [](WorkbenchTypeOK /\ WorkbenchTrue)
<1>1. WorkbenchInv => WorkbenchTypeOK /\ WorkbenchTrue
  BY DEF WorkbenchInv, WorkbenchTrue
<1> QED
  BY WorkbenchInitInv, WorkbenchNextInv, <1>1, PTL DEF WorkbenchSpec

-----------------------------------------------------------------------------
(* The model names: the buttons and the hint.  Nothing is said of a list    *)
(* before one was fetched.                                                  *)
Fetches == [kind : {"probe", "models"}, answered : BOOLEAN, ok : BOOLEAN, models : Seq(ModelNames)]

PickerInv ==
    /\ mpFetch = NoFetch \/ mpFetch \in Fetches
    /\ mpButtons \in [probing : BOOLEAN, test : BOOLEAN, fetch : BOOLEAN]
    /\ mpHint \in {"listed", "unlisted"} => mpFetched # Empty
    /\ ButtonsReturn /\ HintTrue

LEMMA NotAFetch == \A fetch \in Fetches : fetch # NoFetch
<1>1. NoFetch.kind = "none" /\ \A fetch \in Fetches : fetch.kind # "none"
  BY DEF NoFetch, Fetches
<1> QED
  BY <1>1

LEMMA HintSays ==
    ASSUME NEW entry, NEW fetched,
           mpHint \in {"listed", "unlisted"} => mpFetched # Empty, fetched = Empty => mpFetched = Empty
    PROVE  LET hint == Hinted(entry, fetched) IN
           /\ hint = "listed" => entry \in ToSet(fetched)
           /\ hint = "unlisted" => entry \notin ToSet(fetched)
           /\ hint \in {"listed", "unlisted"} => fetched # Empty
BY DEF Hinted

(* The entry and the list. *)
LEMMA EntryKeeps ==
    ASSUME PickerInv,
           \/ TypeName \/ OpenList \/ TypeSearch \/ SearchChanged \/ StepCursor
           \/ CommitCursor \/ RowActivated \/ DismissList \/ PanelCloses
    PROVE  PickerInv'
<1>1. mpFetch' = mpFetch /\ mpButtons' = mpButtons /\ mpFetched' = mpFetched /\ (mpPanel' => mpPanel)
  BY DEF TypeName, OpenList, TypeSearch, SearchChanged, StepCursor, CommitCursor, RowActivated, CommitName,
         DismissList, PanelCloses, RequestRests, Picks
<1>2. \/ mpEntry' = mpEntry /\ mpHint' = mpHint
      \/ mpHint' = Hinted(mpEntry', mpFetched)
  BY DEF TypeName, OpenList, TypeSearch, SearchChanged, StepCursor, CommitCursor, RowActivated, CommitName,
         DismissList, PanelCloses
<1>3. ButtonsReturn'
  BY <1>1 DEF PickerInv, ButtonsReturn
<1>4. HintTrue' /\ (mpHint' \in {"listed", "unlisted"} => mpFetched' # Empty)
  BY <1>1, <1>2, HintSays DEF PickerInv, HintTrue
<1> QED
  BY <1>1, <1>3, <1>4 DEF PickerInv

(* A request begins, with its button. *)
LEMMA AsksKeep == ASSUME PickerInv, TestConnection \/ FetchModels PROVE PickerInv'
<1>1. mpEntry' = mpEntry /\ mpFetched' = mpFetched /\ mpPanel /\ mpPanel' /\ mpHint' \in {mpHint, "fetching"}
  BY DEF TestConnection, FetchModels, Picks
<1>2. CASE UNCHANGED <<mpButtons, mpFetch>>
  BY <1>1, <1>2 DEF PickerInv, ButtonsReturn, HintTrue
<1>3. ASSUME NEW kind \in {"probe", "models"}, ~mpButtons.probing,
             mpFetch' = [kind |-> kind, answered |-> FALSE, ok |-> FALSE, models |-> Empty],
             \/ kind = "probe" /\ mpButtons' = [mpButtons EXCEPT !.probing = TRUE, !.test = FALSE]
             \/ kind = "models" /\ mpButtons' = [mpButtons EXCEPT !.probing = TRUE, !.fetch = FALSE]
      PROVE  PickerInv'
  <2>1. Empty \in Seq(ModelNames)
    BY DEF Empty
  <2>2. mpFetch' \in Fetches /\ mpFetch'.kind = kind /\ mpFetch' # NoFetch
    BY <1>3, <2>1, NotAFetch DEF Fetches
  <2>3. mpFetch = NoFetch /\ mpButtons.test = TRUE /\ mpButtons.fetch = TRUE
    BY <1>1, <1>3 DEF PickerInv, ButtonsReturn
  <2>4. /\ mpButtons' \in [probing : BOOLEAN, test : BOOLEAN, fetch : BOOLEAN] /\ mpButtons'.probing = TRUE
        /\ mpButtons'.test = (kind = "models") /\ mpButtons'.fetch = (kind = "probe")
    BY <1>3, <2>3 DEF PickerInv
  <2> QED
    BY <1>1, <2>2, <2>4 DEF PickerInv, ButtonsReturn, HintTrue
<1> QED
  BY <1>2, <1>3 DEF TestConnection, FetchModels

(* The answer arrives, is shown, or finds nobody. *)
LEMMA AnswersKeep == ASSUME PickerInv, EndpointAnswers \/ ShowProbe \/ ShowModels \/ AnswerLost PROVE PickerInv'
<1>1. CASE EndpointAnswers
  <2>1. mpFetch \in Fetches /\ UNCHANGED <<mpEntry, mpButtons, mpFetched, mpHint, mpPanel>>
    BY <1>1 DEF EndpointAnswers, PickerInv
  <2>2. mpFetch' \in Fetches /\ mpFetch'.kind = mpFetch.kind
    <3>1. ASSUME NEW models \in ListAnswers, mpFetch' = [mpFetch EXCEPT !.answered = TRUE, !.ok = TRUE, !.models = models]
          PROVE  mpFetch' \in Fetches /\ mpFetch'.kind = mpFetch.kind
      <4>1. models \in Seq(ModelNames)
        BY PickerAssumption
      <4> QED
        BY <2>1, <3>1, <4>1 DEF Fetches
    <3>2. CASE mpFetch' = [mpFetch EXCEPT !.answered = TRUE]
      BY <2>1, <3>2 DEF Fetches
    <3> QED
      BY <1>1, <3>1, <3>2 DEF EndpointAnswers
  <2> QED
    BY <2>1, <2>2, NotAFetch DEF PickerInv, ButtonsReturn, HintTrue
<1>2. CASE ShowProbe
  <2>1. mpFetch \in Fetches /\ mpFetch.kind = "probe" /\ UNCHANGED <<mpEntry, mpFetched, mpHint, mpPanel>> /\ mpPanel
        /\ mpFetch' = NoFetch /\ mpButtons' = [mpButtons EXCEPT !.probing = FALSE, !.test = TRUE]
    BY <1>2 DEF ShowProbe, PickerInv
  <2>2. mpButtons.fetch = TRUE
    BY <2>1 DEF PickerInv, ButtonsReturn
  <2>3. mpButtons' \in [probing : BOOLEAN, test : BOOLEAN, fetch : BOOLEAN] /\ mpButtons'.probing = FALSE
        /\ mpButtons'.test = TRUE /\ mpButtons'.fetch = TRUE
    BY <2>1, <2>2 DEF PickerInv
  <2> QED
    BY <2>1, <2>3 DEF PickerInv, ButtonsReturn, HintTrue
<1>3. CASE ShowModels
  <2>1. mpFetch \in Fetches /\ mpFetch.kind = "models" /\ UNCHANGED <<mpEntry, mpPanel>> /\ mpPanel
        /\ mpFetch' = NoFetch /\ mpButtons' = [mpButtons EXCEPT !.probing = FALSE, !.fetch = TRUE]
    BY <1>3 DEF ShowModels, PickerInv
  <2>2. mpButtons.test = TRUE
    BY <2>1, NotAFetch DEF PickerInv, ButtonsReturn
  <2>3. mpButtons' \in [probing : BOOLEAN, test : BOOLEAN, fetch : BOOLEAN] /\ mpButtons'.probing = FALSE
        /\ mpButtons'.test = TRUE /\ mpButtons'.fetch = TRUE
    BY <2>1, <2>2 DEF PickerInv
  <2>4. HintTrue' /\ (mpHint' \in {"listed", "unlisted"} => mpFetched' # Empty)
    <3>1. CASE mpHint' \in {"failed", "empty"}
      BY <3>1 DEF HintTrue
    <3>2. CASE mpFetch.models # Empty /\ mpFetched' = mpFetch.models /\ mpHint' = Hinted(mpEntry, mpFetched')
      BY <2>1, <3>2 DEF HintTrue, Hinted
    <3> QED
      BY <1>3, <3>1, <3>2 DEF ShowModels
  <2> QED
    BY <2>1, <2>3, <2>4 DEF PickerInv, ButtonsReturn
<1>4. CASE AnswerLost
  <2>1. ~mpPanel' /\ mpFetch' = NoFetch /\ UNCHANGED <<mpEntry, mpButtons, mpFetched, mpHint>>
    BY <1>4 DEF AnswerLost
  <2> QED
    BY <2>1 DEF PickerInv, ButtonsReturn, HintTrue
<1> QED
  BY <1>1, <1>2, <1>3, <1>4

(* The list.  Names picked of names that differ, differ; and the cursor     *)
(* stays on a row.  A recursive function is what its definition says by the *)
(* least number for which it would not be (LeastNat).                       *)
(* No name is in a list twice. *)
AllDiffer(names) == \A i, j \in 1 .. Len(names) : i # j => names[i] # names[j]

(* One more name looked at. *)
PickNext(models, places, g, i) ==
    IF i = 0 THEN Empty
    ELSE IF i \in places THEN Append(g[i - 1], models[i]) ELSE g[i - 1]

LEMMA PickIsThere ==
    ASSUME NEW models, NEW places, NEW n \in Nat
    PROVE  \E g : g = [i \in 0 .. n |-> PickNext(models, places, g, i)]
<1> DEFINE T == {k \in Nat : ~ \E g : g = [i \in 0 .. k |-> PickNext(models, places, g, i)]}
<1> SUFFICES ASSUME T # {} PROVE FALSE
  OBVIOUS
<1>1. PICK t \in T : \A k \in T : t <= k
  BY LeastNat
<1>2. CASE t = 0
  <2> DEFINE g == [i \in 0 .. 0 |-> Empty]
  <2>1. g = [i \in 0 .. 0 |-> PickNext(models, places, g, i)]
    BY DEF PickNext
  <2> HIDE DEF g
  <2>2. \E f : f = [i \in 0 .. t |-> PickNext(models, places, f, i)]
    BY <1>2, <2>1
  <2> QED
    BY <2>2
<1>3. CASE t # 0
  <2>1. t - 1 \in Nat /\ t - 1 \notin T /\ t \in Nat
    BY <1>1, <1>3
  <2>2. PICK g : g = [i \in 0 .. t - 1 |-> PickNext(models, places, g, i)]
    BY <2>1
  <2> DEFINE last == PickNext(models, places, g, t)
             h == [i \in 0 .. t |-> IF i = t THEN last ELSE g[i]]
  <2>3. \A i \in 0 .. t : PickNext(models, places, h, i) = h[i]
    <3> TAKE i \in 0 .. t
    <3>1. i # 0 => i - 1 \in 0 .. t /\ i - 1 # t /\ h[i - 1] = g[i - 1]
      BY <2>1
    <3>2. PickNext(models, places, h, i) = PickNext(models, places, g, i)
      BY <3>1 DEF PickNext
    <3>3. i # t => i \in 0 .. t - 1 /\ g[i] = PickNext(models, places, g, i)
      BY <2>1, <2>2
    <3> QED
      BY <3>2, <3>3
  <2> HIDE DEF last
  <2>4. h = [i \in 0 .. t |-> h[i]]
    OBVIOUS
  <2> HIDE DEF h
  <2>5. h = [i \in 0 .. t |-> PickNext(models, places, h, i)]
    BY <2>3, <2>4
  <2> QED
    BY <2>5
<1> QED
  BY <1>2, <1>3

LEMMA PickedIs ==
    ASSUME NEW models \in Seq(ModelNames), NEW places
    PROVE  \E g : /\ g = [i \in 0 .. Len(models) |-> PickNext(models, places, g, i)]
                  /\ Picked(models, places) = g[Len(models)]
<1>1. Len(models) \in Nat
  BY LenProperties
<1> DEFINE kept == CHOOSE g : g = [i \in 0 .. Len(models) |-> PickNext(models, places, g, i)]
<1>2. Picked(models, places) = kept[Len(models)]
  BY DEF Picked, PickNext
<1>3. kept = [i \in 0 .. Len(models) |-> PickNext(models, places, kept, i)]
  BY <1>1, PickIsThere
<1> QED
  BY <1>2, <1>3

(* What is picked up to a place is names from there.                       *)
From(picked, models, places, n) ==
    /\ picked \in Seq(ModelNames) /\ AllDiffer(picked)
    /\ \A a \in 1 .. Len(picked) : \E j \in places : j \in 1 .. n /\ picked[a] = models[j]

LEMMA OneMore ==
    ASSUME NEW models \in Seq(ModelNames), NEW places, NEW n \in Nat, n < Len(models), n + 1 \in places,
           \A i, j \in places : i \in 1 .. Len(models) /\ j \in 1 .. Len(models) /\ i # j => models[i] # models[j],
           NEW before, From(before, models, places, n)
    PROVE  From(Append(before, models[n + 1]), models, places, n + 1)
<1>1. Len(models) \in Nat /\ n + 1 \in 1 .. Len(models) /\ models[n + 1] \in ModelNames
  BY LenProperties, ElementOfSeq
<1>2. PICK name \in ModelNames : name = models[n + 1]
  BY <1>1
<1>3. PICK more : more = Append(before, name)
  OBVIOUS
<1>4. before \in Seq(ModelNames) /\ Len(before) \in Nat
  BY LenProperties DEF From
<1>5. /\ more \in Seq(ModelNames) /\ Len(more) = Len(before) + 1
      /\ \A a \in 1 .. Len(before) : more[a] = before[a]
      /\ more[Len(before) + 1] = name
  BY <1>3, <1>4, AppendProperties
<1>6. \A a \in 1 .. Len(before) : more[a] # name
  <2> TAKE a \in 1 .. Len(before)
  <2>1. PICK j \in places : j \in 1 .. n /\ before[a] = models[j]
    BY DEF From
  <2>2. j \in 1 .. Len(models) /\ j # n + 1
    BY <1>1, <2>1
  <2>3. models[j] # models[n + 1]
    BY <1>1, <2>2
  <2> QED
    BY <1>2, <1>5, <2>1, <2>3
<1>7. AllDiffer(more)
  <2> SUFFICES ASSUME NEW a \in 1 .. Len(more), NEW b \in 1 .. Len(more), a # b PROVE more[a] # more[b]
    BY DEF AllDiffer
  <2>1. CASE a \in 1 .. Len(before) /\ b \in 1 .. Len(before)
    BY <1>5, <2>1 DEF From, AllDiffer
  <2>2. CASE a \in 1 .. Len(before) /\ b = Len(before) + 1
    BY <1>5, <1>6, <2>2
  <2>3. CASE a = Len(before) + 1 /\ b \in 1 .. Len(before)
    BY <1>5, <1>6, <2>3
  <2> QED
    BY <1>4, <1>5, <2>1, <2>2, <2>3
<1>8. \A a \in 1 .. Len(more) : \E j \in places : j \in 1 .. n + 1 /\ more[a] = models[j]
  <2> TAKE a \in 1 .. Len(more)
  <2>1. CASE a \in 1 .. Len(before)
    <3>1. PICK j \in places : j \in 1 .. n /\ before[a] = models[j]
      BY <2>1 DEF From
    <3>2. j \in 1 .. n + 1 /\ more[a] = models[j]
      BY <1>5, <2>1, <3>1
    <3> QED
      BY <3>2
  <2>2. CASE a = Len(before) + 1
    <3>1. n + 1 \in 1 .. n + 1 /\ more[a] = models[n + 1]
      BY <1>2, <1>5, <2>2
    <3> QED
      BY <3>1
  <2> QED
    BY <1>4, <1>5, <2>1, <2>2
<1>9. From(more, models, places, n + 1)
  BY <1>5, <1>7, <1>8 DEF From
<1> QED
  BY <1>2, <1>3, <1>9

(* What is picked of names that differ are names that differ.              *)
LEMMA PickedDiffer ==
    ASSUME NEW models \in Seq(ModelNames), NEW places,
           \A i, j \in places : i \in 1 .. Len(models) /\ j \in 1 .. Len(models) /\ i # j => models[i] # models[j]
    PROVE  Picked(models, places) \in Seq(ModelNames) /\ AllDiffer(Picked(models, places))
<1>1. Len(models) \in Nat
  BY LenProperties
<1>2. PICK g : /\ g = [i \in 0 .. Len(models) |-> PickNext(models, places, g, i)]
               /\ Picked(models, places) = g[Len(models)]
  BY PickedIs
<1>3. \A i \in 0 .. Len(models) : g[i] = PickNext(models, places, g, i)
  BY <1>2
<1> DEFINE T == {i \in 0 .. Len(models) : ~From(g[i], models, places, i)}
<1>4. T = {}
  <2> SUFFICES ASSUME T # {} PROVE FALSE
    OBVIOUS
  <2>1. PICK t \in T : \A k \in T : t <= k
    <3>1. T \in SUBSET Nat
      BY <1>1
    <3> HIDE DEF T
    <3> QED
      BY <3>1, LeastNat
  <2>2. CASE t = 0
    <3>1. g[t] = Empty
      BY <1>3, <2>1, <2>2 DEF PickNext
    <3>2. Empty \in Seq(ModelNames) /\ Len(Empty) = 0
      BY DEF Empty
    <3>3. From(Empty, models, places, t)
      BY <3>2 DEF From, AllDiffer
    <3> QED
      BY <2>1, <3>1, <3>3
  <2>3. CASE t # 0
    <3>1. PICK n \in Nat : n = t - 1
      BY <1>1, <2>1, <2>3
    <3>2. t = n + 1 /\ n < Len(models) /\ n \in 0 .. Len(models) /\ n \notin T
      BY <1>1, <2>1, <3>1
    <3>3. From(g[n], models, places, n)
      BY <3>2
    <3>4. t - 1 = n /\ t \in 0 .. Len(models) /\ g[t] = PickNext(models, places, g, t)
      BY <1>3, <2>1, <3>1
    <3>5. CASE t \in places
      <4>1. g[t] = Append(g[n], models[n + 1])
        BY <2>3, <3>2, <3>4, <3>5 DEF PickNext
      <4>2. From(Append(g[n], models[n + 1]), models, places, n + 1)
        BY <3>2, <3>3, <3>5, OneMore
      <4> QED
        BY <2>1, <3>2, <4>1, <4>2
    <3>6. CASE t \notin places
      <4>1. g[t] = g[n]
        BY <2>3, <3>4, <3>6 DEF PickNext
      <4>2. 1 .. n \subseteq 1 .. n + 1
        OBVIOUS
      <4>3. From(g[n], models, places, n + 1)
        BY <3>3, <4>2 DEF From
      <4> QED
        BY <2>1, <3>2, <4>1, <4>3
    <3> QED
      BY <3>5, <3>6
  <2> QED
    BY <2>2, <2>3
<1>5. From(g[Len(models)], models, places, Len(models))
  BY <1>1, <1>4
<1> QED
  BY <1>2, <1>5 DEF From

LEMMA FilterDiffers ==
    ASSUME NEW models \in Seq(ModelNames), AllDiffer(models), NEW query
    PROVE  FilterModels(models, query) \in Seq(ModelNames) /\ AllDiffer(FilterModels(models, query))
<1> DEFINE places == {i \in DOMAIN models : models[i] = query}
<1>1. \A i, j \in places : i \in 1 .. Len(models) /\ j \in 1 .. Len(models) /\ i # j => models[i] # models[j]
  BY DEF AllDiffer
<1> HIDE DEF places
<1>2. Picked(models, places) \in Seq(ModelNames) /\ AllDiffer(Picked(models, places))
  BY <1>1, PickedDiffer
<1> QED
  BY <1>2 DEF FilterModels, places

LEMMA DedupeDiffers ==
    ASSUME NEW models \in Seq(ModelNames)
    PROVE  DedupeModels(models) \in Seq(ModelNames) /\ AllDiffer(DedupeModels(models))
<1> DEFINE places == {i \in DOMAIN models : \A j \in 1 .. i - 1 : models[j] # models[i]}
<1>1. \A i, j \in places : i \in 1 .. Len(models) /\ j \in 1 .. Len(models) /\ i # j => models[i] # models[j]
  <2> SUFFICES ASSUME NEW i \in places, NEW j \in places,
                      i \in 1 .. Len(models), j \in 1 .. Len(models), i # j
               PROVE  models[i] # models[j]
    OBVIOUS
  <2>1. Len(models) \in Nat
    BY LenProperties
  <2>2. i \in 1 .. j - 1 \/ j \in 1 .. i - 1
    BY <2>1
  <2> QED
    BY <2>2
<1> HIDE DEF places
<1>2. Picked(models, places) \in Seq(ModelNames) /\ AllDiffer(Picked(models, places))
  BY <1>1, PickedDiffer
<1> QED
  BY <1>2 DEF DedupeModels, places

Lists == [rows : Seq(ModelNames), cursor : Nat, lit : Nat, open : BOOLEAN]

(* A list as it stands, with the cursor on a row of it.                    *)
Standing(list) ==
    /\ list \in Lists /\ AllDiffer(list.rows)
    /\ list.lit = list.cursor /\ list.cursor \in 0 .. Len(list.rows)
    /\ list.open /\ list.rows # Empty => list.cursor # 0

ListInv ==
    /\ mpEntry \in ModelNames \cup {0} /\ mpModels \in Seq(ModelNames) /\ AllDiffer(mpModels)
    /\ Standing(mpList)
    /\ mpSearch \in [text : ModelNames \cup {0}, pending : BOOLEAN]
    /\ ~mpSearch.pending => mpList.rows = FilterModels(mpModels, mpSearch.text)
    /\ mpFetched \in Seq(ModelNames) /\ mpPanel \in BOOLEAN /\ mpPicks \in 0 .. MaxPicks
    /\ mpHint \in {"none", "fetching", "blank", "listed", "unlisted", "empty", "failed"}
    /\ mpProbe \in {"none", "testing", "ok", "unlisted", "failed"}

(* A list is its four fields. *)
LEMMA ListFields ==
    ASSUME NEW list \in Lists
    PROVE  /\ list = [field \in {"rows", "cursor", "lit", "open"} |-> list[field]]
           /\ list.rows \in Seq(ModelNames) /\ list.cursor \in Nat /\ list.lit \in Nat /\ list.open \in BOOLEAN
           /\ Len(list.rows) \in Nat
  BY LenProperties DEF Lists

LEMMA HighlightStands ==
    ASSUME NEW list \in Lists, AllDiffer(list.rows), NEW row \in 0 .. Len(list.rows),
           list.rows # Empty => row # 0
    PROVE  /\ Standing(Highlight(list, row)) /\ Highlight(list, row).rows = list.rows
           /\ Highlight(list, row).open = list.open
<1>1. /\ list = [field \in {"rows", "cursor", "lit", "open"} |-> list[field]]
      /\ list.rows \in Seq(ModelNames) /\ list.open \in BOOLEAN /\ Len(list.rows) \in Nat
  BY ListFields
<1>2. PICK lit : lit = [list EXCEPT !.lit = row, !.cursor = row]
  OBVIOUS
<1>3. /\ lit = [field \in {"rows", "cursor", "lit", "open"} |-> lit[field]]
      /\ lit.rows = list.rows /\ lit.open = list.open /\ lit.lit = row /\ lit.cursor = row
  BY <1>1, <1>2
<1>4. row \in Nat
  BY <1>1
<1>5. lit \in Lists
  BY <1>1, <1>3, <1>4 DEF Lists
<1> QED
  BY <1>2, <1>3, <1>5 DEF Highlight, Standing

LEMMA EmptyIs == \A rows \in Seq(ModelNames) : rows # Empty <=> 1 \in 1 .. Len(rows)
<1> TAKE rows \in Seq(ModelNames)
<1>1. Len(rows) \in Nat /\ (rows = Empty <=> Len(rows) = 0)
  BY EmptySeq, LenProperties DEF Empty
<1> QED
  BY <1>1

LEMMA RefillStands ==
    ASSUME NEW list \in Lists, NEW models \in Seq(ModelNames), AllDiffer(models), NEW query
    PROVE  LET it == Refill(list, models, query) IN
           Standing(it) /\ it.rows = FilterModels(models, query) /\ it.open = list.open
<1>1. PICK rows \in Seq(ModelNames) : rows = FilterModels(models, query) /\ AllDiffer(rows)
  BY FilterDiffers
<1>2. PICK row : row = IF rows = Empty THEN 0 ELSE 1
  OBVIOUS
<1>3. Len(rows) \in Nat /\ row \in 0 .. Len(rows) /\ (rows # Empty => row # 0)
  BY <1>2, EmptyIs, LenProperties
<1>4. PICK filled : filled = [list EXCEPT !.rows = rows]
  OBVIOUS
<1>5. filled \in Lists /\ filled.rows = rows /\ filled.open = list.open
  BY <1>4, ListFields DEF Lists
<1>6. /\ Standing(Highlight(filled, row)) /\ Highlight(filled, row).rows = rows
      /\ Highlight(filled, row).open = list.open
  BY <1>1, <1>3, <1>5, HighlightStands
<1>7. Refill(list, models, query) = Highlight(filled, row)
  BY <1>1, <1>2, <1>4 DEF Refill
<1> QED
  BY <1>1, <1>6, <1>7

LEMMA CurrentStands ==
    ASSUME NEW list, Standing(list), NEW entry
    PROVE  LET it == HighlightCurrent(list, entry) IN
           Standing(it) /\ it.rows = list.rows /\ it.open = list.open
<1>1. list \in Lists /\ AllDiffer(list.rows) /\ list.rows \in Seq(ModelNames) /\ Len(list.rows) \in Nat
  BY ListFields DEF Standing
<1>2. PICK row : row = IF entry \in ToSet(list.rows) THEN CHOOSE i \in 1 .. Len(list.rows) : list.rows[i] = entry
                       ELSE IF list.rows = Empty THEN 0 ELSE 1
  OBVIOUS
<1>3. row \in 0 .. Len(list.rows) /\ (list.rows # Empty => row # 0)
  <2>1. CASE entry \in ToSet(list.rows)
    <3>1. \E i \in 1 .. Len(list.rows) : list.rows[i] = entry
      BY <1>1, <2>1 DEF ToSet
    <3>2. row \in 1 .. Len(list.rows)
      BY <1>2, <2>1, <3>1
    <3> QED
      BY <1>1, <3>2
  <2>2. CASE entry \notin ToSet(list.rows)
    BY <1>1, <1>2, <2>2, EmptyIs
  <2> QED
    BY <2>1, <2>2
<1>4. HighlightCurrent(list, entry) = Highlight(list, row)
  BY <1>2 DEF HighlightCurrent
<1> QED
  BY <1>1, <1>3, <1>4, HighlightStands

LEMMA CloseStands ==
    ASSUME NEW list, Standing(list), NEW flag \in BOOLEAN, flag => list.open
    PROVE  Standing([list EXCEPT !.open = flag]) /\ [list EXCEPT !.open = flag].rows = list.rows
<1>1. /\ list = [field \in {"rows", "cursor", "lit", "open"} |-> list[field]]
      /\ list.rows \in Seq(ModelNames) /\ list.cursor \in Nat /\ list.lit \in Nat
  BY ListFields DEF Standing
<1>2. PICK other : other = [list EXCEPT !.open = flag]
  OBVIOUS
<1>3. /\ other = [field \in {"rows", "cursor", "lit", "open"} |-> other[field]]
      /\ other.rows = list.rows /\ other.open = flag /\ other.lit = list.lit /\ other.cursor = list.cursor
  BY <1>1, <1>2
<1>4. other \in Lists
  BY <1>1, <1>3 DEF Lists
<1> QED
  BY <1>2, <1>3, <1>4 DEF Standing

LEMMA StepStands ==
    ASSUME NEW list, Standing(list), list.open, NEW down \in BOOLEAN, NEW next, next = NextCursor(list.cursor, down, Len(list.rows))
    PROVE  Standing(Highlight(list, next)) /\ Highlight(list, next).rows = list.rows
<1>1. list \in Lists /\ AllDiffer(list.rows) /\ list.rows \in Seq(ModelNames) /\ Len(list.rows) \in Nat
      /\ list.cursor \in 0 .. Len(list.rows)
  BY ListFields DEF Standing
<1>2. list.rows # Empty => Len(list.rows) # 0
  BY <1>1, EmptyIs
<1>3. next \in 0 .. Len(list.rows) /\ (Len(list.rows) # 0 => next # 0)
  BY <1>1 DEF NextCursor
<1> QED
  BY <1>1, <1>2, <1>3, HighlightStands

Hints == {"none", "fetching", "blank", "listed", "unlisted", "empty", "failed"}

LEMMA HintedIsHint == ASSUME mpHint \in Hints, NEW entry, NEW fetched PROVE Hinted(entry, fetched) \in Hints
  BY DEF Hinted, Hints

(* What a step that picks does to the number of picks.                     *)
LEMMA PicksKeep == ASSUME ListInv, Picks PROVE mpPanel /\ mpPicks' \in 0 .. MaxPicks
  BY PickerAssumption DEF ListInv, Picks

LEMMA EntryList == ASSUME ListInv, TypeName \/ CommitCursor \/ RowActivated PROVE ListInv'
<1>1. CASE TypeName
  <2>1. mpEntry' \in ModelNames \cup {0} /\ mpHint' \in Hints
    BY <1>1, HintedIsHint DEF TypeName, ListInv, Hints
  <2>2. mpPicks' \in 0 .. MaxPicks
    BY <1>1, PicksKeep DEF TypeName
  <2>3. UNCHANGED <<mpModels, mpList, mpSearch, mpFetched, mpProbe, mpPanel>>
    BY <1>1 DEF TypeName, ListRests, RequestRests
  <2> QED
    BY <2>1, <2>2, <2>3 DEF ListInv, Hints
<1>2. ASSUME NEW row, CommitName(row) PROVE ListInv'
  <2>1. mpList.rows \in Seq(ModelNames) /\ row \in 1 .. Len(mpList.rows)
    BY <1>2, ListFields DEF CommitName, ListInv, Standing
  <2>2. mpList.rows[row] \in ModelNames
    BY <2>1, ElementOfSeq
  <2>3. mpEntry' \in ModelNames \cup {0} /\ mpHint' \in Hints
    BY <1>2, <2>2, HintedIsHint DEF CommitName, ListInv, Hints
  <2>4. mpPicks' \in 0 .. MaxPicks
    BY <1>2, PicksKeep DEF CommitName
  <2>5. PICK no \in BOOLEAN : no = FALSE
    OBVIOUS
  <2>6. mpList' = [mpList EXCEPT !.open = no]
    BY <1>2, <2>5 DEF CommitName
  <2>7. Standing(mpList') /\ mpList'.rows = mpList.rows
    BY <2>5, <2>6, CloseStands DEF ListInv
  <2>8. UNCHANGED <<mpModels, mpSearch, mpFetched, mpProbe, mpPanel>>
    BY <1>2 DEF CommitName, RequestRests
  <2> QED
    BY <2>3, <2>4, <2>7, <2>8 DEF ListInv, Hints
<1> QED
  BY <1>1, <1>2 DEF CommitCursor, RowActivated

LEMMA ListFacts ==
    ASSUME ListInv
    PROVE  /\ mpList \in Lists /\ Standing(mpList) /\ mpModels \in Seq(ModelNames) /\ AllDiffer(mpModels)
           /\ mpSearch.text \in ModelNames \cup {0} /\ mpSearch.pending \in BOOLEAN
  BY DEF ListInv, Standing

(* The search field at rest. *)
LEMMA SearchIs ==
    ASSUME NEW text \in ModelNames \cup {0}, NEW pending \in BOOLEAN
    PROVE  /\ [text |-> text, pending |-> pending] \in [text : ModelNames \cup {0}, pending : BOOLEAN]
           /\ [text |-> text, pending |-> pending].text = text
           /\ [text |-> text, pending |-> pending].pending = pending
  OBVIOUS

LEMMA OpenListStep == ASSUME ListInv, OpenList PROVE ListInv'
<1>1. PICK no \in BOOLEAN : no = FALSE
  OBVIOUS
<1>2. mpSearch' = [text |-> 0, pending |-> no] /\ mpPicks' \in 0 .. MaxPicks
      /\ UNCHANGED <<mpEntry, mpModels, mpFetched, mpHint, mpProbe, mpPanel>>
  BY <1>1, PicksKeep DEF OpenList, RequestRests
<1>3. /\ mpSearch' \in [text : ModelNames \cup {0}, pending : BOOLEAN]
      /\ mpSearch'.text = 0
  BY <1>2, SearchIs
<1>4. PICK list : list = [mpList EXCEPT !.open = TRUE]
  OBVIOUS
<1>5. list \in Lists
  <2>1. PICK yes \in BOOLEAN : yes = TRUE
    OBVIOUS
  <2>2. list = [mpList EXCEPT !.open = yes]
    BY <1>4, <2>1
  <2> QED
    BY <2>2, ListFacts DEF Lists
<1>6. PICK full : full = Refill(list, mpModels, 0)
  OBVIOUS
<1>7. Standing(full) /\ full.rows = FilterModels(mpModels, 0)
  BY <1>5, <1>6, RefillStands, ListFacts
<1>8. mpList' = HighlightCurrent(full, mpEntry)
  BY <1>4, <1>6 DEF OpenList
<1>9. Standing(mpList') /\ mpList'.rows = FilterModels(mpModels, 0)
  BY <1>7, <1>8, CurrentStands
<1> QED
  BY <1>2, <1>3, <1>9 DEF ListInv

LEMMA SearchSteps == ASSUME ListInv, TypeSearch \/ SearchChanged PROVE ListInv'
<1>1. CASE TypeSearch
  <2>1. PICK query \in ModelNames \cup {0} :
          /\ mpSearch' = [text |-> query, pending |-> query # 0]
          /\ mpList' = IF query = 0 THEN Refill(mpList, mpModels, 0) ELSE mpList
    BY <1>1 DEF TypeSearch
  <2>2. PICK pending \in BOOLEAN : pending = (query # 0)
    OBVIOUS
  <2>3. mpSearch' = [text |-> query, pending |-> pending]
    BY <2>1, <2>2
  <2>4. /\ mpSearch' \in [text : ModelNames \cup {0}, pending : BOOLEAN]
        /\ mpSearch'.text = query /\ mpSearch'.pending = pending
    BY <2>3, SearchIs
  <2>5. Standing(mpList') /\ (query = 0 => mpList'.rows = FilterModels(mpModels, query))
    BY <2>1, RefillStands, ListFacts
  <2>6. mpPicks' \in 0 .. MaxPicks /\ UNCHANGED <<mpEntry, mpModels, mpFetched, mpHint, mpProbe, mpPanel>>
    BY <1>1, PicksKeep DEF TypeSearch, RequestRests
  <2> QED
    BY <2>2, <2>4, <2>5, <2>6 DEF ListInv
<1>2. CASE SearchChanged
  <2>1. mpList' = Refill(mpList, mpModels, mpSearch.text) /\ mpSearch' = [mpSearch EXCEPT !.pending = FALSE]
        /\ UNCHANGED <<mpEntry, mpModels, mpFetched, mpHint, mpProbe, mpPanel, mpPicks>>
    BY <1>2 DEF SearchChanged, RequestRests
  <2>2. Standing(mpList') /\ mpList'.rows = FilterModels(mpModels, mpSearch.text)
    BY <2>1, RefillStands, ListFacts
  <2>3. mpSearch' \in [text : ModelNames \cup {0}, pending : BOOLEAN] /\ mpSearch'.text = mpSearch.text
    <3>1. PICK no \in BOOLEAN : no = FALSE
      OBVIOUS
    <3>2. mpSearch' = [mpSearch EXCEPT !.pending = no]
      BY <2>1, <3>1
    <3> QED
      BY <3>2 DEF ListInv
  <2> QED
    BY <2>1, <2>2, <2>3 DEF ListInv
<1> QED
  BY <1>1, <1>2

LEMMA CursorSteps == ASSUME ListInv, StepCursor \/ DismissList \/ PanelCloses PROVE ListInv'
<1>1. UNCHANGED <<mpEntry, mpModels, mpSearch, mpFetched, mpHint, mpProbe>>
  BY DEF StepCursor, DismissList, PanelCloses, RequestRests
<1>2. CASE StepCursor
  <2>1. PICK down \in BOOLEAN :
          LET next == NextCursor(mpList.cursor, down, Len(mpList.rows)) IN
          mpList' = IF next = mpList.cursor THEN mpList ELSE Highlight(mpList, next)
    BY <1>2 DEF StepCursor
  <2>2. PICK next : next = NextCursor(mpList.cursor, down, Len(mpList.rows))
    OBVIOUS
  <2>3. mpList' = mpList \/ mpList' = Highlight(mpList, next)
    BY <2>1, <2>2
  <2>4. Standing(Highlight(mpList, next)) /\ Highlight(mpList, next).rows = mpList.rows
    BY <1>2, <2>2, StepStands, ListFacts DEF StepCursor
  <2>5. Standing(mpList') /\ mpList'.rows = mpList.rows
    BY <2>3, <2>4, ListFacts
  <2>6. mpPicks' \in 0 .. MaxPicks /\ mpPanel' = mpPanel
    BY <1>2, PicksKeep DEF StepCursor
  <2> QED
    BY <1>1, <2>5, <2>6 DEF ListInv
<1>3. CASE DismissList \/ PanelCloses
  <2>1. PICK no \in BOOLEAN : no = FALSE
    OBVIOUS
  <2>2. mpList' = [mpList EXCEPT !.open = no] /\ mpPicks' = mpPicks /\ mpPanel' \in {mpPanel, no}
    BY <1>3, <2>1 DEF DismissList, PanelCloses
  <2>3. Standing(mpList') /\ mpList'.rows = mpList.rows
    BY <2>1, <2>2, CloseStands, ListFacts
  <2> QED
    BY <1>1, <2>2, <2>3 DEF ListInv
<1> QED
  BY <1>2, <1>3

LEMMA RequestList == ASSUME ListInv, TestConnection \/ FetchModels \/ EndpointAnswers \/ ShowProbe \/ AnswerLost
                     PROVE  ListInv'
<1>1. UNCHANGED <<mpEntry, mpModels, mpList, mpSearch, mpFetched, mpPanel>>
  BY DEF TestConnection, FetchModels, EndpointAnswers, ShowProbe, AnswerLost, ListRests
<1>2. mpPicks' \in 0 .. MaxPicks
  <2>1. CASE TestConnection \/ FetchModels
    BY <2>1, PicksKeep DEF TestConnection, FetchModels
  <2>2. CASE EndpointAnswers \/ ShowProbe \/ AnswerLost
    BY <2>2 DEF ListInv, EndpointAnswers, ShowProbe, AnswerLost
  <2> QED
    BY <2>1, <2>2
<1>3. mpHint' \in {mpHint, "fetching"} /\ mpProbe' \in {mpProbe, "testing", "failed", "ok", "unlisted"}
  BY DEF TestConnection, FetchModels, EndpointAnswers, ShowProbe, AnswerLost
<1>4. /\ mpHint' \in {"none", "fetching", "blank", "listed", "unlisted", "empty", "failed"}
      /\ mpProbe' \in {"none", "testing", "ok", "unlisted", "failed"}
  BY <1>3 DEF ListInv
<1> QED
  BY <1>1, <1>2, <1>4 DEF ListInv

LEMMA ModelsList ==
    ASSUME ListInv, ShowModels, mpFetch.models \in Seq(ModelNames)
    PROVE  ListInv'
<1>1. UNCHANGED <<mpEntry, mpProbe, mpPanel, mpPicks>>
  BY DEF ShowModels
<1>2. CASE UNCHANGED <<mpModels, mpList, mpSearch, mpFetched>> /\ mpHint' \in {"failed", "empty"}
  BY <1>1, <1>2 DEF ListInv
<1>3. CASE /\ mpModels' = DedupeModels(mpFetch.models) /\ mpFetched' = mpFetch.models
           /\ mpSearch' = [text |-> 0, pending |-> FALSE] /\ mpList' = Refill(mpList, mpModels', 0)
           /\ mpHint' = Hinted(mpEntry, mpFetched')
  <2>1. PICK models \in Seq(ModelNames) : models = DedupeModels(mpFetch.models) /\ AllDiffer(models)
    BY DedupeDiffers
  <2>2. mpModels' = models /\ mpList' = Refill(mpList, models, 0)
    BY <1>3, <2>1
  <2>3. Standing(mpList') /\ mpList'.rows = FilterModels(models, 0)
    BY <2>1, <2>2, RefillStands, ListFacts
  <2>4. PICK no \in BOOLEAN : no = FALSE
    OBVIOUS
  <2>5. mpSearch' = [text |-> 0, pending |-> no]
    BY <1>3, <2>4
  <2>6. mpSearch' \in [text : ModelNames \cup {0}, pending : BOOLEAN] /\ mpSearch'.text = 0
    BY <2>5, SearchIs
  <2>7. mpHint' \in Hints
    BY <1>3, HintedIsHint DEF ListInv, Hints
  <2> QED
    BY <1>1, <1>3, <2>1, <2>2, <2>3, <2>6, <2>7 DEF ListInv, Hints
<1> QED
  BY <1>2, <1>3 DEF ShowModels

LEMMA NothingPicked == FilterModels(Empty, 0) = Empty
  BY DEF FilterModels

LEMMA ListInit == ASSUME PickerInit PROVE ListInv
<1>1. Empty \in Seq(ModelNames) /\ Len(Empty) = 0
  BY DEF Empty
<1>2. AllDiffer(Empty)
  BY <1>1 DEF AllDiffer
<1>3. PICK no \in BOOLEAN : no = FALSE
  OBVIOUS
<1>4. mpList = [rows |-> Empty, cursor |-> 0, lit |-> 0, open |-> no]
  BY <1>3 DEF PickerInit
<1>5. mpList \in Lists /\ mpList.rows = Empty /\ mpList.cursor = 0 /\ mpList.lit = 0
  BY <1>1, <1>4 DEF Lists
<1>6. Standing(mpList)
  BY <1>1, <1>2, <1>5 DEF Standing
<1>7. mpSearch = [text |-> 0, pending |-> no]
  BY <1>3 DEF PickerInit
<1>8. mpSearch \in [text : ModelNames \cup {0}, pending : BOOLEAN] /\ mpSearch.text = 0
  BY <1>7, SearchIs
<1>9. mpPicks \in 0 .. MaxPicks
  BY PickerAssumption DEF PickerInit
<1> QED
  BY <1>1, <1>2, <1>5, <1>6, <1>8, <1>9, NothingPicked DEF PickerInit, ListInv

LEMMA ListStep == ASSUME PickerInv, ListInv, [PickerNext]_mpVars PROVE ListInv'
<1>1. CASE UNCHANGED mpVars
  BY <1>1 DEF mpVars, ListInv
<1>2. CASE ShowModels
  <2>1. mpFetch.models \in Seq(ModelNames)
    BY <1>2 DEF ShowModels, PickerInv, Fetches
  <2> QED
    BY <1>2, <2>1, ModelsList
<1> QED
  BY <1>1, <1>2, EntryList, OpenListStep, SearchSteps, CursorSteps, RequestList DEF PickerNext

(* For any names, answers and number of picks: the highlighted row is the   *)
(* one the cursor is at and a row of the list, and the rows are those the   *)
(* search asks for, no name twice; no answer leaves the panel with a dead   *)
(* button; and the hint is true of the name and the list there are          *)
(* (panel.rs, model_picker.rs).                                             *)
THEOREM PickerKeeps == PickerSpec => [](PickerTypeOK /\ CursorIsShown /\ ButtonsReturn /\ HintTrue)
<1>1. PickerInit => PickerInv /\ ListInv
  <2> SUFFICES ASSUME PickerInit PROVE PickerInv
    BY ListInit
  <2>1. mpFetch = NoFetch /\ mpHint = "none" /\ mpButtons = [probing |-> FALSE, test |-> TRUE, fetch |-> TRUE]
    BY DEF PickerInit
  <2>2. /\ mpButtons \in [probing : BOOLEAN, test : BOOLEAN, fetch : BOOLEAN]
        /\ mpButtons.probing = FALSE /\ mpButtons.test = TRUE /\ mpButtons.fetch = TRUE
    BY <2>1
  <2> QED
    BY <2>1, <2>2 DEF PickerInv, ButtonsReturn, HintTrue
<1>2. PickerInv /\ [PickerNext]_mpVars => PickerInv'
  <2> SUFFICES ASSUME PickerInv, [PickerNext]_mpVars PROVE PickerInv'
    OBVIOUS
  <2>1. CASE UNCHANGED mpVars
    BY <2>1 DEF mpVars, PickerInv, ButtonsReturn, HintTrue
  <2>2. CASE PickerNext
    BY <2>2, EntryKeeps, AsksKeep, AnswersKeep DEF PickerNext
  <2> QED
    BY <2>1, <2>2
<1>3. PickerInv /\ ListInv /\ [PickerNext]_mpVars => ListInv'
  BY ListStep
<1>4. PickerInv /\ ListInv => PickerTypeOK /\ CursorIsShown /\ ButtonsReturn /\ HintTrue
  <2> SUFFICES ASSUME PickerInv, ListInv PROVE PickerTypeOK /\ CursorIsShown
    BY DEF PickerInv
  <2>1. PickerTypeOK
    BY DEF PickerInv, ListInv, PickerTypeOK, Fetches, Standing, Lists
  <2>2. CursorIsShown
    BY DEF ListInv, CursorIsShown, Standing, AllDiffer
  <2> QED
    BY <2>1, <2>2
<1> QED
  BY <1>1, <1>2, <1>3, <1>4, PTL DEF PickerSpec

-----------------------------------------------------------------------------
(* The tray.                                                               *)
Bits == {0, 1}
Showing == {"top", "ask", "update"}
WorkersOf == [entry : Entries \union {"ensure"}, args : Bits, saved : Bits, stage : {"route", "report"}]
TrayRecords == [phase : {"off", "lock", "register"} \union Showing, tries : Nat, marks : Bits,
                queue : Seq({"quit", "refresh"}), quit : BOOLEAN, callback : {"free", "saved", "failed"},
                wrote : Bits, workers : SUBSET WorkersOf, behind : BOOLEAN, unseen : BOOLEAN]
Queued(it, message) == \E i \in DOMAIN it.queue : it.queue[i] = message

(* What a process shows, or is about to show, is what was saved, unless it *)
(* knows better; what was asked of the service is looked at; one without   *)
(* an icon has nothing to show and nobody at work.                         *)
ShowsTrue(it, disk) ==
    /\ it.callback = "free" /\ ~it.behind => it.marks = disk
    /\ it.callback = "saved" /\ ~it.behind => it.wrote = disk
    /\ it.unseen => it.phase = "ask" \/ Queued(it, "refresh") \/ \E worker \in it.workers : worker.stage = "report"
    /\ \A worker \in it.workers : worker.args = worker.saved
    /\ it.quit => Queued(it, "quit")

Quiet(it) == ~it.quit /\ ~it.unseen /\ it.callback = "free" /\ it.workers = {}

ProcessTrue(it, disk) == IF it.phase \in Showing THEN ShowsTrue(it, disk) ELSE Quiet(it)

TrayTyped ==
    /\ tyLock \in TrayProcesses \union {NoTray} /\ tyDisk \in Bits
    /\ tyProc \in [TrayProcesses -> TrayRecords]

TrayInv ==
    /\ TrayTyped
    /\ \A process \in TrayProcesses :
        /\ tyProc[process].phase \in {"register"} \union Showing => tyLock = process
        /\ ProcessTrue(tyProc[process], tyDisk)

LEMMA NoProcessIs ==
    NoProcess \in TrayRecords /\ NoProcess.phase = "off" /\ Quiet(NoProcess)
BY DEF NoProcess, TrayRecords, Quiet, Bits, Showing, WorkersOf

LEMMA QueueGrows ==
    ASSUME NEW queue \in Seq({"quit", "refresh"}), NEW message \in {"quit", "refresh"}
    PROVE  /\ Append(queue, message) \in Seq({"quit", "refresh"})
           /\ \A i \in DOMAIN queue : i \in DOMAIN Append(queue, message) /\ Append(queue, message)[i] = queue[i]
           /\ \E i \in DOMAIN Append(queue, message) : Append(queue, message)[i] = message
<1>1. Append(queue, message) \in Seq({"quit", "refresh"}) /\ Len(queue) + 1 \in DOMAIN Append(queue, message)
      /\ Append(queue, message)[Len(queue) + 1] = message
  OBVIOUS
<1>2. \A i \in DOMAIN queue : i \in DOMAIN Append(queue, message) /\ Append(queue, message)[i] = queue[i]
  OBVIOUS
<1> QED
  BY <1>1, <1>2

(* A process by itself: what it does leaves the others as they were.       *)
LEMMA OneChanges ==
    ASSUME TrayInv, NEW process \in TrayProcesses, NEW new \in TrayRecords,
           tyProc' = [tyProc EXCEPT ![process] = new], tyDisk' = tyDisk,
           tyLock' \in TrayProcesses \union {NoTray},
           \A other \in TrayProcesses \ {process} : tyLock = other => tyLock' = other,
           new.phase \in {"register"} \union Showing => tyLock' = process,
           ProcessTrue(new, tyDisk)
    PROVE  TrayInv'
<1>1. tyProc \in [TrayProcesses -> TrayRecords]
  BY DEF TrayInv, TrayTyped
<1>2. TrayTyped'
  BY <1>1 DEF TrayInv, TrayTyped
<1>3. ASSUME NEW other \in TrayProcesses
      PROVE  /\ tyProc'[other].phase \in {"register"} \union Showing => tyLock' = other
             /\ ProcessTrue(tyProc'[other], tyDisk')
  <2>1. CASE other = process
    BY <1>1, <2>1
  <2>2. CASE other # process
    <3>1. tyProc'[other] = tyProc[other]
      BY <1>1, <2>2
    <3>2. /\ tyProc[other].phase \in {"register"} \union Showing => tyLock = other
          /\ ProcessTrue(tyProc[other], tyDisk)
      BY DEF TrayInv
    <3> QED
      BY <2>2, <3>1, <3>2
  <2> QED
    BY <2>1, <2>2
<1> QED
  BY <1>2, <1>3 DEF TrayInv

LEMMA ProcessIs ==
    ASSUME TrayInv, NEW process \in TrayProcesses
    PROVE  /\ tyProc[process] \in TrayRecords /\ tyDisk \in Bits /\ tyLock \in TrayProcesses \union {NoTray}
           /\ tyProc[process].phase \in {"register"} \union Showing => tyLock = process
           /\ ProcessTrue(tyProc[process], tyDisk)
           /\ Shows(process) <=> tyProc[process].phase \in Showing
           /\ process # NoTray
BY TrayAssumption DEF TrayInv, TrayTyped, Shows, Showing, NoTray

LEMMA EndKeeps ==
    ASSUME TrayInv, NEW process \in TrayProcesses, End(process) PROVE TrayInv'
<1>1. tyProc' = [tyProc EXCEPT ![process] = NoProcess] /\ tyDisk' = tyDisk
      /\ tyLock' = IF tyLock = process THEN NoTray ELSE tyLock
  BY DEF End
<1>2. ProcessTrue(NoProcess, tyDisk) /\ NoProcess.phase \notin {"register"} \union Showing
  BY NoProcessIs DEF ProcessTrue, Showing
<1> QED
  BY <1>1, <1>2, NoProcessIs, ProcessIs, OneChanges

LEMMA StartingKeeps ==
    ASSUME TrayInv, NEW process \in TrayProcesses,
           Launch(process) \/ Acquire(process) \/ RegisterFails(process) \/ Crash(process)
    PROVE  TrayInv'
<1> DEFINE it == tyProc[process]
<1>1. CASE Launch(process)
  <2>1. /\ it \in TrayRecords /\ ProcessTrue(it, tyDisk) /\ it.phase = "off" /\ tyDisk' = tyDisk /\ tyLock' = tyLock
        /\ tyProc' = [tyProc EXCEPT ![process] = [it EXCEPT !.phase = "lock"]]
    BY <1>1, ProcessIs DEF Launch
  <2>2. [it EXCEPT !.phase = "lock"] \in TrayRecords /\ ProcessTrue([it EXCEPT !.phase = "lock"], tyDisk)
        /\ [it EXCEPT !.phase = "lock"].phase \notin {"register"} \union Showing
    BY <2>1 DEF TrayRecords, ProcessTrue, Quiet, Showing
  <2> QED
    BY <2>1, <2>2, ProcessIs, OneChanges
<1>2. CASE Acquire(process)
  <2>1. it \in TrayRecords /\ ProcessTrue(it, tyDisk) /\ it.phase = "lock" /\ tyDisk' = tyDisk
    BY <1>2, ProcessIs DEF Acquire
  <2>2. CASE tyLock' = tyLock /\ tyProc' = [tyProc EXCEPT ![process] = NoProcess]
    <3>1. ProcessTrue(NoProcess, tyDisk) /\ NoProcess.phase \notin {"register"} \union Showing
      BY NoProcessIs DEF ProcessTrue, Showing
    <3> QED
      BY <2>1, <2>2, <3>1, NoProcessIs, ProcessIs, OneChanges
  <2>3. CASE /\ tyLock = NoTray /\ tyLock' = process
             /\ tyProc' = [tyProc EXCEPT ![process] = [it EXCEPT !.phase = "register"]]
    <3>1. [it EXCEPT !.phase = "register"] \in TrayRecords
          /\ ProcessTrue([it EXCEPT !.phase = "register"], tyDisk)
      BY <2>1 DEF TrayRecords, ProcessTrue, Quiet, Showing
    <3>2. \A other \in TrayProcesses : tyLock # other
      BY <2>3, ProcessIs
    <3> QED
      BY <2>1, <2>3, <3>1, <3>2, OneChanges
  <2> QED
    BY <1>2, <2>2, <2>3 DEF Acquire
<1>3. CASE RegisterFails(process) /\ ~End(process)
  <2>1. /\ it \in TrayRecords /\ ProcessTrue(it, tyDisk) /\ it.phase = "register" /\ tyDisk' = tyDisk
        /\ tyLock' = tyLock /\ tyLock = process
        /\ tyProc' = [tyProc EXCEPT ![process] = [it EXCEPT !.tries = @ + 1]]
    BY <1>3, ProcessIs DEF RegisterFails
  <2>2. [it EXCEPT !.tries = @ + 1] \in TrayRecords /\ ProcessTrue([it EXCEPT !.tries = @ + 1], tyDisk)
    BY <2>1 DEF TrayRecords, ProcessTrue, Quiet, Showing
  <2> QED
    BY <2>1, <2>2, ProcessIs, OneChanges
<1> QED
  BY <1>1, <1>2, <1>3, EndKeeps DEF Crash

LEMMA RegisterIconKeeps ==
    ASSUME TrayInv, NEW process \in TrayProcesses, RegisterIcon(process) PROVE TrayInv'
<1> DEFINE it == tyProc[process]
           ensure == [entry |-> "ensure", args |-> 0, saved |-> 0, stage |-> "route"]
           new == [it EXCEPT !.phase = "top", !.marks = tyDisk, !.behind = FALSE, !.workers = {ensure}]
<1>1. /\ it \in TrayRecords /\ it.phase = "register" /\ Quiet(it) /\ tyDisk \in Bits /\ tyLock = process
      /\ UNCHANGED <<tyLock, tyDisk>> /\ tyProc' = [tyProc EXCEPT ![process] = new]
  BY ProcessIs DEF RegisterIcon, ProcessTrue, Showing
<1>2. ensure \in WorkersOf /\ ensure.args = ensure.saved
  BY DEF WorkersOf, Bits
<1> HIDE DEF ensure
<1>3. new \in TrayRecords /\ new.phase \in Showing
  BY <1>1, <1>2 DEF TrayRecords, Showing
<1>4. ShowsTrue(new, tyDisk)
  BY <1>1, <1>2 DEF ShowsTrue, Quiet, TrayRecords
<1> HIDE DEF new
<1>5. ProcessTrue(new, tyDisk)
  BY <1>3, <1>4 DEF ProcessTrue
<1> QED
  BY <1>1, <1>3, <1>5, ProcessIs, OneChanges

(* A process that shows the icon goes on showing it.                       *)
LEMMA ShownChanges ==
    ASSUME TrayInv, NEW process \in TrayProcesses, tyProc[process].phase \in Showing,
           NEW new \in TrayRecords, new.phase \in Showing, ShowsTrue(new, tyDisk),
           tyProc' = [tyProc EXCEPT ![process] = new], UNCHANGED <<tyLock, tyDisk>>
    PROVE  TrayInv'
BY ProcessIs, OneChanges DEF ProcessTrue

LEMMA LoopKeeps ==
    ASSUME TrayInv, NEW process \in TrayProcesses,
           Turn(process) \/ AskStatus(process) \/ Update(process) \/ OpenMenu(process)
    PROVE  TrayInv'
<1> DEFINE it == tyProc[process]
<1>1. it \in TrayRecords /\ ProcessTrue(it, tyDisk) /\ tyDisk \in Bits
  BY ProcessIs
<1>2. CASE Turn(process) /\ ~End(process)
  <2> DEFINE new == [it EXCEPT !.queue = <<>>, !.phase = "ask"]
  <2>1. it.phase = "top" /\ tyProc' = [tyProc EXCEPT ![process] = new] /\ UNCHANGED <<tyLock, tyDisk>>
        /\ Drain(it.queue) # "quit"
    BY <1>2 DEF Turn
  <2>2. ShowsTrue(it, tyDisk) /\ ~it.quit
    BY <1>1, <2>1 DEF ProcessTrue, Showing, ShowsTrue, Drain, Queued
  <2>3. <<>> \in Seq({"quit", "refresh"})
    OBVIOUS
  <2>4. new \in TrayRecords /\ new.phase \in Showing /\ it.phase \in Showing
    BY <1>1, <2>1, <2>3 DEF TrayRecords, Showing
  <2>5. ShowsTrue(new, tyDisk)
    BY <1>1, <2>2 DEF ShowsTrue, TrayRecords
  <2> HIDE DEF new
  <2> QED
    BY <2>1, <2>4, <2>5, ShownChanges
<1>3. CASE AskStatus(process)
  <2> DEFINE new == [it EXCEPT !.phase = "update", !.unseen = FALSE]
  <2>1. it.phase = "ask" /\ tyProc' = [tyProc EXCEPT ![process] = new] /\ UNCHANGED <<tyLock, tyDisk>>
    BY <1>3 DEF AskStatus
  <2>2. ShowsTrue(it, tyDisk)
    BY <1>1, <2>1 DEF ProcessTrue, Showing
  <2>3. new \in TrayRecords /\ new.phase \in Showing /\ it.phase \in Showing
    BY <1>1, <2>1 DEF TrayRecords, Showing
  <2>4. ShowsTrue(new, tyDisk)
    BY <1>1, <2>2 DEF ShowsTrue, TrayRecords, Queued
  <2> HIDE DEF new
  <2> QED
    BY <2>1, <2>3, <2>4, ShownChanges
<1>4. CASE Update(process) /\ ~End(process)
  <2> DEFINE new == [it EXCEPT !.phase = "top", !.marks = tyDisk, !.behind = FALSE]
  <2>1. it.phase = "update" /\ tyProc' = [tyProc EXCEPT ![process] = new] /\ UNCHANGED <<tyLock, tyDisk>>
        /\ it.callback = "free"
    BY <1>4 DEF Update
  <2>2. ShowsTrue(it, tyDisk)
    BY <1>1, <2>1 DEF ProcessTrue, Showing
  <2>3. new \in TrayRecords /\ new.phase \in Showing /\ it.phase \in Showing
    BY <1>1, <2>1 DEF TrayRecords, Showing
  <2>4. ShowsTrue(new, tyDisk)
    BY <1>1, <2>1, <2>2 DEF ShowsTrue, TrayRecords, Queued
  <2> HIDE DEF new
  <2> QED
    BY <2>1, <2>3, <2>4, ShownChanges
<1>5. CASE OpenMenu(process)
  <2> DEFINE new == [it EXCEPT !.marks = tyDisk, !.behind = FALSE]
  <2>1. it.phase \in Showing /\ tyProc' = [tyProc EXCEPT ![process] = new] /\ UNCHANGED <<tyLock, tyDisk>>
        /\ it.callback = "free"
    BY <1>5, ProcessIs DEF OpenMenu
  <2>2. ShowsTrue(it, tyDisk)
    BY <1>1, <2>1 DEF ProcessTrue
  <2>3. new \in TrayRecords /\ new.phase \in Showing
    BY <1>1, <2>1 DEF TrayRecords
  <2>4. ShowsTrue(new, tyDisk)
    BY <1>1, <2>1, <2>2 DEF ShowsTrue, TrayRecords, Queued
  <2> HIDE DEF new
  <2> QED
    BY <2>1, <2>3, <2>4, ShownChanges
<1> QED
  BY <1>2, <1>3, <1>4, <1>5, EndKeeps

LEMMA ChooseKeeps ==
    ASSUME TrayInv, NEW process \in TrayProcesses, NEW entry \in Entries, Choose(process, entry)
    PROVE  TrayInv'
<1> DEFINE it == tyProc[process]
           args == IF entry \in Captures THEN tyDisk ELSE 0
           worker == [entry |-> entry, args |-> args, saved |-> args, stage |-> "route"]
           marks == IF entry = "restart" THEN it.marks ELSE tyDisk
           behind == IF entry = "restart" THEN it.behind ELSE FALSE
           new == [it EXCEPT !.workers = @ \union {worker}, !.marks = marks, !.behind = behind]
<1>1. it \in TrayRecords /\ ShowsTrue(it, tyDisk) /\ tyDisk \in Bits /\ it.phase \in Showing
  BY ProcessIs DEF Choose, Clicks, ProcessTrue
<1>2. worker = [entry |-> entry, args |-> ArgsOf(process, entry),
                saved |-> IF entry \in Captures THEN tyDisk ELSE 0, stage |-> "route"]
  BY DEF ArgsOf
<1>3. args \in Bits
  BY <1>1 DEF Bits
<1>4. worker \in WorkersOf /\ worker.args = worker.saved
  BY <1>3 DEF WorkersOf
<1>5. UNCHANGED <<tyLock, tyDisk>>
      /\ tyProc' = [tyProc EXCEPT ![process] =
            IF entry = "restart" THEN [it EXCEPT !.workers = it.workers \union {worker}]
            ELSE [it EXCEPT !.workers = it.workers \union {worker}, !.marks = tyDisk, !.behind = FALSE]]
  BY <1>2 DEF Choose
<1> HIDE DEF worker, args
<1>6. tyProc' = [tyProc EXCEPT ![process] = new]
  <2>1. CASE entry = "restart"
    <3>1. [it EXCEPT !.workers = it.workers \union {worker}] = new
      BY <1>1, <2>1 DEF TrayRecords
    <3> QED
      BY <1>5, <2>1, <3>1
  <2>2. CASE entry # "restart"
    BY <1>5, <2>2
  <2> QED
    BY <2>1, <2>2
<1>7. marks \in Bits /\ behind \in BOOLEAN /\ (~behind /\ it.callback = "free" => marks = tyDisk)
      /\ (~behind /\ it.callback = "saved" /\ entry = "restart" => it.wrote = tyDisk) /\ it.callback = "free"
  BY <1>1 DEF TrayRecords, ShowsTrue, Choose, Clicks
<1> HIDE DEF marks, behind
<1>8. /\ new \in TrayRecords /\ new.phase \in Showing /\ new.callback = "free" /\ new.marks = marks
      /\ new.behind = behind /\ new.unseen = it.unseen /\ new.phase = it.phase /\ new.queue = it.queue
      /\ new.quit = it.quit /\ new.workers = it.workers \union {worker}
  BY <1>1, <1>4, <1>7 DEF TrayRecords
<1> HIDE DEF new
<1>9. ShowsTrue(new, tyDisk)
  BY <1>1, <1>4, <1>7, <1>8 DEF ShowsTrue, Queued
<1> QED
  BY <1>1, <1>5, <1>6, <1>8, <1>9, ShownChanges

LEMMA ToggleShowsKeeps ==
    ASSUME TrayInv, NEW process \in TrayProcesses, ToggleShows(process) PROVE TrayInv'
<1> DEFINE it == tyProc[process]
           marks == MarksAfter(process)
           behind == it.behind /\ it.callback = "saved"
           new == [it EXCEPT !.callback = "free", !.wrote = 0, !.marks = marks, !.behind = behind]
<1>1. it \in TrayRecords /\ tyDisk \in Bits /\ it.callback # "free" /\ ProcessTrue(it, tyDisk)
  BY ProcessIs DEF ToggleShows
<1>2. it.phase \in Showing /\ ShowsTrue(it, tyDisk)
  BY <1>1 DEF ProcessTrue, Quiet
<1>3. UNCHANGED <<tyLock, tyDisk>> /\ tyProc' = [tyProc EXCEPT ![process] = new]
  BY DEF ToggleShows
<1>4. marks \in Bits /\ behind \in BOOLEAN /\ (~behind => marks = tyDisk)
  BY <1>1, <1>2 DEF MarksAfter, TrayRecords, ShowsTrue
<1> HIDE DEF marks, behind
<1>5. /\ new \in TrayRecords /\ new.phase \in Showing /\ new.callback = "free" /\ new.marks = marks
      /\ new.behind = behind /\ new.unseen = it.unseen /\ new.phase = it.phase /\ new.queue = it.queue
      /\ new.quit = it.quit /\ new.workers = it.workers
  BY <1>1, <1>2, <1>4 DEF TrayRecords, Bits
<1> HIDE DEF new
<1>6. ShowsTrue(new, tyDisk)
  BY <1>2, <1>4, <1>5 DEF ShowsTrue, Queued
<1> QED
  BY <1>2, <1>3, <1>5, <1>6, ShownChanges

LEMMA ChooseQuitKeeps ==
    ASSUME TrayInv, NEW process \in TrayProcesses, ChooseQuit(process) PROVE TrayInv'
<1> DEFINE it == tyProc[process]
           queue == Append(it.queue, "quit")
           new == [it EXCEPT !.queue = queue, !.quit = TRUE]
<1>1. it \in TrayRecords /\ tyDisk \in Bits /\ it.phase \in Showing /\ ShowsTrue(it, tyDisk)
  BY ProcessIs DEF ChooseQuit, Clicks, ProcessTrue
<1>2. UNCHANGED <<tyLock, tyDisk>> /\ tyProc' = [tyProc EXCEPT ![process] = new]
  BY DEF ChooseQuit
<1>3. it.queue \in Seq({"quit", "refresh"})
  BY <1>1 DEF TrayRecords
<1>4. /\ queue \in Seq({"quit", "refresh"})
      /\ \A i \in DOMAIN it.queue : i \in DOMAIN queue /\ queue[i] = it.queue[i]
      /\ \E i \in DOMAIN queue : queue[i] = "quit"
  BY <1>3, QueueGrows
<1> HIDE DEF queue
<1>5. /\ new \in TrayRecords /\ new.phase \in Showing /\ new.callback = it.callback /\ new.marks = it.marks
      /\ new.behind = it.behind /\ new.unseen = it.unseen /\ new.phase = it.phase /\ new.queue = queue
      /\ new.workers = it.workers /\ new.wrote = it.wrote
  BY <1>1, <1>4 DEF TrayRecords
<1> HIDE DEF new
<1>6. Queued(new, "quit") /\ (Queued(it, "refresh") => Queued(new, "refresh"))
  BY <1>4, <1>5 DEF Queued
<1>7. ShowsTrue(new, tyDisk)
  BY <1>1, <1>5, <1>6 DEF ShowsTrue
<1> QED
  BY <1>1, <1>2, <1>5, <1>7, ShownChanges

LEMMA WorkersKeep ==
    ASSUME TrayInv, NEW process \in TrayProcesses, NEW worker \in tyProc[process].workers,
           RouteWorker(process, worker) \/ ReportWorker(process, worker)
    PROVE  TrayInv'
<1> DEFINE it == tyProc[process]
<1>1. it \in TrayRecords /\ tyDisk \in Bits /\ it.phase \in Showing /\ ShowsTrue(it, tyDisk)
  BY ProcessIs DEF ProcessTrue, Quiet
<1>2. worker \in WorkersOf /\ worker.args = worker.saved /\ it.queue \in Seq({"quit", "refresh"})
      /\ it.workers \subseteq WorkersOf
  BY <1>1 DEF TrayRecords, ShowsTrue
<1>3. CASE RouteWorker(process, worker)
  <2> DEFINE after == [worker EXCEPT !.stage = "report"]
             workers == (it.workers \ {worker}) \union {after}
             new == [it EXCEPT !.workers = workers, !.unseen = TRUE]
  <2>1. UNCHANGED <<tyLock, tyDisk>> /\ tyProc' = [tyProc EXCEPT ![process] = new]
    BY <1>3 DEF RouteWorker
  <2>2. after \in WorkersOf /\ after.args = after.saved /\ after.stage = "report"
    BY <1>2 DEF WorkersOf
  <2> HIDE DEF after
  <2>3. workers \subseteq WorkersOf /\ after \in workers /\ \A other \in workers : other \in it.workers \/ other = after
    BY <1>2, <2>2
  <2> HIDE DEF workers
  <2>4. /\ new \in TrayRecords /\ new.phase \in Showing /\ new.callback = it.callback /\ new.marks = it.marks
        /\ new.behind = it.behind /\ new.phase = it.phase /\ new.queue = it.queue
        /\ new.workers = workers /\ new.wrote = it.wrote /\ new.quit = it.quit
    BY <1>1, <2>3 DEF TrayRecords
  <2> HIDE DEF new
  <2>5. ShowsTrue(new, tyDisk)
    BY <1>1, <2>2, <2>3, <2>4 DEF ShowsTrue, Queued
  <2> QED
    BY <1>1, <2>1, <2>4, <2>5, ShownChanges
<1>4. CASE ReportWorker(process, worker)
  <2> DEFINE queue == Append(it.queue, "refresh")
             workers == it.workers \ {worker}
             new == [it EXCEPT !.workers = workers, !.queue = queue]
  <2>1. UNCHANGED <<tyLock, tyDisk>> /\ tyProc' = [tyProc EXCEPT ![process] = new]
    BY <1>4 DEF ReportWorker
  <2>2. /\ queue \in Seq({"quit", "refresh"})
        /\ \A i \in DOMAIN it.queue : i \in DOMAIN queue /\ queue[i] = it.queue[i]
        /\ \E i \in DOMAIN queue : queue[i] = "refresh"
    BY <1>2, QueueGrows
  <2> HIDE DEF queue
  <2>3. workers \subseteq WorkersOf /\ workers \subseteq it.workers
    BY <1>2
  <2> HIDE DEF workers
  <2>4. /\ new \in TrayRecords /\ new.phase \in Showing /\ new.callback = it.callback /\ new.marks = it.marks
        /\ new.behind = it.behind /\ new.phase = it.phase /\ new.queue = queue
        /\ new.workers = workers /\ new.wrote = it.wrote /\ new.quit = it.quit
    BY <1>1, <2>2, <2>3 DEF TrayRecords
  <2> HIDE DEF new
  <2>5. Queued(new, "refresh") /\ (Queued(it, "quit") => Queued(new, "quit"))
    BY <2>2, <2>4 DEF Queued
  <2>6. ShowsTrue(new, tyDisk)
    BY <1>1, <2>3, <2>4, <2>5 DEF ShowsTrue
  <2> QED
    BY <1>1, <2>1, <2>4, <2>6, ShownChanges
<1> QED
  BY <1>3, <1>4

(* Somebody saves.  Those who show the icon are behind then, except who    *)
(* saved, which knows what it wrote.                                       *)
LEMMA SavedIs ==
    ASSUME TrayInv, NEW saver \in TrayProcesses \union {NoTray}, NEW process \in TrayProcesses
    PROVE  /\ SavedBy(saver)[process] \in TrayRecords
           /\ SavedBy(saver)[process] = [tyProc[process] EXCEPT !.behind = Shows(process) /\ process # saver]
           /\ SavedBy(saver)[process].phase = tyProc[process].phase
           /\ process # saver => \A disk \in Bits : ProcessTrue(SavedBy(saver)[process], disk)
<1> DEFINE it == tyProc[process]
           behind == Shows(process) /\ process # saver
           new == [it EXCEPT !.behind = behind]
<1>1. it \in TrayRecords /\ ProcessTrue(it, tyDisk) /\ (Shows(process) <=> it.phase \in Showing)
  BY ProcessIs
<1>2. SavedBy(saver)[process] = new
  BY DEF SavedBy
<1>3. new = [tyProc[process] EXCEPT !.behind = Shows(process) /\ process # saver]
  OBVIOUS
<1>4. behind \in BOOLEAN /\ (process # saver => (behind <=> it.phase \in Showing))
  BY <1>1
<1> HIDE DEF behind
<1>5. /\ new \in TrayRecords /\ new.callback = it.callback /\ new.behind = behind /\ new.phase = it.phase
      /\ new.queue = it.queue /\ new.workers = it.workers /\ new.quit = it.quit /\ new.unseen = it.unseen
  BY <1>1, <1>4 DEF TrayRecords
<1> HIDE DEF new
<1>6. ASSUME process # saver, NEW disk \in Bits PROVE ProcessTrue(new, disk)
  BY <1>1, <1>4, <1>5, <1>6 DEF ProcessTrue, ShowsTrue, Quiet, Queued
<1> QED
  BY <1>1, <1>2, <1>5, <1>6, <1>3

(* After a save by another, or by one of the processes.                    *)
LEMMA SaveKeeps ==
    ASSUME TrayInv, NEW saver \in TrayProcesses \union {NoTray}, tyLock' = tyLock, tyDisk' \in Bits,
           tyProc' \in [TrayProcesses -> TrayRecords],
           \A process \in TrayProcesses :
             /\ tyProc'[process].phase = tyProc[process].phase
             /\ \/ tyProc'[process] = SavedBy(saver)[process] /\ process # saver
                \/ ProcessTrue(tyProc'[process], tyDisk')
    PROVE  TrayInv'
<1>1. TrayTyped'
  BY DEF TrayInv, TrayTyped
<1>2. ASSUME NEW process \in TrayProcesses
      PROVE  /\ tyProc'[process].phase \in {"register"} \union Showing => tyLock' = process
             /\ ProcessTrue(tyProc'[process], tyDisk')
  <2>1. tyProc'[process].phase \in {"register"} \union Showing => tyLock' = process
    BY ProcessIs
  <2>2. ProcessTrue(tyProc'[process], tyDisk')
    BY SavedIs
  <2> QED
    BY <2>1, <2>2
<1> QED
  BY <1>1, <1>2 DEF TrayInv

LEMMA PanelSavesKeeps == ASSUME TrayInv, PanelSaves PROVE TrayInv'
<1>1. tyProc' = SavedBy(NoTray) /\ tyLock' = tyLock /\ tyDisk' = 1 - tyDisk
  BY DEF PanelSaves
<1>2. tyDisk' \in Bits
  BY <1>1 DEF TrayInv, TrayTyped, Bits
<1>3. tyProc' \in [TrayProcesses -> TrayRecords]
  <2>1. \A process \in TrayProcesses : SavedBy(NoTray)[process] \in TrayRecords
    BY SavedIs
  <2> QED
    BY <1>1, <2>1 DEF SavedBy
<1>4. \A process \in TrayProcesses : process # NoTray /\ SavedBy(NoTray)[process].phase = tyProc[process].phase
  BY ZenonT(60), SavedIs, ProcessIs
<1> QED
  BY <1>1, <1>2, <1>3, <1>4, SaveKeeps

LEMMA ToggleKeeps ==
    ASSUME TrayInv, NEW process \in TrayProcesses, ToggleSaved(process) \/ ToggleFailed(process)
    PROVE  TrayInv'
<1> DEFINE it == tyProc[process]
<1>1. it \in TrayRecords /\ it.phase \in Showing /\ ShowsTrue(it, tyDisk) /\ tyDisk \in Bits /\ tyLock' = tyLock
      /\ process # NoTray
  BY ProcessIs DEF ToggleSaved, ToggleFailed, Clicks, ProcessTrue
<1>2. CASE ToggleFailed(process) /\ tyDisk' = tyDisk
  <2> DEFINE new == [it EXCEPT !.callback = "failed"]
  <2>1. tyProc' = [tyProc EXCEPT ![process] = new]
    BY <1>2 DEF ToggleFailed
  <2>2. /\ new \in TrayRecords /\ new.phase \in Showing /\ new.callback = "failed"
        /\ new.behind = it.behind /\ new.phase = it.phase /\ new.queue = it.queue
        /\ new.workers = it.workers /\ new.quit = it.quit /\ new.unseen = it.unseen
    BY <1>1 DEF TrayRecords
  <2> HIDE DEF new
  <2>3. ShowsTrue(new, tyDisk)
    BY <1>1, <2>2 DEF ShowsTrue, Queued
  <2> QED
    BY <1>1, <1>2, <2>1, <2>2, <2>3, ShownChanges
<1>3. ASSUME NEW saver \in {process, NoTray}, NEW new,
             tyProc' = [SavedBy(saver) EXCEPT ![process] = new], tyDisk' \in Bits,
             new \in TrayRecords, new.phase = it.phase, ShowsTrue(new, tyDisk')
      PROVE  TrayInv'
  <2>1. \A other \in TrayProcesses : SavedBy(saver)[other] \in TrayRecords
                                     /\ SavedBy(saver)[other].phase = tyProc[other].phase
    BY ZenonT(60), SavedIs
  <2>2. SavedBy(saver) \in [TrayProcesses -> TrayRecords]
    BY <2>1 DEF SavedBy
  <2>3. tyProc' \in [TrayProcesses -> TrayRecords]
    BY <1>3, <2>2
  <2>4. \A other \in TrayProcesses : other # process => tyProc'[other] = SavedBy(saver)[other]
    BY <1>3, <2>2
  <2>5. tyProc'[process] = new /\ ProcessTrue(new, tyDisk')
    BY <1>1, <1>3, <2>2 DEF ProcessTrue
  <2>6. \A other \in TrayProcesses : other # process => other # saver
    BY <1>3, ProcessIs
  <2> HIDE DEF it
  <2> QED
    BY <1>1, <1>3, <2>1, <2>3, <2>4, <2>5, <2>6, SaveKeeps DEF it
<1>4. CASE ToggleSaved(process)
  <2> DEFINE was == SavedBy(process)[process]
             new == [was EXCEPT !.callback = "saved", !.wrote = tyDisk']
  <2>1. tyProc' = [SavedBy(process) EXCEPT ![process] = new] /\ tyDisk' = 1 - tyDisk
    BY <1>4 DEF ToggleSaved
  <2>2. was \in TrayRecords /\ was = [it EXCEPT !.behind = Shows(process) /\ process # process]
    BY SavedIs
  <2>3. /\ was.phase = it.phase /\ was.queue = it.queue /\ was.workers = it.workers /\ was.quit = it.quit
        /\ was.unseen = it.unseen
    BY <1>1, <2>2 DEF TrayRecords
  <2> HIDE DEF was
  <2>4. tyDisk' \in Bits
    BY <1>1, <2>1 DEF Bits
  <2>5. /\ new \in TrayRecords /\ new.callback = "saved" /\ new.wrote = tyDisk' /\ new.phase = it.phase
        /\ new.queue = it.queue /\ new.workers = it.workers /\ new.quit = it.quit /\ new.unseen = it.unseen
    BY <2>2, <2>3, <2>4 DEF TrayRecords
  <2> HIDE DEF new
  <2>6. ShowsTrue(new, tyDisk')
    BY <1>1, <2>5 DEF ShowsTrue, Queued
  <2> QED
    BY <1>3, <2>1, <2>4, <2>5, <2>6
<1>5. CASE ToggleFailed(process) /\ tyDisk' # tyDisk
  <2> DEFINE was == SavedBy(NoTray)[process]
             new == [was EXCEPT !.callback = "failed"]
  <2>1. tyProc' = [SavedBy(NoTray) EXCEPT ![process] = [@ EXCEPT !.callback = "failed"]] /\ tyDisk' \in Bits
    BY <1>5 DEF ToggleFailed, Bits
  <2>2. was \in TrayRecords /\ was = [it EXCEPT !.behind = Shows(process) /\ process # NoTray]
    BY SavedIs
  <2>3. /\ was.phase = it.phase /\ was.queue = it.queue /\ was.workers = it.workers /\ was.quit = it.quit
        /\ was.unseen = it.unseen
    BY <1>1, <2>2 DEF TrayRecords
  <2>4. tyProc' = [SavedBy(NoTray) EXCEPT ![process] = new]
    BY <2>1
  <2> HIDE DEF was
  <2>5. /\ new \in TrayRecords /\ new.callback = "failed" /\ new.phase = it.phase
        /\ new.queue = it.queue /\ new.workers = it.workers /\ new.quit = it.quit /\ new.unseen = it.unseen
    BY <2>2, <2>3 DEF TrayRecords
  <2> HIDE DEF new
  <2>6. ShowsTrue(new, tyDisk')
    BY <1>1, <2>5 DEF ShowsTrue, Queued
  <2> QED
    BY <1>3, <2>1, <2>4, <2>5, <2>6
<1> QED
  BY <1>2, <1>4, <1>5

LEMMA TrayInitInv == TrayInit => TrayInv
BY NoProcessIs DEF TrayInit, TrayInv, TrayTyped, ProcessTrue, Bits, Showing

LEMMA TrayNextInv == TrayInv /\ [TrayNext]_tyVars => TrayInv'
<1> SUFFICES ASSUME TrayInv, [TrayNext]_tyVars PROVE TrayInv'
  OBVIOUS
<1>1. CASE UNCHANGED tyVars \/ ServiceMoves
  BY <1>1 DEF TrayInv, TrayTyped, tyVars, ServiceMoves
<1>2. CASE PanelSaves
  BY <1>2, PanelSavesKeeps
<1>3. ASSUME NEW process \in TrayProcesses,
             Launch(process) \/ Acquire(process) \/ Crash(process) \/ RegisterIcon(process) \/ RegisterFails(process)
      PROVE  TrayInv'
  BY <1>3, StartingKeeps, RegisterIconKeeps
<1>4. ASSUME NEW process \in TrayProcesses,
             Turn(process) \/ AskStatus(process) \/ Update(process) \/ OpenMenu(process) \/ ToggleSaved(process)
               \/ ToggleFailed(process) \/ ToggleShows(process) \/ ChooseQuit(process)
      PROVE  TrayInv'
  BY <1>4, LoopKeeps, ToggleKeeps, ToggleShowsKeeps, ChooseQuitKeeps
<1>5. ASSUME NEW process \in TrayProcesses,
             (\E entry \in Entries : Choose(process, entry))
               \/ \E worker \in tyProc[process].workers : RouteWorker(process, worker) \/ ReportWorker(process, worker)
      PROVE  TrayInv'
  BY <1>5, ChooseKeeps, WorkersKeep
<1> QED
  BY <1>1, <1>2, <1>3, <1>4, <1>5 DEF TrayNext

(* The bounds of the tray.                                                 *)
(* What is queued or at work in a process was chosen, but for the worker   *)
(* that starts the service.                                                *)
Fits(it, clicks) ==
    /\ it.tries \in 0 .. WatcherAttempts - 1
    /\ IsFiniteSet(it.workers)
    /\ IF it.phase \in Showing THEN Len(it.queue) + Cardinality(it.workers) <= clicks + 1 ELSE it.queue = <<>>

TrayBounded ==
    /\ tyService \in Statuses /\ tyClicks \in 0 .. MaxClicks
    /\ \A process \in TrayProcesses : Fits(tyProc[process], tyClicks)

SameFit(one, two) ==
    one.phase = two.phase /\ one.tries = two.tries /\ one.queue = two.queue /\ one.workers = two.workers

LEMMA FitFields ==
    ASSUME TrayInv, TrayBounded, NEW process \in TrayProcesses
    PROVE  LET it == tyProc[process] IN
           /\ it \in TrayRecords /\ Fits(it, tyClicks) /\ it.queue \in Seq({"quit", "refresh"}) /\ Len(it.queue) \in Nat
           /\ it.tries \in Nat /\ IsFiniteSet(it.workers) /\ Cardinality(it.workers) \in Nat
           /\ it.phase \notin Showing => it.workers = {} /\ it.queue = <<>>
           /\ tyClicks \in Nat
<1>1. tyProc[process] \in TrayRecords /\ ProcessTrue(tyProc[process], tyDisk) /\ Fits(tyProc[process], tyClicks)
  BY ProcessIs DEF TrayBounded
<1>2. tyProc[process].queue \in Seq({"quit", "refresh"}) /\ tyProc[process].tries \in Nat
  BY <1>1 DEF TrayRecords
<1>3. IsFiniteSet(tyProc[process].workers)
  BY <1>1 DEF Fits
<1>4. Cardinality(tyProc[process].workers) \in Nat
  BY <1>3, FS_CardinalityType
<1>5. tyProc[process].phase \notin Showing => tyProc[process].workers = {} /\ tyProc[process].queue = <<>>
  BY <1>1 DEF Fits, ProcessTrue, Quiet
<1>6. Len(tyProc[process].queue) \in Nat /\ tyClicks \in Nat
  BY <1>2, TrayAssumption DEF TrayBounded
<1> QED
  BY <1>1, <1>2, <1>3, <1>4, <1>5, <1>6

LEMMA FitGrows ==
    ASSUME TrayInv, TrayBounded, NEW process \in TrayProcesses, NEW new, SameFit(new, tyProc[process]),
           NEW clicks \in Nat, tyClicks <= clicks
    PROVE  Fits(new, clicks)
  BY FitFields DEF Fits, SameFit

LEMMA OneFits ==
    ASSUME TrayInv, TrayBounded, NEW process \in TrayProcesses,
           \A other \in TrayProcesses \ {process} : SameFit(tyProc'[other], tyProc[other]),
           tyClicks' \in 0 .. MaxClicks, tyClicks <= tyClicks', tyService' \in Statuses,
           Fits(tyProc'[process], tyClicks')
    PROVE  TrayBounded'
<1>1. \A other \in TrayProcesses : Fits(tyProc'[other], tyClicks')
  <2> TAKE other \in TrayProcesses
  <2>1. CASE other = process
    BY <2>1
  <2>2. CASE other # process
    <3>1. tyClicks' \in Nat
      BY TrayAssumption
    <3> QED
      BY <2>2, <3>1, FitGrows
  <2> QED
    BY <2>1, <2>2
<1> QED
  BY <1>1 DEF TrayBounded

(* A step of one process that changes nothing of the service.              *)
LEMMA RecordFits ==
    ASSUME TrayInv, TrayBounded, NEW process \in TrayProcesses, NEW new,
           tyProc' = [tyProc EXCEPT ![process] = new],
           tyClicks' \in 0 .. MaxClicks, tyClicks <= tyClicks', tyService' \in Statuses, Fits(new, tyClicks')
    PROVE  TrayBounded'
<1>1. tyProc \in [TrayProcesses -> TrayRecords]
  BY DEF TrayInv, TrayTyped
<1>2. \A other \in TrayProcesses \ {process} : SameFit(tyProc'[other], tyProc[other])
  BY <1>1 DEF SameFit
<1>3. tyProc'[process] = new
  BY <1>1
<1> QED
  BY <1>2, <1>3, OneFits

LEMMA NoProcessFits == ASSUME NEW clicks PROVE Fits(NoProcess, clicks)
<1>1. NoProcess.workers = {} /\ NoProcess.queue = <<>> /\ NoProcess.tries = 0 /\ NoProcess.phase = "off"
  BY DEF NoProcess
<1>2. 0 \in 0 .. WatcherAttempts - 1
  BY TrayAssumption
<1> QED
  BY <1>1, <1>2, FS_EmptySet DEF Fits, Showing

LEMMA TrayRest == ASSUME TrayBounded, UNCHANGED <<tyService, tyClicks>>
                  PROVE  tyClicks' \in 0 .. MaxClicks /\ tyClicks <= tyClicks' /\ tyService' \in Statuses
<1>1. tyClicks \in 0 .. MaxClicks /\ tyClicks \in Nat /\ tyService \in Statuses
  BY TrayAssumption DEF TrayBounded
<1> QED
  BY <1>1

LEMMA EndFits ==
    ASSUME TrayInv, TrayBounded, NEW process \in TrayProcesses, End(process) PROVE TrayBounded'
<1>1. tyProc' = [tyProc EXCEPT ![process] = NoProcess] /\ tyClicks' = tyClicks /\ tyService' = tyService
  BY DEF End
<1>2. Fits(NoProcess, tyClicks')
  BY NoProcessFits
<1>3. tyClicks' \in 0 .. MaxClicks /\ tyClicks <= tyClicks' /\ tyService' \in Statuses
  BY <1>1, TrayRest
<1> QED
  BY <1>1, <1>2, <1>3, RecordFits

(* The steps that leave queue and workers of a process, and whether it     *)
(* shows the icon.                                                         *)
LEMMA QuietFits ==
    ASSUME TrayInv, TrayBounded, NEW process \in TrayProcesses, NEW new,
           tyProc' = [tyProc EXCEPT ![process] = new],
           new.queue = tyProc[process].queue, new.workers = tyProc[process].workers,
           new.tries \in 0 .. WatcherAttempts - 1, new.phase \in Showing <=> tyProc[process].phase \in Showing,
           tyClicks' \in 0 .. MaxClicks, tyClicks <= tyClicks', tyService' \in Statuses
    PROVE  TrayBounded'
<1>1. Fits(new, tyClicks')
  <2>1. tyClicks' \in Nat /\ tyClicks \in Nat
    BY TrayAssumption DEF TrayBounded
  <2>2. PICK it : it = tyProc[process]
    OBVIOUS
  <2>3. Fits(it, tyClicks) /\ Len(it.queue) \in Nat /\ Cardinality(it.workers) \in Nat
    BY <2>2, FitFields
  <2>4. CASE it.phase \in Showing
    <3>1. new.phase \in Showing /\ Len(it.queue) + Cardinality(it.workers) <= tyClicks' + 1
      BY <2>1, <2>2, <2>3, <2>4 DEF Fits
    <3> QED
      BY <2>2, <2>3, <3>1 DEF Fits
  <2>5. CASE it.phase \notin Showing
    <3>1. new.phase \notin Showing
      BY <2>2, <2>5
    <3> QED
      BY <2>2, <2>3, <2>5, <3>1 DEF Fits
  <2> QED
    BY <2>4, <2>5
<1> QED
  BY <1>1, RecordFits

LEMMA StartingFits ==
    ASSUME TrayInv, TrayBounded, NEW process \in TrayProcesses,
           Launch(process) \/ Acquire(process) \/ RegisterFails(process) \/ Crash(process)
    PROVE  TrayBounded'
<1> DEFINE it == tyProc[process]
<1>1. it \in TrayRecords /\ it.tries \in 0 .. WatcherAttempts - 1 /\ WatcherAttempts \in Nat
  BY ProcessIs, TrayAssumption DEF TrayBounded, Fits
<1>2. CASE Launch(process)
  <2>1. it.phase = "off" /\ tyProc' = [tyProc EXCEPT ![process] = [it EXCEPT !.phase = "lock"]]
        /\ UNCHANGED <<tyService, tyClicks>>
    BY <1>2 DEF Launch
  <2>2. PICK new : new = [it EXCEPT !.phase = "lock"]
    OBVIOUS
  <2>3. new.queue = it.queue /\ new.workers = it.workers /\ new.tries = it.tries /\ new.phase = "lock"
    BY <1>1, <2>2 DEF TrayRecords
  <2>4. tyProc' = [tyProc EXCEPT ![process] = new] /\ (new.phase \in Showing <=> it.phase \in Showing)
    BY <2>1, <2>2, <2>3 DEF Showing
  <2> QED
    BY <1>1, <2>1, <2>3, <2>4, TrayRest, QuietFits
<1>3. CASE Acquire(process) /\ tyProc' = [tyProc EXCEPT ![process] = NoProcess]
  <2>1. UNCHANGED <<tyService, tyClicks>>
    BY <1>3 DEF Acquire
  <2> QED
    BY <1>3, <2>1, TrayRest, NoProcessFits, RecordFits
<1>4. CASE Acquire(process) /\ tyLock = NoTray
  <2>1. it.phase = "lock" /\ tyProc' = [tyProc EXCEPT ![process] = [it EXCEPT !.phase = "register"]]
        /\ UNCHANGED <<tyService, tyClicks>>
    BY <1>4 DEF Acquire
  <2>2. PICK new : new = [it EXCEPT !.phase = "register"]
    OBVIOUS
  <2>3. new.queue = it.queue /\ new.workers = it.workers /\ new.tries = it.tries /\ new.phase = "register"
    BY <1>1, <2>2 DEF TrayRecords
  <2>4. tyProc' = [tyProc EXCEPT ![process] = new] /\ (new.phase \in Showing <=> it.phase \in Showing)
    BY <2>1, <2>2, <2>3 DEF Showing
  <2> QED
    BY <1>1, <2>1, <2>3, <2>4, TrayRest, QuietFits
<1>5. CASE RegisterFails(process) /\ ~End(process)
  <2>1. it.phase = "register" /\ ~LastTry(it.tries) /\ UNCHANGED <<tyService, tyClicks>>
        /\ tyProc' = [tyProc EXCEPT ![process] = [it EXCEPT !.tries = @ + 1]]
    BY <1>5 DEF RegisterFails
  <2>2. PICK new : new = [it EXCEPT !.tries = @ + 1]
    OBVIOUS
  <2>3. new.queue = it.queue /\ new.workers = it.workers /\ new.tries = it.tries + 1 /\ new.phase = it.phase
    BY <1>1, <2>2 DEF TrayRecords
  <2>4. new.tries \in 0 .. WatcherAttempts - 1
    BY <1>1, <2>1, <2>3 DEF LastTry
  <2> QED
    BY <2>1, <2>2, <2>3, <2>4, TrayRest, QuietFits
<1> QED
  BY <1>2, <1>3, <1>4, <1>5, EndFits DEF Crash, Acquire

LEMMA RegisterIconFits ==
    ASSUME TrayInv, TrayBounded, NEW process \in TrayProcesses, RegisterIcon(process) PROVE TrayBounded'
<1> DEFINE it == tyProc[process]
           ensure == [entry |-> "ensure", args |-> 0, saved |-> 0, stage |-> "route"]
<1>1. PICK new : new = [it EXCEPT !.phase = "top", !.marks = tyDisk, !.behind = FALSE, !.workers = {ensure}]
  OBVIOUS
<1>2. /\ it \in TrayRecords /\ it.phase = "register" /\ UNCHANGED <<tyService, tyClicks>>
      /\ tyProc' = [tyProc EXCEPT ![process] = new]
  BY <1>1, ProcessIs DEF RegisterIcon
<1> HIDE DEF ensure
<1>3. new.queue = it.queue /\ new.workers = {ensure} /\ new.tries = it.tries /\ new.phase = "top"
  BY <1>1, <1>2 DEF TrayRecords
<1>4. it.queue = <<>> /\ Len(it.queue) = 0 /\ it.tries \in 0 .. WatcherAttempts - 1 /\ tyClicks \in Nat
  BY <1>2, FitFields DEF Showing, Fits
<1>5. IsFiniteSet({ensure}) /\ Cardinality({ensure}) = 1
  BY FS_Singleton
<1>6. Fits(new, tyClicks')
  BY <1>2, <1>3, <1>4, <1>5 DEF Fits, Showing
<1> QED
  BY <1>2, <1>6, TrayRest, RecordFits

LEMMA OneJoins ==
    ASSUME NEW S, IsFiniteSet(S), NEW x
    PROVE  /\ IsFiniteSet(S \union {x}) /\ Cardinality(S \union {x}) \in Nat
           /\ Cardinality(S \union {x}) <= Cardinality(S) + 1
<1>1. IsFiniteSet(S \union {x}) /\ Cardinality(S) \in Nat
  BY FS_AddElement, FS_CardinalityType
<1>2. Cardinality(S \union {x}) = Cardinality(S) \/ Cardinality(S \union {x}) = Cardinality(S) + 1
  <2>1. CASE x \in S
    <3>1. S \union {x} = S
      BY <2>1
    <3> QED
      BY <3>1
  <2>2. CASE x \notin S
    BY <2>2, FS_AddElement
  <2> QED
    BY <2>1, <2>2
<1> QED
  BY <1>1, <1>2

LEMMA LoopFits ==
    ASSUME TrayInv, TrayBounded, NEW process \in TrayProcesses,
           Turn(process) \/ AskStatus(process) \/ Update(process) \/ OpenMenu(process) \/ ToggleShows(process)
    PROVE  TrayBounded'
<1>1. PICK it \in TrayRecords : it = tyProc[process] /\ it.tries \in 0 .. WatcherAttempts - 1
  BY FitFields DEF Fits
<1>2. CASE End(process)
  BY <1>2, EndFits
<1>3. UNCHANGED <<tyService, tyClicks>>
  BY DEF Turn, AskStatus, Update, OpenMenu, ToggleShows, End
<1>4. CASE Turn(process) /\ ~End(process)
  <2>1. PICK new : new = [it EXCEPT !.queue = <<>>, !.phase = "ask"]
    OBVIOUS
  <2>2. tyProc' = [tyProc EXCEPT ![process] = new] /\ it.phase = "top"
    BY <1>1, <1>4, <2>1 DEF Turn
  <2>3. new.queue = <<>> /\ new.workers = it.workers /\ new.tries = it.tries /\ new.phase = "ask"
    BY <2>1 DEF TrayRecords
  <2>4. /\ IsFiniteSet(it.workers) /\ Cardinality(it.workers) \in Nat /\ tyClicks \in Nat /\ Len(it.queue) \in Nat
        /\ Len(it.queue) + Cardinality(it.workers) <= tyClicks + 1
    BY <1>1, <2>2, FitFields DEF Fits, Showing
  <2>5. Fits(new, tyClicks')
    BY <1>1, <1>3, <2>3, <2>4 DEF Fits, Showing
  <2> QED
    BY <1>3, <2>2, <2>5, TrayRest, RecordFits
<1>5. CASE AskStatus(process) \/ (Update(process) /\ ~End(process)) \/ OpenMenu(process) \/ ToggleShows(process)
  <2>1. PICK new : /\ tyProc' = [tyProc EXCEPT ![process] = new]
                   /\ new.queue = it.queue /\ new.workers = it.workers /\ new.tries = it.tries
                   /\ it.phase \in Showing <=> new.phase \in Showing
    <3>1. CASE AskStatus(process)
      <4>1. PICK new : new = [it EXCEPT !.phase = "update", !.unseen = FALSE]
        OBVIOUS
      <4>2. it.phase \in Showing /\ new.phase \in Showing /\ tyProc' = [tyProc EXCEPT ![process] = new]
        BY <1>1, <3>1, <4>1 DEF AskStatus, TrayRecords, Showing
      <4> QED
        BY <4>1, <4>2 DEF TrayRecords
    <3>2. CASE Update(process) /\ ~End(process)
      <4>1. PICK new : new = [it EXCEPT !.phase = "top", !.marks = tyDisk, !.behind = FALSE]
        OBVIOUS
      <4>2. it.phase \in Showing /\ new.phase \in Showing /\ tyProc' = [tyProc EXCEPT ![process] = new]
        BY <1>1, <3>2, <4>1 DEF Update, TrayRecords, Showing
      <4>3. new.queue = it.queue /\ new.workers = it.workers /\ new.tries = it.tries
        BY <4>1 DEF TrayRecords
      <4> QED
        BY <4>2, <4>3
    <3>3. CASE OpenMenu(process)
      <4>1. PICK new : new = [it EXCEPT !.marks = tyDisk, !.behind = FALSE]
        OBVIOUS
      <4>2. tyProc' = [tyProc EXCEPT ![process] = new]
        BY <1>1, <3>3, <4>1 DEF OpenMenu
      <4>3. new.queue = it.queue /\ new.workers = it.workers /\ new.tries = it.tries /\ new.phase = it.phase
        BY <4>1 DEF TrayRecords
      <4> QED
        BY <4>2, <4>3
    <3>4. CASE ToggleShows(process)
      <4>1. PICK behind : behind = (it.behind /\ it.callback = "saved")
        OBVIOUS
      <4>2. PICK new : new = [it EXCEPT !.callback = "free", !.wrote = 0, !.marks = MarksAfter(process), !.behind = behind]
        OBVIOUS
      <4>3. tyProc' = [tyProc EXCEPT ![process] = new]
        BY <1>1, <3>4, <4>1, <4>2 DEF ToggleShows
      <4>4. new.queue = it.queue /\ new.workers = it.workers /\ new.tries = it.tries /\ new.phase = it.phase
        BY <4>2 DEF TrayRecords
      <4> QED
        BY <4>3, <4>4
    <3> QED
      BY <1>5, <3>1, <3>2, <3>3, <3>4
  <2> QED
    BY <1>1, <1>3, <2>1, TrayRest, QuietFits
<1> QED
  BY <1>2, <1>4, <1>5

LEMMA ClickCounted ==
    ASSUME TrayBounded, NEW process, Clicks(process)
    PROVE  /\ tyClicks' \in 0 .. MaxClicks /\ tyClicks <= tyClicks' /\ tyClicks' = tyClicks + 1
           /\ tyClicks \in Nat /\ Shows(process) /\ tyService \in Statuses
  BY TrayAssumption DEF TrayBounded, Clicks

LEMMA ChooseFits ==
    ASSUME TrayInv, TrayBounded, NEW process \in TrayProcesses, NEW entry \in Entries, Choose(process, entry)
    PROVE  TrayBounded'
<1>1. PICK it \in TrayRecords : it = tyProc[process] /\ Fits(it, tyClicks) /\ it.tries \in 0 .. WatcherAttempts - 1
  BY FitFields DEF Fits
<1>2. PICK worker : worker = [entry |-> entry, args |-> ArgsOf(process, entry),
                              saved |-> IF entry \in Captures THEN tyDisk ELSE 0, stage |-> "route"]
  OBVIOUS
<1>3. PICK busy : busy = it.workers \union {worker}
  OBVIOUS
<1>4. PICK new : new = IF entry = "restart" THEN [it EXCEPT !.workers = busy]
                       ELSE [it EXCEPT !.workers = busy, !.marks = tyDisk, !.behind = FALSE]
  OBVIOUS
<1>5. tyProc' = [tyProc EXCEPT ![process] = new] /\ tyService' = tyService
  BY <1>1, <1>2, <1>3, <1>4 DEF Choose
<1>6. new.queue = it.queue /\ new.workers = busy /\ new.tries = it.tries /\ new.phase = it.phase
  BY <1>4 DEF TrayRecords
<1>7. /\ tyClicks' \in 0 .. MaxClicks /\ tyClicks <= tyClicks' /\ tyClicks' = tyClicks + 1
      /\ tyClicks \in Nat /\ it.phase \in Showing /\ tyService' \in Statuses
  BY <1>1, <1>5, ClickCounted, ProcessIs DEF Choose
<1>8. IsFiniteSet(it.workers) /\ Cardinality(it.workers) \in Nat /\ Len(it.queue) \in Nat
      /\ Len(it.queue) + Cardinality(it.workers) <= tyClicks + 1
  BY <1>1, <1>7, FitFields DEF Fits
<1>9. IsFiniteSet(busy) /\ Cardinality(busy) \in Nat /\ Cardinality(busy) <= Cardinality(it.workers) + 1
  BY <1>3, <1>8, OneJoins
<1>10. Fits(new, tyClicks')
  BY <1>1, <1>6, <1>7, <1>8, <1>9 DEF Fits
<1> QED
  BY <1>5, <1>7, <1>10, RecordFits

LEMMA ChooseQuitFits ==
    ASSUME TrayInv, TrayBounded, NEW process \in TrayProcesses, ChooseQuit(process)
    PROVE  TrayBounded'
<1>1. PICK it \in TrayRecords : it = tyProc[process] /\ Fits(it, tyClicks) /\ it.tries \in 0 .. WatcherAttempts - 1
  BY FitFields DEF Fits
<1>2. PICK queue : queue = Append(it.queue, "quit")
  OBVIOUS
<1>3. PICK new : new = [it EXCEPT !.queue = queue, !.quit = TRUE]
  OBVIOUS
<1>4. tyProc' = [tyProc EXCEPT ![process] = new] /\ tyService' = tyService
  BY <1>1, <1>2, <1>3 DEF ChooseQuit
<1>5. new.queue = queue /\ new.workers = it.workers /\ new.tries = it.tries /\ new.phase = it.phase
  BY <1>3 DEF TrayRecords
<1>6. it.queue \in Seq({"quit", "refresh"}) /\ Len(it.queue) \in Nat
  BY <1>1, FitFields
<1>7. Len(queue) = Len(it.queue) + 1
  BY <1>2, <1>6
<1>8. /\ tyClicks' \in 0 .. MaxClicks /\ tyClicks <= tyClicks' /\ tyClicks' = tyClicks + 1
      /\ tyClicks \in Nat /\ it.phase \in Showing /\ tyService' \in Statuses
  BY <1>1, <1>4, ClickCounted, ProcessIs DEF ChooseQuit
<1>9. IsFiniteSet(it.workers) /\ Cardinality(it.workers) \in Nat
      /\ Len(it.queue) + Cardinality(it.workers) <= tyClicks + 1
  BY <1>1, <1>8, FitFields DEF Fits
<1>10. Fits(new, tyClicks')
  BY <1>1, <1>5, <1>6, <1>7, <1>8, <1>9 DEF Fits
<1> QED
  BY <1>4, <1>8, <1>10, RecordFits

LEMMA AnswersAreStatuses ==
    ASSUME tyService \in Statuses, NEW entry \in Entries \union {"ensure"}, NEW status \in Answers(entry)
    PROVE  status \in Statuses
  BY DEF Answers, Statuses, Captures, Entries

LEMMA WorkersFit ==
    ASSUME TrayInv, TrayBounded, NEW process \in TrayProcesses, NEW worker \in tyProc[process].workers,
           RouteWorker(process, worker) \/ ReportWorker(process, worker)
    PROVE  TrayBounded'
<1>1. PICK it \in TrayRecords : it = tyProc[process] /\ Fits(it, tyClicks) /\ it.tries \in 0 .. WatcherAttempts - 1
  BY FitFields DEF Fits
<1>2. /\ it.phase \in Showing /\ worker \in it.workers /\ it.queue \in Seq({"quit", "refresh"}) /\ Len(it.queue) \in Nat
      /\ IsFiniteSet(it.workers) /\ Cardinality(it.workers) \in Nat /\ tyClicks \in Nat
      /\ worker \in WorkersOf
  BY <1>1, FitFields DEF TrayRecords
<1>3. Len(it.queue) + Cardinality(it.workers) <= tyClicks + 1
  BY <1>1, <1>2 DEF Fits
<1>4. PICK left : left = it.workers \ {worker}
  OBVIOUS
<1>5. IsFiniteSet(left) /\ Cardinality(left) = Cardinality(it.workers) - 1
  BY <1>2, <1>4, FS_RemoveElement
<1>6. tyClicks' = tyClicks /\ tyClicks' \in 0 .. MaxClicks /\ tyClicks <= tyClicks' /\ tyService \in Statuses
  <2>1. tyClicks' = tyClicks
    BY DEF RouteWorker, ReportWorker
  <2> QED
    BY <1>2, <2>1 DEF TrayBounded
<1>7. CASE RouteWorker(process, worker)
  <2>1. PICK after : after = [worker EXCEPT !.stage = "report"]
    OBVIOUS
  <2>2. PICK workers : workers = left \union {after}
    OBVIOUS
  <2>3. PICK new : new = [it EXCEPT !.unseen = TRUE, !.workers = workers]
    OBVIOUS
  <2>4. tyProc' = [tyProc EXCEPT ![process] = new]
    BY <1>1, <1>4, <1>7, <2>1, <2>2, <2>3 DEF RouteWorker
  <2>5. new.queue = it.queue /\ new.workers = workers /\ new.tries = it.tries /\ new.phase = it.phase
    BY <2>3 DEF TrayRecords
  <2>6. IsFiniteSet(workers) /\ Cardinality(workers) \in Nat /\ Cardinality(workers) <= Cardinality(it.workers)
    <3>1. IsFiniteSet(workers) /\ Cardinality(workers) \in Nat /\ Cardinality(workers) <= Cardinality(left) + 1
      BY <1>5, <2>2, OneJoins
    <3> QED
      BY <1>2, <1>5, <3>1
  <2>7. Fits(new, tyClicks')
    BY <1>1, <1>2, <1>3, <1>6, <2>5, <2>6 DEF Fits
  <2>8. tyService' \in Statuses
    BY <1>2, <1>6, <1>7, AnswersAreStatuses DEF RouteWorker, WorkersOf
  <2> QED
    BY <1>6, <2>4, <2>7, <2>8, RecordFits
<1>8. CASE ReportWorker(process, worker)
  <2>1. PICK queue : queue = Append(it.queue, "refresh")
    OBVIOUS
  <2>2. PICK new : new = [it EXCEPT !.workers = left, !.queue = queue]
    OBVIOUS
  <2>3. tyProc' = [tyProc EXCEPT ![process] = new] /\ tyService' = tyService
    BY <1>1, <1>4, <1>8, <2>1, <2>2 DEF ReportWorker
  <2>4. new.queue = queue /\ new.workers = left /\ new.tries = it.tries /\ new.phase = it.phase
    BY <2>2 DEF TrayRecords
  <2>5. Len(queue) = Len(it.queue) + 1
    BY <1>2, <2>1
  <2>6. Fits(new, tyClicks')
    BY <1>1, <1>2, <1>3, <1>5, <1>6, <2>4, <2>5 DEF Fits
  <2> QED
    BY <1>6, <2>3, <2>6, RecordFits
<1> QED
  BY <1>7, <1>8

(* A save leaves what is queued and at work.                               *)
LEMMA SaveFits ==
    ASSUME TrayInv, NEW saver \in TrayProcesses \union {NoTray}, NEW process \in TrayProcesses
    PROVE  SameFit(SavedBy(saver)[process], tyProc[process])
<1>1. PICK it \in TrayRecords : it = tyProc[process]
  BY ProcessIs
<1>2. PICK behind : behind = (Shows(process) /\ process # saver)
  OBVIOUS
<1>3. SavedBy(saver)[process] = [it EXCEPT !.behind = behind]
  BY <1>1, <1>2 DEF SavedBy
<1> QED
  BY <1>1, <1>3 DEF SameFit, TrayRecords

LEMMA PanelFits == ASSUME TrayInv, TrayBounded, PanelSaves PROVE TrayBounded'
<1>1. tyProc' = SavedBy(NoTray) /\ UNCHANGED <<tyService, tyClicks>>
  BY DEF PanelSaves
<1>2. tyClicks' \in 0 .. MaxClicks /\ tyClicks <= tyClicks' /\ tyService' \in Statuses /\ tyClicks' \in Nat
  BY <1>1, TrayRest, TrayAssumption DEF TrayBounded
<1>3. \A process \in TrayProcesses : Fits(tyProc'[process], tyClicks')
  <2> TAKE process \in TrayProcesses
  <2>1. SameFit(tyProc'[process], tyProc[process])
    BY <1>1, SaveFits
  <2> QED
    BY <1>2, <2>1, FitGrows
<1> QED
  BY <1>2, <1>3 DEF TrayBounded

(* Of the process that saves, only the callback changes besides.           *)
LEMMA SaverFits ==
    ASSUME TrayInv, TrayBounded, NEW process \in TrayProcesses, NEW others, NEW new,
           others \in [TrayProcesses -> TrayRecords],
           \A other \in TrayProcesses : SameFit(others[other], tyProc[other]),
           tyProc' = [others EXCEPT ![process] = new], SameFit(new, others[process]),
           tyClicks' \in 0 .. MaxClicks, tyClicks <= tyClicks', tyService' \in Statuses
    PROVE  TrayBounded'
<1>1. tyClicks' \in Nat
  BY TrayAssumption
<1>2. \A other \in TrayProcesses : Fits(tyProc'[other], tyClicks')
  <2> TAKE other \in TrayProcesses
  <2>1. SameFit(tyProc'[other], tyProc[other])
    <3>1. CASE other = process
      BY <3>1 DEF SameFit
    <3>2. CASE other # process
      BY <3>2
    <3> QED
      BY <3>1, <3>2
  <2> QED
    BY <1>1, <2>1, FitGrows
<1> QED
  BY <1>2 DEF TrayBounded

LEMMA ToggleFits ==
    ASSUME TrayInv, TrayBounded, NEW process \in TrayProcesses, ToggleSaved(process) \/ ToggleFailed(process)
    PROVE  TrayBounded'
<1>1. Clicks(process) /\ tyService' = tyService
  BY DEF ToggleSaved, ToggleFailed
<1>2. tyClicks' \in 0 .. MaxClicks /\ tyClicks <= tyClicks' /\ tyService' \in Statuses
  BY <1>1, ClickCounted
<1>3. \A saver \in TrayProcesses \union {NoTray} : SavedBy(saver) \in [TrayProcesses -> TrayRecords]
  <2> TAKE saver \in TrayProcesses \union {NoTray}
  <2>1. \A other \in TrayProcesses : SavedBy(saver)[other] \in TrayRecords
    BY SavedIs
  <2> QED
    BY <2>1 DEF SavedBy
<1>4. PICK others \in [TrayProcesses -> TrayRecords] :
        /\ \A other \in TrayProcesses : SameFit(others[other], tyProc[other])
        /\ \/ ToggleSaved(process) /\ others = SavedBy(process)
           \/ ToggleFailed(process) /\ others = IF tyDisk' = tyDisk THEN tyProc ELSE SavedBy(NoTray)
  <2>1. \A saver \in TrayProcesses \union {NoTray}, other \in TrayProcesses :
          SameFit(SavedBy(saver)[other], tyProc[other])
    BY SaveFits
  <2>2. tyProc \in [TrayProcesses -> TrayRecords] /\ \A other \in TrayProcesses : SameFit(tyProc[other], tyProc[other])
    BY DEF TrayInv, TrayTyped, SameFit
  <2> QED
    BY <1>3, <2>1, <2>2
<1>5. PICK it \in TrayRecords : it = others[process]
  BY <1>4
<1>6. CASE ToggleSaved(process) /\ others = SavedBy(process)
  <2>1. PICK new : new = [it EXCEPT !.callback = "saved", !.wrote = tyDisk']
    OBVIOUS
  <2>2. tyProc' = [others EXCEPT ![process] = new]
    BY <1>5, <1>6, <2>1 DEF ToggleSaved
  <2>3. SameFit(new, it)
    BY <2>1 DEF SameFit, TrayRecords
  <2> QED
    BY <1>2, <1>4, <1>5, <2>2, <2>3, SaverFits
<1>7. CASE ToggleFailed(process) /\ others = IF tyDisk' = tyDisk THEN tyProc ELSE SavedBy(NoTray)
  <2>1. PICK new : new = [it EXCEPT !.callback = "failed"]
    OBVIOUS
  <2>2. tyProc' = [others EXCEPT ![process] = new]
    <3>1. tyProc' = [others EXCEPT ![process].callback = "failed"]
      BY <1>7 DEF ToggleFailed
    <3> QED
      BY <1>5, <2>1, <3>1
  <2>3. SameFit(new, it)
    BY <2>1 DEF SameFit, TrayRecords
  <2> QED
    BY <1>2, <1>4, <1>5, <2>2, <2>3, SaverFits
<1> QED
  BY <1>4, <1>6, <1>7

LEMMA TrayInitBounded == ASSUME TrayInit PROVE TrayBounded
<1>1. tyService \in Statuses /\ tyClicks \in 0 .. MaxClicks
  BY TrayAssumption DEF TrayInit, Statuses
<1>2. \A process \in TrayProcesses : tyProc[process] = NoProcess
  BY DEF TrayInit
<1> QED
  BY <1>1, <1>2, NoProcessFits DEF TrayBounded

LEMMA TrayStepBounded == ASSUME TrayInv, TrayBounded, [TrayNext]_tyVars PROVE TrayBounded'
<1>1. CASE UNCHANGED tyVars
  BY <1>1 DEF TrayBounded, tyVars
<1>2. CASE ServiceMoves
  <2>1. tyService' \in Statuses /\ UNCHANGED <<tyProc, tyClicks>>
    BY <1>2 DEF ServiceMoves, Statuses
  <2> QED
    BY <2>1 DEF TrayBounded
<1>3. CASE PanelSaves
  BY <1>3, PanelFits
<1>4. ASSUME NEW process \in TrayProcesses,
             Launch(process) \/ Acquire(process) \/ Crash(process) \/ RegisterIcon(process) \/ RegisterFails(process)
      PROVE  TrayBounded'
  BY <1>4, StartingFits, RegisterIconFits
<1>5. ASSUME NEW process \in TrayProcesses,
             Turn(process) \/ AskStatus(process) \/ Update(process) \/ OpenMenu(process) \/ ToggleSaved(process)
               \/ ToggleFailed(process) \/ ToggleShows(process) \/ ChooseQuit(process)
      PROVE  TrayBounded'
  BY <1>5, LoopFits, ToggleFits, ChooseQuitFits
<1>6. ASSUME NEW process \in TrayProcesses,
             (\E entry \in Entries : Choose(process, entry))
               \/ \E worker \in tyProc[process].workers : RouteWorker(process, worker) \/ ReportWorker(process, worker)
      PROVE  TrayBounded'
  BY <1>6, ChooseFits, WorkersFit
<1> QED
  BY <1>1, <1>2, <1>3, <1>4, <1>5, <1>6 DEF TrayNext

LEMMA TrayIsTyped == ASSUME TrayInv, TrayBounded PROVE TrayTypeOK
<1> SUFFICES ASSUME NEW process \in TrayProcesses
             PROVE  LET it == tyProc[process] IN
                    /\ it.phase \in {"off", "lock", "register", "top", "ask", "update"}
                    /\ it.tries \in 0 .. WatcherAttempts - 1
                    /\ {it.marks, it.wrote} \subseteq {0, 1}
                    /\ Len(it.queue) <= MaxClicks + 1
                    /\ it.callback \in {"free", "saved", "failed"}
  BY DEF TrayTypeOK, TrayInv, TrayTyped, TrayBounded, Bits
<1>1. PICK it \in TrayRecords : it = tyProc[process] /\ Fits(it, tyClicks)
  BY FitFields
<1>2. /\ Len(it.queue) \in Nat /\ it.queue \in Seq({"quit", "refresh"})
      /\ IsFiniteSet(it.workers) /\ Cardinality(it.workers) \in Nat
      /\ it.phase \notin Showing => it.queue = <<>>
  BY <1>1, FitFields
<1>3. tyClicks \in Nat /\ tyClicks <= MaxClicks /\ MaxClicks \in Nat
  BY TrayAssumption DEF TrayBounded
<1>4. Len(it.queue) <= MaxClicks + 1
  <2>1. CASE it.phase \in Showing
    <3>1. Len(it.queue) + Cardinality(it.workers) <= tyClicks + 1
      BY <1>1, <2>1 DEF Fits
    <3> QED
      BY <1>2, <1>3, <3>1
  <2>2. CASE it.phase \notin Showing
    BY <1>2, <1>3, <2>2
  <2> QED
    BY <2>1, <2>2
<1>5. it.tries \in 0 .. WatcherAttempts - 1
  BY <1>1 DEF Fits
<1> QED
  BY <1>1, <1>4, <1>5 DEF TrayRecords, Bits, Showing

(* There is one icon, and it tells the truth, for any number of processes, *)
(* clicks and attempts; and what waits in a process's queue or is at work  *)
(* for it was clicked, but for the worker that starts the service (main.rs *)
(* of vellum-tray).                                                        *)
THEOREM TrayKeeps == TraySpec => [](TrayTypeOK /\ TrayTrue)
<1>1. ASSUME TrayInv PROVE TrayTrue
  <2>1. Cardinality({process \in TrayProcesses : Shows(process)}) <= 1
    <3> DEFINE shown == {process \in TrayProcesses : Shows(process)}
    <3>1. \A process \in shown : process = tyLock
      BY <1>1, ProcessIs
    <3>2. shown = {} \/ shown = {tyLock}
      BY <3>1
    <3>3. Cardinality({}) = 0 /\ Cardinality({tyLock}) = 1
      BY FS_EmptySet, FS_Singleton
    <3> HIDE DEF shown
    <3>4. Cardinality(shown) <= 1
      BY <3>2, <3>3
    <3> QED
      BY <3>4 DEF shown
  <2>2. ASSUME NEW process \in TrayProcesses, Shows(process) PROVE ShowsTrue(tyProc[process], tyDisk)
    BY <1>1, <2>2, ProcessIs DEF ProcessTrue
  <2> QED
    BY <2>1, <2>2 DEF TrayTrue, ShowsTrue, Queued, HasQueued
<1>2. TrayInv /\ TrayBounded => TrayTypeOK /\ TrayTrue
  BY <1>1, TrayIsTyped
<1>3. TrayInit => TrayInv /\ TrayBounded
  BY TrayInitInv, TrayInitBounded
<1>4. TrayInv /\ [TrayNext]_tyVars => TrayInv'
  BY TrayNextInv
<1>5. TrayInv /\ TrayBounded /\ [TrayNext]_tyVars => TrayBounded'
  BY TrayStepBounded
<1> QED
  BY <1>2, <1>3, <1>4, <1>5, PTL DEF TraySpec

-----------------------------------------------------------------------------
(* The services.                                                           *)
Callers == {"activating", "restoring", "login", "stopping"}
ApplySteps == {"idle", "reload", "stops", "starts", "wait"}
SharedCallSteps == {"bind", "links", "relink", "reload again", "bind again", "final"}

UnitTyped == [public : Releases \union {"none", "foreign"}, loaded : Releases \union {"missing", "foreign"},
              enabled : BOOLEAN, active : {"no", "moving", "yes"},
              runs : Releases \union {"none", "foreign"}]
Wishes == [enabled : SUBSET Units, active : SUBSET Units, first : BOOLEAN]
Calls == [step : ApplySteps \union SharedCallSteps, kind : {"apply", "login"}, release : Releases,
          desired : Wishes, at : DOMAIN UnitOrder, seen : SUBSET Units, changed : BOOLEAN,
          failed : BOOLEAN]

ControlTyped ==
    /\ suUnit \in [Units -> UnitTyped]
    /\ suOp \in Calls \union {NoOp}
    /\ suCaller \in Callers \union {"before", "switching", "activated", "rollback", "restored", "stuck",
                                    "stopped", "failed", "refused", "killed"}
    /\ suTaken \in Wishes /\ suWanted \in Wishes
    /\ suBusy \in BOOLEAN /\ suOutside \subseteq Units /\ suBroken \subseteq Units
    /\ suInterference \in Nat

(* A call is the caller's, and is about what the caller wants.             *)
CallTrue ==
    /\ suOp # NoOp <=> suCaller \in Callers
    /\ suOp # NoOp =>
        /\ suOp.desired = suWanted
        /\ suOp.kind = "login" <=> suCaller = "login"
        /\ suOp.step \in ApplySteps => suOp.kind = "apply"
        /\ suOp.release = "old" => suCaller = "restoring"
        /\ suOp.release = "new" /\ suCaller = "restoring" => suWanted.active = {}

(* What a unit is once it was found as desired, by a call for a release or *)
(* before one that is only about the start at login.                       *)
RunsAsWanted(u, release) ==
    /\ suUnit[u].active = IF u \in suWanted.active THEN "yes" ELSE "no"
    /\ u \in suWanted.active => suUnit[u].runs = release
Found(u) ==
    /\ suUnit[u].enabled = (u \in suWanted.enabled)
    /\ suOp.kind = "apply" => RunsAsWanted(u, suOp.release)

LooksTrue ==
    /\ suCaller = "login" => \A u \in Units \ suOutside : RunsAsWanted(u, "new")
    /\ suOp # NoOp /\ suOp.step = "final" =>
         \A i \in DOMAIN UnitOrder :
            i < suOp.at /\ UnitOrder[i] \notin suOutside => Found(UnitOrder[i])

ControlInv == ControlTyped /\ CallTrue /\ LooksTrue /\ ServicesSafe

-----------------------------------------------------------------------------
(* The list of units is not empty and can be walked from both ends.        *)
LEMMA OrderFacts ==
    /\ Len(UnitOrder) \in Nat \ {0} /\ DOMAIN UnitOrder = 1 .. Len(UnitOrder) /\ 1 \in DOMAIN UnitOrder
    /\ \A i \in DOMAIN UnitOrder :
         /\ UnitOrder[i] \in Units
         /\ Len(UnitOrder) + 1 - i \in DOMAIN UnitOrder
         /\ i # Len(UnitOrder) => i + 1 \in DOMAIN UnitOrder
    /\ \A u \in Units : \E i \in DOMAIN UnitOrder : UnitOrder[i] = u
<1>1. Len(UnitOrder) \in Nat /\ DOMAIN UnitOrder = 1 .. Len(UnitOrder)
  BY UnitControlAssumption
<1>2. Len(UnitOrder) # 0
  BY UnitControlAssumption
<1> QED
  BY <1>1, <1>2 DEF Units

(* A call under way is not the absence of one.                             *)
LEMMA CallIsCall == ASSUME NEW op \in Calls PROVE op # NoOp
<1>1. "kind" \in DOMAIN op /\ "kind" \notin DOMAIN NoOp
  BY DEF Calls, NoOp
<1> QED
  BY <1>1

(* In a step of a call there is a call, its caller and a unit it is at.    *)
LEMMA InCall ==
    ASSUME ControlInv, suOp \in Calls \/ suOp # NoOp \/ ~InStep("none")
    PROVE  /\ suOp \in Calls /\ suOp # NoOp /\ suCaller \in Callers
           /\ suOp.at \in DOMAIN UnitOrder /\ Here \in Units /\ LastFirst \in Units
           /\ suUnit \in [Units -> UnitTyped]
<1>1. suOp # NoOp
  BY CallIsCall DEF InStep, NoOp
<1>2. suOp \in Calls /\ suCaller \in Callers /\ suUnit \in [Units -> UnitTyped]
  BY <1>1 DEF ControlInv, ControlTyped, CallTrue
<1>3. suOp.at \in DOMAIN UnitOrder
  BY <1>2 DEF Calls
<1> QED
  BY <1>1, <1>2, <1>3, OrderFacts DEF Here, LastFirst

(* Going on to the next unit keeps what the call is about, and starts the  *)
(* next walk at the first unit.                                            *)
LEMMA NextUnitIn ==
    ASSUME suOp \in Calls, NEW op \in Calls, op.at = suOp.at,
           NEW next \in ApplySteps \union SharedCallSteps
    PROVE  LET after == NextUnit(op, next) IN
           /\ after \in Calls
           /\ after.kind = op.kind /\ after.release = op.release /\ after.desired = op.desired
           /\ (after.step = next /\ after.at = 1) \/ after.step = op.step
<1>1. op.at \in DOMAIN UnitOrder
  BY DEF Calls
<1>2. CASE suOp.at = Len(UnitOrder)
  BY <1>2, OrderFacts DEF NextUnit, Calls
<1>3. CASE suOp.at # Len(UnitOrder)
  <2>1. op.at + 1 \in DOMAIN UnitOrder
    BY <1>1, <1>3, OrderFacts
  <2> QED
    BY <2>1, <1>3 DEF NextUnit, Calls
<1> QED
  BY <1>2, <1>3

(* A step that takes no entry away, other than the one that puts it back,  *)
(* loses none.                                                             *)
LEMMA EntriesStay ==
    ASSUME ControlInv, suOp \in Calls, suOp.step # "relink", suBroken' = suBroken,
           \A u \in Units : suUnit'[u].public = "none" => suUnit[u].public = "none"
    PROVE  EntriesKept'
<1>1. suCaller \notin {"before", "switching", "refused"}
  BY InCall DEF Callers
<1>2. \A u \in Units : suUnit[u].public = "none" => u \in suBroken
  BY <1>1 DEF ControlInv, ServicesSafe, EntriesKept, InStep
<1> QED
  BY <1>2 DEF EntriesKept

(* A call that ends without success promises nothing.                      *)
LEMMA CallEnds ==
    ASSUME ControlInv, suOp \in Calls, suUnit' \in [Units -> UnitTyped],
           suOp' = NoOp, suCaller' \in {"rollback", "stuck", "failed", "killed"},
           suBroken' \subseteq Units,
           UNCHANGED <<suTaken, suWanted, suOutside, suBusy, suInterference>>,
           EntriesKept'
    PROVE  ControlInv'
<1>1. ControlTyped'
  BY DEF ControlInv, ControlTyped
<1>2. CallTrue'
  BY DEF CallTrue, Callers
<1>3. LooksTrue'
  BY DEF LooksTrue
<1>4. ServicesAsPromised'
  BY DEF ServicesAsPromised
<1> QED
  BY <1>1, <1>2, <1>3, <1>4 DEF ControlInv, ServicesSafe

LEMMA FailsTo ==
    ASSUME ControlInv, suOp \in Calls, Fails
    PROVE  suOp' = NoOp /\ suCaller' \in {"rollback", "stuck", "failed"}
<1>1. suCaller \in Callers
  BY InCall
<1> QED
  BY <1>1 DEF Fails, AfterFailure, Callers

LEMMA CallFails ==
    ASSUME ControlInv, suOp \in Calls, suUnit' \in [Units -> UnitTyped], Fails,
           suBroken' \subseteq Units,
           UNCHANGED <<suTaken, suWanted, suOutside, suBusy, suInterference>>,
           EntriesKept'
    PROVE  ControlInv'
BY FailsTo, CallEnds

(* A call that goes on is still the same call; a login preference touches  *)
(* no process; and the last look starts with the first unit.               *)
SameCall ==
    /\ suOp' \in Calls
    /\ suOp'.kind = suOp.kind /\ suOp'.release = suOp.release /\ suOp'.desired = suOp.desired
    /\ suOp'.step \in ApplySteps => suOp.kind = "apply"
    /\ suOp'.step = "final" => suOp'.at = 1

LEMMA CallGoesOn ==
    ASSUME ControlInv, suOp \in Calls, suUnit' \in [Units -> UnitTyped], SameCall,
           UNCHANGED <<suCaller, suTaken, suWanted, suOutside, suBroken, suBusy, suInterference>>,
           suOp.kind = "login" => \A u \in Units : suUnit'[u].active = suUnit[u].active
                                                   /\ suUnit'[u].runs = suUnit[u].runs,
           EntriesKept'
    PROVE  ControlInv'
<1>0. suCaller \in Callers /\ suOp # NoOp /\ suOp' # NoOp
  BY InCall, CallIsCall DEF SameCall
<1>1. ControlTyped'
  BY DEF ControlInv, ControlTyped, SameCall
<1>2. CallTrue'
  BY <1>0 DEF ControlInv, CallTrue, SameCall
<1>3. LooksTrue'
  <2>1. suCaller' = "login" => \A u \in Units \ suOutside' : RunsAsWanted(u, "new")'
    BY <1>0 DEF ControlInv, LooksTrue, CallTrue, RunsAsWanted
  <2>2. ASSUME suOp'.step = "final", NEW i \in DOMAIN UnitOrder, i < suOp'.at PROVE FALSE
    BY SMTT(25), <2>2, OrderFacts DEF SameCall
  <2> QED
    BY <2>1, <2>2 DEF LooksTrue
<1>4. ServicesAsPromised'
  BY <1>0 DEF ServicesAsPromised, Callers
<1> QED
  BY <1>1, <1>2, <1>3, <1>4 DEF ControlInv, ServicesSafe

-----------------------------------------------------------------------------
(* The steps that only look, and fail or go on.                            *)
LEMMA EnsureIdleKeeps == ASSUME ControlInv, EnsureIdle PROVE ControlInv'
<1>1. suOp \in Calls /\ suUnit \in [Units -> UnitTyped] /\ suUnit' = suUnit /\ suOp.step = "idle"
  BY InCall DEF EnsureIdle, InStep, NoOp
<1>2. suBroken' = suBroken /\ suBroken \subseteq Units
      /\ UNCHANGED <<suTaken, suWanted, suOutside, suBusy, suInterference>>
  BY DEF EnsureIdle, OthersRest, ControlInv, ControlTyped
<1>3. EntriesKept'
  BY <1>1, <1>2, EntriesStay
<1>4. CASE Fails
  BY <1>1, <1>2, <1>3, <1>4, CallFails
<1>5. CASE Goes("reload") /\ UNCHANGED suCaller
  <2>1. SameCall
    BY <1>1, <1>5, InCall DEF SameCall, Goes, Calls, ControlInv, CallTrue, ApplySteps, SharedCallSteps
  <2> QED
    BY <1>1, <1>2, <1>3, <1>5, <2>1, CallGoesOn
<1> QED
  BY <1>4, <1>5 DEF EnsureIdle

LEMMA ReloadKeeps ==
    ASSUME ControlInv, NEW next \in {"bind", "bind again"}, Reload(next) PROVE ControlInv'
<1>1. suOp \in Calls /\ suUnit \in [Units -> UnitTyped] /\ suOp.step \in {"reload", "reload again"}
  BY InCall DEF Reload, InStep, NoOp
<1>2. suBroken' = suBroken /\ suBroken \subseteq Units
      /\ UNCHANGED <<suTaken, suWanted, suOutside, suBusy, suInterference>>
  BY DEF Reload, OthersRest, ControlInv, ControlTyped
<1>3. /\ Reloaded \in [Units -> UnitTyped]
      /\ \A u \in Units : Reloaded[u].public = suUnit[u].public /\ Reloaded[u].active = suUnit[u].active
                          /\ Reloaded[u].runs = suUnit[u].runs
  BY ZenonT(60), <1>1 DEF Reloaded, UnitTyped, Releases
<1>4. suUnit' \in {suUnit, Reloaded}
  BY DEF Reload
<1>5. /\ suUnit' \in [Units -> UnitTyped]
      /\ \A u \in Units : suUnit'[u].public = suUnit[u].public /\ suUnit'[u].active = suUnit[u].active
                          /\ suUnit'[u].runs = suUnit[u].runs
  BY <1>1, <1>3, <1>4
<1>6. EntriesKept'
  BY <1>1, <1>2, <1>5, EntriesStay
<1>7. CASE Fails
  BY <1>1, <1>2, <1>5, <1>6, <1>7, CallFails
<1>8. CASE Goes(next) /\ UNCHANGED suCaller
  <2>1. SameCall
    BY <1>1, <1>8 DEF SameCall, Goes, Calls, ApplySteps, SharedCallSteps
  <2> QED
    BY <1>1, <1>2, <1>5, <1>6, <1>8, <2>1, CallGoesOn
<1> QED
  BY <1>7, <1>8 DEF Reload

LEMMA BindUnitKeeps ==
    ASSUME ControlInv, NEW step \in {"bind", "bind again"}, BindUnit(step) PROVE ControlInv'
<1>1. suOp \in Calls /\ suUnit \in [Units -> UnitTyped] /\ suUnit' = suUnit /\ suOp.step = step
      /\ Here \in Units
  BY InCall DEF BindUnit, InStep, NoOp
<1>2. suBroken' = suBroken /\ suBroken \subseteq Units
      /\ UNCHANGED <<suTaken, suWanted, suOutside, suBusy, suInterference>>
  BY DEF BindUnit, OthersRest, ControlInv, ControlTyped
<1>3. EntriesKept'
  BY <1>1, <1>2, EntriesStay
<1>4. CASE Fails
  BY <1>1, <1>2, <1>3, <1>4, CallFails
<1>5. CASE ~Fails
  <2> DEFINE next == IF step = "bind" THEN "links" ELSE IF suOp.kind = "login" THEN "final" ELSE "stops"
  <2>1. PICK seen \in {suOp.seen \union {Here}, suOp.seen} :
            suOp' = NextUnit([suOp EXCEPT !.seen = seen], next) /\ UNCHANGED suCaller
    BY <1>5 DEF BindUnit
  <2> DEFINE op == [suOp EXCEPT !.seen = seen]
  <2>2. /\ op \in Calls /\ op.at = suOp.at /\ op.kind = suOp.kind /\ op.release = suOp.release
        /\ op.desired = suOp.desired /\ op.step = step
    BY <1>1 DEF Calls
  <2>3. next \in ApplySteps \union SharedCallSteps /\ (next = "stops" => suOp.kind = "apply")
        /\ next \in {"links", "final", "stops"}
    BY <1>1 DEF ApplySteps, SharedCallSteps, Calls
  <2>4. suOp' = NextUnit(op, next)
    BY <2>1
  <2> HIDE DEF op, next
  <2>5. /\ suOp' \in Calls /\ suOp'.kind = suOp.kind /\ suOp'.release = suOp.release
        /\ suOp'.desired = suOp.desired /\ ((suOp'.step = next /\ suOp'.at = 1) \/ suOp'.step = step)
    BY <1>1, <2>2, <2>3, <2>4, NextUnitIn
  <2>6. SameCall
    BY <2>3, <2>5 DEF SameCall, ApplySteps
  <2> QED
    BY <1>1, <1>2, <1>3, <2>1, <2>6, CallGoesOn
<1> QED
  BY <1>4, <1>5

LEMMA LinkKeptKeeps == ASSUME ControlInv, LinkKept PROVE ControlInv'
<1>1. suOp \in Calls /\ suUnit \in [Units -> UnitTyped] /\ suUnit' = suUnit /\ suOp.step = "links"
  BY InCall DEF LinkKept, InStep, NoOp
<1>2. UNCHANGED <<suCaller, suTaken, suWanted, suOutside, suBroken, suBusy, suInterference>>
  BY DEF LinkKept, OthersRest
<1>3. EntriesKept'
  BY <1>1, <1>2, EntriesStay
<1>4. AfterLinks \in ApplySteps \union SharedCallSteps /\ (AfterLinks \in ApplySteps => suOp.kind = "apply")
      /\ AfterLinks # "final"
  BY <1>1 DEF AfterLinks, ApplySteps, SharedCallSteps, Calls
<1>5. /\ suOp' \in Calls /\ suOp'.kind = suOp.kind /\ suOp'.release = suOp.release
      /\ suOp'.desired = suOp.desired /\ suOp'.step \in {AfterLinks, "links"}
  BY <1>1, <1>4, NextUnitIn DEF LinkKept
<1>6. SameCall
  BY <1>4, <1>5 DEF SameCall, ApplySteps
<1> QED
  BY <1>1, <1>2, <1>3, <1>6, CallGoesOn

LEMMA WaitRunningKeeps == ASSUME ControlInv, WaitRunning PROVE ControlInv'
<1>1. suOp \in Calls /\ suUnit \in [Units -> UnitTyped] /\ suUnit' = suUnit /\ suOp.step = "wait"
  BY InCall DEF WaitRunning, InStep, NoOp
<1>2. suBroken' = suBroken /\ suBroken \subseteq Units
      /\ UNCHANGED <<suTaken, suWanted, suOutside, suBusy, suInterference>>
  BY DEF WaitRunning, OthersRest, ControlInv, ControlTyped
<1>3. EntriesKept'
  BY <1>1, <1>2, EntriesStay
<1>4. CASE Fails
  BY <1>1, <1>2, <1>3, <1>4, CallFails
<1>5. CASE ~Fails
  <2> DEFINE op == [suOp EXCEPT !.step = "starts"]
  <2>1. suOp' = NextUnit(op, "final") /\ UNCHANGED suCaller
    BY <1>5 DEF WaitRunning
  <2>2. /\ op \in Calls /\ op.at = suOp.at /\ op.kind = suOp.kind /\ op.release = suOp.release
        /\ op.desired = suOp.desired /\ op.step = "starts"
    BY <1>1 DEF Calls, ApplySteps
  <2>3. suOp.kind = "apply"
    BY <1>1, InCall DEF ControlInv, CallTrue, ApplySteps
  <2>4. "final" \in ApplySteps \union SharedCallSteps
    BY DEF SharedCallSteps
  <2> HIDE DEF op
  <2>5. /\ suOp' \in Calls /\ suOp'.kind = suOp.kind /\ suOp'.release = suOp.release
        /\ suOp'.desired = suOp.desired /\ ((suOp'.step = "final" /\ suOp'.at = 1) \/ suOp'.step = "starts")
    BY <1>1, <2>1, <2>2, <2>4, NextUnitIn
  <2>6. SameCall
    BY <2>3, <2>5 DEF SameCall
  <2> QED
    BY <1>1, <1>2, <1>3, <2>1, <2>6, CallGoesOn
<1> QED
  BY <1>4, <1>5

-----------------------------------------------------------------------------
(* The commands.  Those of systemctl enable and disable touch no process,  *)
(* and what disable takes away is the entry of this unit.                  *)
LEMMA LinkCommands ==
    ASSUME suUnit \in [Units -> UnitTyped], NEW u \in Units, NEW done \in {Enabled(u), Disabled(u)}
    PROVE  /\ done \in [Units -> UnitTyped]
           /\ \A v \in Units : /\ done[v].active = suUnit[v].active /\ done[v].runs = suUnit[v].runs
                               /\ v # u => done[v] = suUnit[v]
<1>1. suUnit[u] \in UnitTyped
  OBVIOUS
<1>2. CASE done = Enabled(u)
  BY <1>1, <1>2 DEF Enabled, UnitTyped
<1>3. CASE done = Disabled(u)
  BY <1>1, <1>3 DEF Disabled, UnitTyped
<1> QED
  BY <1>2, <1>3

LEMMA ChangeLinkKeeps == ASSUME ControlInv, ChangeLink PROVE ControlInv'
<1>1. suOp \in Calls /\ suUnit \in [Units -> UnitTyped] /\ suOp.step = "links" /\ Here \in Units
      /\ suCaller \in Callers
  BY InCall DEF ChangeLink, InStep, NoOp
<1>2. suBroken' = suBroken /\ suBroken \subseteq Units
      /\ UNCHANGED <<suTaken, suWanted, suOutside, suBusy, suInterference>>
  BY DEF ChangeLink, OthersRest, ControlInv, ControlTyped
<1>3. CASE Fails /\ UNCHANGED suUnit
  <2>1. EntriesKept'
    BY <1>1, <1>2, <1>3, EntriesStay
  <2> QED
    BY <1>1, <1>2, <1>3, <2>1, CallFails
<1>4. CASE ~(Fails /\ UNCHANGED suUnit)
  <2> DEFINE done == IF Here \in suOp.desired.enabled THEN Enabled(Here) ELSE Disabled(Here)
  <2>1. /\ suUnit' \in {suUnit, done} /\ UNCHANGED suCaller
        /\ suOp' \in {[suOp EXCEPT !.step = "relink"], [suOp EXCEPT !.step = "relink", !.failed = TRUE]}
    BY <1>4 DEF ChangeLink
  <2>2. /\ suUnit' \in [Units -> UnitTyped]
        /\ \A v \in Units : /\ suUnit'[v].active = suUnit[v].active /\ suUnit'[v].runs = suUnit[v].runs
                            /\ v # Here => suUnit'[v] = suUnit[v]
    BY <1>1, <2>1, LinkCommands
  <2>3. suOp' \in Calls /\ suOp'.kind = suOp.kind /\ suOp'.release = suOp.release
        /\ suOp'.desired = suOp.desired /\ suOp'.step = "relink" /\ suOp'.at = suOp.at
    BY <1>1, <2>1 DEF Calls, SharedCallSteps
  <2>4. SameCall
    BY <2>3 DEF SameCall, ApplySteps
  <2>5. EntriesKept'
    <3>1. \A u \in Units : suUnit[u].public = "none" => u \in suBroken
      BY <1>1 DEF ControlInv, ServicesSafe, EntriesKept, InStep, Callers
    <3>2. Here' = Here /\ InStep("relink")'
      BY <2>3 DEF Here, InStep
    <3> QED
      BY <1>2, <2>2, <3>1, <3>2 DEF EntriesKept
  <2> QED
    BY <1>1, <1>2, <2>1, <2>2, <2>4, <2>5, CallGoesOn
<1> QED
  BY <1>3, <1>4

LEMMA RelinkKeeps == ASSUME ControlInv, Relink PROVE ControlInv'
<1>1. suOp \in Calls /\ suUnit \in [Units -> UnitTyped] /\ suOp.step = "relink" /\ Here \in Units
      /\ suCaller \in Callers
  BY InCall DEF Relink, InStep, NoOp
<1>2. suBroken \subseteq Units /\ UNCHANGED <<suTaken, suWanted, suOutside, suBusy, suInterference>>
  BY DEF Relink, OthersRest, ControlInv, ControlTyped
<1>3. \A u \in Units : suUnit[u].public = "none" => u \in suBroken \/ u = Here
  BY <1>1 DEF ControlInv, ServicesSafe, EntriesKept, Callers
<1>4. CASE /\ suUnit[Here].public = "none" /\ Fails
           /\ suBroken' = suBroken \union {Here} /\ UNCHANGED suUnit
  <2>1. EntriesKept'
    BY <1>3, <1>4 DEF EntriesKept
  <2> QED
    BY <1>1, <1>2, <1>4, <2>1, CallFails
<1>5. CASE suUnit' = [suUnit EXCEPT ![Here] = PutBack(@)] /\ UNCHANGED suBroken
  <2>1. suOp.release \in Releases /\ suOp.release # "none" /\ suUnit[Here] \in UnitTyped
    BY <1>1 DEF Calls, Releases
  <2>2. /\ PutBack(suUnit[Here]) \in UnitTyped /\ PutBack(suUnit[Here]).public # "none"
        /\ PutBack(suUnit[Here]).active = suUnit[Here].active /\ PutBack(suUnit[Here]).runs = suUnit[Here].runs
    BY <2>1 DEF PutBack, UnitTyped
  <2>3. /\ suUnit' \in [Units -> UnitTyped]
        /\ \A v \in Units : suUnit'[v].active = suUnit[v].active /\ suUnit'[v].runs = suUnit[v].runs
        /\ suUnit'[Here].public # "none" /\ \A v \in Units \ {Here} : suUnit'[v] = suUnit[v]
    BY <1>1, <1>5, <2>2
  <2>4. EntriesKept'
    BY <1>3, <1>5, <2>3 DEF EntriesKept
  <2>5. CASE Fails
    BY <1>1, <1>2, <1>5, <2>3, <2>4, <2>5, CallFails
  <2>6. CASE ~Fails
    <3> DEFINE op == [suOp EXCEPT !.changed = TRUE, !.step = "links"]
    <3>1. suOp' = NextUnit(op, "reload again") /\ UNCHANGED suCaller
      BY <2>6 DEF Relink
    <3>2. /\ op \in Calls /\ op.at = suOp.at /\ op.kind = suOp.kind /\ op.release = suOp.release
          /\ op.desired = suOp.desired /\ op.step = "links"
      BY <1>1 DEF Calls, SharedCallSteps
    <3>3. "reload again" \in ApplySteps \union SharedCallSteps
      BY DEF SharedCallSteps
    <3> HIDE DEF op
    <3>4. /\ suOp' \in Calls /\ suOp'.kind = suOp.kind /\ suOp'.release = suOp.release
          /\ suOp'.desired = suOp.desired /\ suOp'.step \in {"reload again", "links"}
      BY <1>1, <3>1, <3>2, <3>3, NextUnitIn
    <3>5. SameCall
      BY <3>4 DEF SameCall, ApplySteps
    <3> QED
      BY <1>1, <1>2, <1>5, <2>3, <2>4, <3>1, <3>5, CallGoesOn
  <2> QED
    BY <2>5, <2>6
<1> QED
  BY <1>4, <1>5 DEF Relink

LEMMA StopUnitKeeps == ASSUME ControlInv, StopUnit PROVE ControlInv'
<1> DEFINE stopped == [suUnit EXCEPT ![LastFirst].active = "no", ![LastFirst].runs = "none"]
<1>1. suOp \in Calls /\ suUnit \in [Units -> UnitTyped] /\ suOp.step = "stops" /\ LastFirst \in Units
  BY InCall DEF StopUnit, InStep, NoOp
<1>2. suBroken' = suBroken /\ suBroken \subseteq Units
      /\ UNCHANGED <<suTaken, suWanted, suOutside, suBusy, suInterference>>
  BY DEF StopUnit, OthersRest, ControlInv, ControlTyped
<1>3. suUnit' \in {suUnit, stopped}
  BY DEF StopUnit
<1>4. stopped \in [Units -> UnitTyped] /\ \A v \in Units : stopped[v].public = suUnit[v].public
  BY ZenonT(60), <1>1 DEF UnitTyped
<1> HIDE DEF stopped
<1>5. suUnit' \in [Units -> UnitTyped] /\ \A v \in Units : suUnit'[v].public = suUnit[v].public
  BY <1>1, <1>3, <1>4
<1>6. EntriesKept'
  BY <1>1, <1>2, <1>5, EntriesStay
<1>7. CASE Fails
  BY <1>1, <1>2, <1>5, <1>6, <1>7, CallFails
<1>8. CASE ~Fails
  <2>1. suOp' = NextUnit(suOp, "starts") /\ UNCHANGED suCaller
    BY <1>8 DEF StopUnit
  <2>2. suOp.kind = "apply"
    BY <1>1, InCall DEF ControlInv, CallTrue, ApplySteps
  <2>3. "starts" \in ApplySteps \union SharedCallSteps
    BY DEF ApplySteps
  <2>4. /\ suOp' \in Calls /\ suOp'.kind = suOp.kind /\ suOp'.release = suOp.release
        /\ suOp'.desired = suOp.desired /\ suOp'.step \in {"starts", "stops"}
    BY <1>1, <2>1, <2>3, NextUnitIn
  <2>5. SameCall
    BY <2>2, <2>4 DEF SameCall
  <2> QED
    BY <1>1, <1>2, <1>5, <1>6, <2>1, <2>2, <2>5, CallGoesOn
<1> QED
  BY <1>7, <1>8

LEMMA StartUnitKeeps == ASSUME ControlInv, StartUnit PROVE ControlInv'
<1> DEFINE started == [suUnit EXCEPT ![Here].active = "moving", ![Here].runs = suUnit[Here].loaded]
<1>1. suOp \in Calls /\ suUnit \in [Units -> UnitTyped] /\ suOp.step = "starts" /\ Here \in Units
  BY InCall DEF StartUnit, InStep, NoOp
<1>2. suBroken' = suBroken /\ suBroken \subseteq Units
      /\ UNCHANGED <<suTaken, suWanted, suOutside, suBusy, suInterference>>
  BY DEF StartUnit, OthersRest, ControlInv, ControlTyped
<1>3. suUnit' \in {suUnit, started} /\ (suUnit' # suUnit => BoundTo(Here, suOp.release))
  BY DEF StartUnit
<1>4. BoundTo(Here, suOp.release) =>
        started \in [Units -> UnitTyped] /\ \A v \in Units : started[v].public = suUnit[v].public
  <2>1. suUnit[Here] \in UnitTyped /\ suOp.release \in Releases
    BY <1>1 DEF Calls
  <2>2. ASSUME BoundTo(Here, suOp.release)
        PROVE  [suUnit[Here] EXCEPT !.active = "moving", !.runs = suUnit[Here].loaded] \in UnitTyped
    BY <2>1, <2>2 DEF BoundTo, UnitTyped, Releases
  <2> QED
    BY <1>1, <2>1, <2>2
<1> HIDE DEF started
<1>5. suUnit' \in [Units -> UnitTyped] /\ \A v \in Units : suUnit'[v].public = suUnit[v].public
  BY <1>1, <1>3, <1>4
<1>6. EntriesKept'
  BY <1>1, <1>2, <1>5, EntriesStay
<1>7. CASE Fails
  BY <1>1, <1>2, <1>5, <1>6, <1>7, CallFails
<1>8. suOp.kind = "apply"
  BY <1>1, InCall DEF ControlInv, CallTrue, ApplySteps
<1>9. CASE suOp' = [suOp EXCEPT !.step = "wait"] /\ UNCHANGED suCaller
  <2>1. SameCall
    BY <1>1, <1>8, <1>9 DEF SameCall, Calls, ApplySteps
  <2> QED
    BY <1>1, <1>2, <1>5, <1>6, <1>8, <1>9, <2>1, CallGoesOn
<1>10. CASE suOp' = NextUnit(suOp, "final") /\ UNCHANGED suCaller
  <2>1. "final" \in ApplySteps \union SharedCallSteps
    BY DEF SharedCallSteps
  <2>2. /\ suOp' \in Calls /\ suOp'.kind = suOp.kind /\ suOp'.release = suOp.release
        /\ suOp'.desired = suOp.desired /\ ((suOp'.step = "final" /\ suOp'.at = 1) \/ suOp'.step = "starts")
    BY <1>1, <1>10, <2>1, NextUnitIn
  <2>3. SameCall
    BY <1>8, <2>2 DEF SameCall
  <2> QED
    BY <1>1, <1>2, <1>5, <1>6, <1>8, <1>10, <2>3, CallGoesOn
<1> QED
  BY <1>7, <1>9, <1>10 DEF StartUnit

-----------------------------------------------------------------------------
(* The last look.  What it found as desired stays so unless somebody else  *)
(* touches it; a service on the way up is not as desired, so none of those *)
(* already seen moves by itself.                                           *)
LEMMA DesiredIsFound ==
    ASSUME ControlInv, suOp \in Calls, NEW u \in Units, AsDesired(u)
    PROVE  Found(u)
<1>1. suOp.desired = suWanted
  BY CallIsCall DEF ControlInv, CallTrue
<1> QED
  BY <1>1 DEF AsDesired, Found, RunsAsWanted, RunsTarget

LEMMA FinalLookKeeps == ASSUME ControlInv, FinalLook PROVE ControlInv'
<1>1. suOp \in Calls /\ suOp # NoOp /\ suUnit \in [Units -> UnitTyped] /\ suUnit' = suUnit
      /\ suOp.step = "final" /\ Here \in Units /\ suCaller \in Callers /\ suOp.at \in DOMAIN UnitOrder
  BY InCall DEF FinalLook, InStep, NoOp
<1>2. suBroken' = suBroken /\ suBroken \subseteq Units /\ suOutside \subseteq Units
      /\ UNCHANGED <<suTaken, suWanted, suBusy, suInterference>>
  BY DEF FinalLook, OthersRest, ControlInv, ControlTyped
<1>3. EntriesKept'
  BY <1>1, <1>2, EntriesStay
<1>4. CASE Fails /\ UNCHANGED suOutside
  BY <1>1, <1>2, <1>3, <1>4, CallFails
<1>5. \A i \in DOMAIN UnitOrder : i \in Nat
  <2>1. DOMAIN UnitOrder = 1 .. Len(UnitOrder) /\ Len(UnitOrder) \in Nat
    BY OrderFacts
  <2> QED
    BY <2>1
<1>6. CASE /\ AsDesired(Here)
           /\ suOutside' = IF suOp.kind = "apply" THEN suOutside \ {Here} ELSE suOutside
  <2>1. Found(Here)
    BY <1>1, <1>6, DesiredIsFound
  <2>2. suOutside' \subseteq Units /\ (suOp.kind # "apply" => suOutside' = suOutside)
        /\ \A u \in Units \ suOutside' : u \notin suOutside \/ u = Here
    BY <1>2, <1>6
  <2>3. \A i \in DOMAIN UnitOrder :
            i <= suOp.at /\ UnitOrder[i] \notin suOutside' => Found(UnitOrder[i])
    <3>1. \A i \in DOMAIN UnitOrder :
              i < suOp.at /\ UnitOrder[i] \notin suOutside => Found(UnitOrder[i])
      BY <1>1 DEF ControlInv, LooksTrue
    <3>2. ASSUME NEW i \in DOMAIN UnitOrder, i <= suOp.at, UnitOrder[i] \notin suOutside'
          PROVE  Found(UnitOrder[i])
      <4>1. CASE UnitOrder[i] = Here
        BY <2>1, <4>1
      <4>2. CASE UnitOrder[i] # Here
        <5>1. i # suOp.at /\ UnitOrder[i] \notin suOutside
          BY <2>2, <3>2, <4>2, OrderFacts DEF Here
        <5>2. i < suOp.at
          BY <1>1, <1>5, <3>2, <5>1
        <5> QED
          BY <3>1, <5>1, <5>2
      <4> QED
        BY <4>1, <4>2
    <3> QED
      BY <3>2
  <2>4. suCaller = "login" => \A u \in Units \ suOutside' : RunsAsWanted(u, "new")
    <3>1. ASSUME suCaller = "login" PROVE suOutside' = suOutside
      BY <1>1, <2>2, <3>1 DEF ControlInv, CallTrue
    <3> QED
      BY <3>1 DEF ControlInv, LooksTrue
  <2>5. CASE LastUnit /\ suOp' = NoOp /\ suCaller' = AfterSuccess
    <3>1. suCaller' = (CASE suCaller = "activating" -> "activated" [] suCaller = "restoring" -> "restored"
                         [] suCaller = "login" -> "activated" [] suCaller = "stopping" -> "stopped")
      BY <2>5 DEF AfterSuccess
    <3>2. suCaller' \in {"activated", "restored", "stopped"}
          /\ (suCaller' = "restored" <=> suCaller = "restoring")
      BY <1>1, <3>1 DEF Callers
    <3>3. ControlTyped'
      BY <1>1, <1>2, <2>2, <2>5, <3>2 DEF ControlInv, ControlTyped
    <3>4. CallTrue' /\ LooksTrue'
      BY <2>5, <3>2 DEF CallTrue, LooksTrue, Callers
    <3>5. \A u \in Units \ suOutside' : Found(u)
      <4>1. \A i \in DOMAIN UnitOrder : i <= suOp.at
        BY <2>5, OrderFacts DEF LastUnit
      <4> QED
        BY <2>3, <4>1, OrderFacts
    <3>6. ASSUME NEW u \in Units \ suOutside'
          PROVE  /\ suUnit[u].enabled = (u \in suWanted.enabled)
                 /\ suUnit[u].active = IF u \in suWanted.active THEN "yes" ELSE "no"
                 /\ u \in suWanted.active => suUnit[u].runs = IF suCaller = "restoring" THEN "old" ELSE "new"
      <4>1. suUnit[u].enabled = (u \in suWanted.enabled)
        BY <3>5, <3>6 DEF Found
      <4>2. suOp.release \in Releases /\ (suOp.release = "old" => suCaller = "restoring")
            /\ (suOp.release = "new" /\ suCaller = "restoring" => suWanted.active = {})
        BY <1>1 DEF ControlInv, CallTrue, Calls
      <4>3. CASE suOp.kind = "apply"
        <5>1. RunsAsWanted(u, suOp.release)
          BY <3>5, <3>6, <4>3 DEF Found
        <5> QED
          BY <4>1, <4>2, <5>1 DEF RunsAsWanted, Releases
      <4>4. CASE suOp.kind # "apply"
        <5>1. suCaller = "login"
          BY <1>1, <4>4 DEF ControlInv, CallTrue, Calls
        <5> QED
          BY <2>4, <3>6, <4>1, <5>1 DEF RunsAsWanted
      <4> QED
        BY <4>3, <4>4
    <3>7. ServicesAsPromised'
      BY <1>1, <1>2, <3>2, <3>6 DEF ServicesAsPromised
    <3> QED
      BY <1>3, <3>3, <3>4, <3>7 DEF ControlInv, ServicesSafe
  <2>6. CASE ~LastUnit /\ suOp' = [suOp EXCEPT !.at = @ + 1] /\ UNCHANGED suCaller
    <3>1. suOp.at + 1 \in DOMAIN UnitOrder
      BY <1>1, <2>6, OrderFacts DEF LastUnit
    <3>2. /\ suOp' \in Calls /\ suOp'.kind = suOp.kind /\ suOp'.release = suOp.release
          /\ suOp'.desired = suOp.desired /\ suOp'.step = "final" /\ suOp'.at = suOp.at + 1
      BY <1>1, <2>6, <3>1 DEF Calls
    <3>3. suOp' # NoOp
      BY <3>2, CallIsCall
    <3>4. ControlTyped'
      BY <1>1, <1>2, <2>2, <2>6, <3>2 DEF ControlInv, ControlTyped
    <3>5. CallTrue'
      BY <1>1, <1>2, <2>6, <3>2, <3>3 DEF ControlInv, CallTrue, ApplySteps
    <3>6. LooksTrue'
      <4>1. suCaller' = "login" => \A u \in Units \ suOutside' : RunsAsWanted(u, "new")'
        BY <1>1, <1>2, <2>4, <2>6 DEF RunsAsWanted
      <4>2. \A i \in DOMAIN UnitOrder : i < suOp'.at => i <= suOp.at
        BY <1>1, <1>5, <3>2
      <4>3. \A u \in Units : Found(u) => Found(u)'
        BY <1>1, <1>2, <3>2 DEF Found, RunsAsWanted
      <4>4. \A i \in DOMAIN UnitOrder : UnitOrder[i] \in Units
        BY OrderFacts
      <4>5. \A i \in DOMAIN UnitOrder :
                i < suOp'.at /\ UnitOrder[i] \notin suOutside' => Found(UnitOrder[i])'
        BY <2>3, <4>2, <4>3, <4>4
      <4> QED
        BY <4>1, <4>5 DEF LooksTrue
    <3>7. ServicesAsPromised'
      BY <1>1, <2>6 DEF ServicesAsPromised, Callers
    <3> QED
      BY <1>3, <3>4, <3>5, <3>6, <3>7 DEF ControlInv, ServicesSafe
  <2> QED
    BY <1>6, <2>5, <2>6 DEF FinalLook, Fails
<1> QED
  BY <1>4, <1>6 DEF FinalLook

-----------------------------------------------------------------------------
(* Everybody else.                                                         *)
LEMMA ManagerKilledKeeps == ASSUME ControlInv, ManagerKilled PROVE ControlInv'
<1>1. suOp \in Calls /\ suUnit \in [Units -> UnitTyped] /\ suUnit' = suUnit /\ Here \in Units
      /\ suCaller \in Callers
  BY InCall DEF ManagerKilled
<1>2. suBroken' \subseteq Units /\ suOp' = NoOp /\ suCaller' = "killed"
      /\ UNCHANGED <<suTaken, suWanted, suOutside, suBusy, suInterference>>
  BY <1>1 DEF ManagerKilled, OthersRest, ControlInv, ControlTyped
<1>3. \A u \in Units : suUnit[u].public = "none" => u \in suBroken \/ (InStep("relink") /\ u = Here)
  <2>1. suCaller \notin {"before", "switching", "refused"}
    BY <1>1 DEF Callers
  <2> QED
    BY <2>1 DEF ControlInv, ServicesSafe, EntriesKept
<1>4. EntriesKept'
  BY <1>1, <1>3 DEF EntriesKept, ManagerKilled
<1> QED
  BY <1>1, <1>2, <1>4, CallEnds

LEMMA ServiceSettlesKeeps == ASSUME ControlInv, NEW u \in Units, ServiceSettles(u) PROVE ControlInv'
<1>1. suUnit \in [Units -> UnitTyped] /\ suUnit[u] \in UnitTyped /\ suUnit[u].active = "moving"
  BY DEF ControlInv, ControlTyped, ServiceSettles
<1>2. UNCHANGED <<suOp, suCaller, suTaken, suWanted, suOutside, suBroken, suBusy, suInterference>>
  BY DEF ServiceSettles, OthersRest
<1>3. /\ suUnit' \in [Units -> UnitTyped] /\ suUnit'[u].public = suUnit[u].public
      /\ suUnit'[u].enabled = suUnit[u].enabled
      /\ \A v \in Units : v # u => suUnit'[v] = suUnit[v]
  <2>1. CASE suUnit' = [suUnit EXCEPT ![u].active = "yes"]
    BY <1>1, <2>1 DEF UnitTyped
  <2>2. CASE suUnit' = [suUnit EXCEPT ![u].active = "no", ![u].runs = "none"]
    BY <1>1, <2>2 DEF UnitTyped
  <2> QED
    BY <2>1, <2>2 DEF ServiceSettles
<1>4. ControlTyped'
  BY <1>2, <1>3 DEF ControlInv, ControlTyped
<1>5. CallTrue'
  BY <1>2 DEF ControlInv, CallTrue
<1>6. \A v \in Units, release \in Releases : RunsAsWanted(v, release) => RunsAsWanted(v, release)'
  BY <1>1, <1>2, <1>3 DEF RunsAsWanted
<1>7. LooksTrue'
  <2>1. suCaller = "login" => \A v \in Units \ suOutside : RunsAsWanted(v, "new")'
    BY <1>6 DEF ControlInv, LooksTrue, Releases
  <2>2. \A v \in Units : suOp \in Calls /\ suOp.kind # "apply" /\ Found(v) => Found(v)'
    BY <1>2, <1>3 DEF Found
  <2>3. \A v \in Units : suOp \in Calls /\ suOp.kind = "apply" /\ Found(v) => Found(v)'
    BY <1>2, <1>3, <1>6 DEF Found, Calls
  <2>4. suOp # NoOp => suOp \in Calls
    BY DEF ControlInv, ControlTyped
  <2>5. \A i \in DOMAIN UnitOrder : UnitOrder[i] \in Units
    BY OrderFacts
  <2> QED
    BY <1>2, <2>1, <2>2, <2>3, <2>4, <2>5 DEF ControlInv, LooksTrue
<1>8. ServicesAsPromised'
  <2>1. suCaller \in {"activated", "restored", "stopped"} =>
            \A v \in Units \ suOutside : suUnit[v].active # "moving"
    BY DEF ControlInv, ServicesSafe, ServicesAsPromised
  <2> QED
    BY <1>1, <1>2, <1>3, <2>1 DEF ControlInv, ServicesSafe, ServicesAsPromised
<1>9. EntriesKept'
  BY <1>2, <1>3 DEF ControlInv, ServicesSafe, EntriesKept, InStep, Here
<1> QED
  BY <1>4, <1>5, <1>7, <1>8, <1>9 DEF ControlInv, ServicesSafe

LEMMA WindowKeeps == ASSUME ControlInv, WindowOpensOrCloses PROVE ControlInv'
<1>1. UNCHANGED <<suUnit, suOp, suCaller, suTaken, suWanted, suOutside, suBroken>>
      /\ suBusy' = ~suBusy /\ suInterference' = suInterference + 1
  BY DEF WindowOpensOrCloses
<1>2. ControlTyped'
  <2>1. suBusy' \in BOOLEAN
    BY <1>1 DEF ControlInv, ControlTyped
  <2> QED
    BY <1>1, <2>1 DEF ControlInv, ControlTyped
<1>3. CallTrue' /\ LooksTrue'
  BY <1>1 DEF ControlInv, CallTrue, LooksTrue, Found, RunsAsWanted
<1>4. ServicesAsPromised' /\ EntriesKept'
  BY <1>1 DEF ControlInv, ServicesSafe, ServicesAsPromised, EntriesKept, InStep, Here
<1> QED
  BY <1>2, <1>3, <1>4 DEF ControlInv, ServicesSafe

LEMMA MeddlesKeeps == ASSUME ControlInv, NEW u \in Units, Meddles(u) PROVE ControlInv'
<1>1. suUnit \in [Units -> UnitTyped] /\ suUnit[u] \in UnitTyped /\ suOp \in Calls /\ suOp # NoOp
      /\ suCaller \in Callers
  BY InCall DEF Meddles
<1>2. UNCHANGED <<suOp, suCaller, suTaken, suWanted, suBusy>>
      /\ suOutside' = suOutside \union {u} /\ suInterference' = suInterference + 1
  BY DEF Meddles
<1>3. /\ suUnit' \in [Units -> UnitTyped] /\ \A v \in Units : v # u => suUnit'[v] = suUnit[v]
      /\ suBroken \subseteq suBroken' /\ suBroken' \subseteq suBroken \union {u}
      /\ suUnit'[u].public = "none" => suUnit[u].public = "none" \/ u \in suBroken'
  <2>1. CASE /\ suUnit[u].loaded # "missing" /\ UNCHANGED suBroken
             /\ suUnit' = [suUnit EXCEPT ![u].active = "moving", ![u].runs = suUnit[u].loaded]
    <3>1. [suUnit[u] EXCEPT !.active = "moving", !.runs = suUnit[u].loaded] \in UnitTyped
      BY <1>1, <2>1 DEF UnitTyped
    <3> QED
      BY <1>1, <2>1, <3>1
  <2>2. CASE UNCHANGED suBroken /\ suUnit' = [suUnit EXCEPT ![u].active = "no", ![u].runs = "none"]
    BY <1>1, <2>2 DEF UnitTyped
  <2>3. CASE UNCHANGED suBroken /\ suUnit' = Enabled(u)
    BY <1>1, <2>3, LinkCommands DEF Enabled
  <2>4. CASE suUnit' = Disabled(u) /\ suBroken' = suBroken \union {u}
    BY <1>1, <2>4, LinkCommands
  <2> QED
    BY <2>1, <2>2, <2>3, <2>4 DEF Meddles
<1>4. ControlTyped'
  BY <1>1, <1>2, <1>3 DEF ControlInv, ControlTyped
<1>5. CallTrue'
  BY <1>2 DEF ControlInv, CallTrue
<1>6. LooksTrue'
  <2>1. \A v \in Units \ suOutside', release \in Releases : RunsAsWanted(v, release) => RunsAsWanted(v, release)'
    BY <1>2, <1>3 DEF RunsAsWanted
  <2>2. \A v \in Units \ suOutside' : Found(v) => Found(v)'
    BY <1>1, <1>2, <1>3, <2>1 DEF Found, Calls
  <2>3. \A i \in DOMAIN UnitOrder : UnitOrder[i] \in Units
    BY OrderFacts
  <2>4. suCaller' = "login" => \A v \in Units \ suOutside' : RunsAsWanted(v, "new")'
    BY <1>2, <2>1 DEF ControlInv, LooksTrue, Releases
  <2> QED
    BY <1>1, <1>2, <2>2, <2>3, <2>4 DEF ControlInv, LooksTrue
<1>7. ServicesAsPromised'
  BY <1>1, <1>2 DEF ServicesAsPromised, Callers
<1>8. EntriesKept'
  BY <1>1, <1>2, <1>3 DEF ControlInv, ServicesSafe, EntriesKept, InStep, Here, Callers
<1> QED
  BY <1>4, <1>5, <1>6, <1>7, <1>8 DEF ControlInv, ServicesSafe

-----------------------------------------------------------------------------
(* The calls begin.                                                        *)
LEMMA CallBegins ==
    ASSUME ControlInv, suOp = NoOp, NEW kind \in {"apply", "login"}, NEW release \in Releases,
           suOp' = Op(kind, release, suWanted'), suWanted' \in Wishes,
           suUnit' \in [Units -> UnitTyped],
           suCaller' \in Callers, kind = "login" <=> suCaller' = "login",
           release = "old" => suCaller' = "restoring",
           release = "new" /\ suCaller' = "restoring" => suWanted'.active = {},
           kind = "login" => \A u \in Units \ suOutside' : RunsAsWanted(u, "new")',
           UNCHANGED <<suTaken, suOutside, suBroken, suBusy, suInterference>>,
           \A u \in Units : suUnit'[u].public = "none" => u \in suBroken'
    PROVE  ControlInv'
<1>1. /\ suOp' \in Calls /\ suOp'.kind = kind /\ suOp'.release = release /\ suOp'.desired = suWanted'
      /\ suOp'.step = IF kind = "login" THEN "bind" ELSE "idle"
  BY OrderFacts DEF Op, Calls, ApplySteps, SharedCallSteps
<1>2. suOp' # NoOp
  BY <1>1, CallIsCall
<1>3. ControlTyped'
  BY <1>1 DEF ControlInv, ControlTyped
<1>4. CallTrue'
  BY <1>1, <1>2 DEF CallTrue, ApplySteps
<1>5. LooksTrue'
  BY <1>1 DEF LooksTrue
<1>6. ServicesAsPromised' /\ EntriesKept'
  BY DEF ServicesAsPromised, EntriesKept, Callers
<1> QED
  BY <1>3, <1>4, <1>5, <1>6 DEF ControlInv, ServicesSafe

(* Between two calls every entry that is gone is accounted for.            *)
LEMMA Between ==
    ASSUME ControlInv, suCaller \notin Callers
    PROVE  /\ suOp = NoOp /\ suUnit \in [Units -> UnitTyped]
           /\ suCaller \notin {"before", "switching", "refused"} =>
                \A u \in Units : suUnit[u].public = "none" => u \in suBroken
<1>1. suOp = NoOp /\ suUnit \in [Units -> UnitTyped]
  BY DEF ControlInv, CallTrue, ControlTyped
<1> QED
  BY <1>1 DEF ControlInv, ServicesSafe, EntriesKept, InStep, NoOp

LEMMA TakeSnapshotKeeps == ASSUME ControlInv, TakeSnapshot PROVE ControlInv'
<1>1. suCaller = "before" /\ suCaller' \in {"switching", "refused"} /\ suOp' = suOp
      /\ UNCHANGED <<suUnit, suWanted, suOutside, suBroken, suBusy, suInterference>>
  BY DEF TakeSnapshot, OthersRest
<1>2. suOp = NoOp
  BY <1>1, Between DEF Callers
<1>3. suTaken' \in Wishes
  <2> DEFINE first == \A u \in Units : suUnit[u].public = "none"
  <2>1. first \in BOOLEAN
    OBVIOUS
  <2> HIDE DEF first
  <2>2. [enabled |-> {u \in Units : suUnit[u].enabled}, active |-> {u \in Units : suUnit[u].active = "yes"},
         first |-> first] \in Wishes
    BY <2>1 DEF Wishes
  <2> QED
    BY <2>2 DEF TakeSnapshot, first, ControlInv, ControlTyped
<1>4. ControlTyped'
  BY <1>1, <1>3 DEF ControlInv, ControlTyped
<1>5. CallTrue' /\ LooksTrue'
  BY <1>1, <1>2 DEF CallTrue, LooksTrue, Callers
<1>6. ServicesAsPromised' /\ EntriesKept'
  BY <1>1 DEF ServicesAsPromised, EntriesKept
<1> QED
  BY <1>4, <1>5, <1>6 DEF ControlInv, ServicesSafe

LEMMA SwitchEntriesKeeps ==
    ASSUME ControlInv, NEW optedOut \in BOOLEAN, SwitchEntries(optedOut) PROVE ControlInv'
<1>1. suCaller = "switching" /\ suCaller' = "activating" /\ suOp = NoOp /\ suTaken \in Wishes
      /\ suUnit \in [Units -> UnitTyped]
      /\ UNCHANGED <<suTaken, suOutside, suBroken, suBusy, suInterference>>
  BY Between DEF SwitchEntries, OthersRest, Callers, ControlInv, ControlTyped
<1>2. suWanted' \in Wishes
  BY <1>1 DEF SwitchEntries, Desired, Wishes
<1>3. suUnit' \in [Units -> UnitTyped] /\ \A u \in Units : suUnit'[u].public # "none"
  <2>1. \A u \in Units : suUnit[u] \in UnitTyped
    BY <1>1
  <2>2. \A u \in Units :
            [suUnit[u] EXCEPT !.public = IF @ \in {"old", "none"} THEN "new" ELSE @] \in UnitTyped
    BY <2>1 DEF UnitTyped, Releases
  <2>3. \A u \in Units :
            [suUnit[u] EXCEPT !.public = IF @ \in {"old", "none"} THEN "new" ELSE @].public # "none"
    BY <2>1 DEF UnitTyped
  <2> QED
    BY <2>2, <2>3 DEF SwitchEntries
<1>4. suOp' = Op("apply", "new", suWanted')
  BY DEF SwitchEntries
<1> QED
  BY <1>1, <1>2, <1>3, <1>4, CallBegins DEF Callers, Releases

LEMMA RollbackKeeps == ASSUME ControlInv, Rollback PROVE ControlInv'
<1>1. suCaller = "rollback" /\ suCaller' = "restoring" /\ suOp = NoOp /\ suTaken \in Wishes
      /\ suUnit \in [Units -> UnitTyped]
      /\ UNCHANGED <<suTaken, suOutside, suBroken, suBusy, suInterference>>
  BY Between DEF Rollback, OthersRest, Callers, ControlInv, ControlTyped
<1>2. \A u \in Units : suUnit[u].public = "none" => u \in suBroken
  BY <1>1, Between DEF Callers
<1>3. CASE suWanted' = NoTaking /\ suOp' = Op("apply", "new", NoTaking) /\ UNCHANGED suUnit
  <2>1. NoTaking \in Wishes /\ NoTaking.active = {}
    BY DEF NoTaking, Wishes
  <2> QED
    BY <1>1, <1>2, <1>3, <2>1, CallBegins DEF Callers, Releases
<1>4. CASE /\ suWanted' = suTaken /\ suOp' = Op("apply", "old", suTaken)
           /\ suUnit' = [u \in Units |-> [suUnit[u] EXCEPT !.public = IF @ = "new" THEN "old" ELSE @]]
  <2>1. suUnit' \in [Units -> UnitTyped]
        /\ \A u \in Units : suUnit'[u].public = "none" => suUnit[u].public = "none"
    <3>1. \A u \in Units : suUnit[u] \in UnitTyped
      BY <1>1
    <3>2. \A u \in Units : [suUnit[u] EXCEPT !.public = IF @ = "new" THEN "old" ELSE @] \in UnitTyped
      BY <3>1 DEF UnitTyped, Releases
    <3>3. \A u \in Units : [suUnit[u] EXCEPT !.public = IF @ = "new" THEN "old" ELSE @].public = "none"
                             => suUnit[u].public = "none"
      BY <3>1 DEF UnitTyped
    <3> QED
      BY <1>4, <3>2, <3>3
  <2> QED
    BY <1>1, <1>2, <1>4, <2>1, CallBegins DEF Callers, Releases
<1> QED
  BY <1>3, <1>4 DEF Rollback

LEMMA AfterActivationKeeps ==
    ASSUME ControlInv, Uninstall \/ \E enabled \in SUBSET Units : ChangeLogin(enabled)
    PROVE  ControlInv'
<1>1. suCaller = "activated" /\ suOp = NoOp /\ suWanted \in Wishes /\ suUnit \in [Units -> UnitTyped]
      /\ UNCHANGED <<suUnit, suTaken, suOutside, suBroken, suBusy, suInterference>>
  BY Between DEF Uninstall, ChangeLogin, OthersRest, Callers, ControlInv, ControlTyped
<1>2. \A u \in Units : suUnit[u].public = "none" => u \in suBroken
  BY <1>1, Between DEF Callers
<1>3. CASE Uninstall
  <2>1. suCaller' = "stopping" /\ suWanted' = NoTaking /\ suOp' = Op("apply", "new", NoTaking)
        /\ NoTaking \in Wishes
    BY <1>3 DEF Uninstall, NoTaking, Wishes
  <2> QED
    BY <1>1, <1>2, <2>1, CallBegins DEF Callers, Releases
<1>4. ASSUME NEW enabled \in SUBSET Units, ChangeLogin(enabled) PROVE ControlInv'
  <2>1. suCaller' = "login" /\ suOp' = Op("login", "new", suWanted')
        /\ suWanted' = [suWanted EXCEPT !.enabled = enabled]
    BY <1>4 DEF ChangeLogin
  <2>2. suWanted' \in Wishes /\ suWanted'.active = suWanted.active
    BY <1>1, <2>1 DEF Wishes
  <2>3. \A u \in Units \ suOutside' : RunsAsWanted(u, "new")'
    BY <1>1, <2>2 DEF ControlInv, ServicesSafe, ServicesAsPromised, RunsAsWanted
  <2> QED
    BY <1>1, <1>2, <2>1, <2>2, <2>3, CallBegins DEF Callers, Releases
<1> QED
  BY <1>3, <1>4

-----------------------------------------------------------------------------
LEMMA ControlInitInv == ASSUME UnitInit PROVE ControlInv
<1>1. suUnit \in [Units -> UnitTyped]
  <2>1. \A enabled, active \in SUBSET Units : UnitsUnder("old", enabled, active) \in [Units -> UnitTyped]
    <3> TAKE enabled, active \in SUBSET Units
    <3>1. \A u \in Units : (u \in enabled) \in BOOLEAN
      OBVIOUS
    <3> QED
      BY <3>1 DEF UnitsUnder, UnitTyped, Releases
  <2>2. UnitsUnder("none", {}, {}) \in [Units -> UnitTyped]
    BY DEF UnitsUnder, UnitTyped
  <2>3. ASSUME NEW u \in Units
        PROVE  [UnitsUnder("old", {}, {}) EXCEPT ![u].public = "foreign", ![u].loaded = "foreign"]
                 \in [Units -> UnitTyped]
    <3>1. UnitsUnder("old", {}, {}) \in [Units -> UnitTyped]
      BY <2>1
    <3> QED
      BY <3>1 DEF UnitTyped
  <2>4. \/ \E enabled, active \in SUBSET Units : suUnit = UnitsUnder("old", enabled, active)
        \/ suUnit = UnitsUnder("none", {}, {})
        \/ \E u \in Units :
             suUnit = [UnitsUnder("old", {}, {}) EXCEPT ![u].public = "foreign", ![u].loaded = "foreign"]
    BY DEF UnitInit
  <2>5. ASSUME NEW u \in Units,
               suUnit = [UnitsUnder("old", {}, {}) EXCEPT ![u].public = "foreign", ![u].loaded = "foreign"]
        PROVE  suUnit \in [Units -> UnitTyped]
    BY <2>3, <2>5, Zenon
  <2>6. CASE \E enabled, active \in SUBSET Units : suUnit = UnitsUnder("old", enabled, active)
    BY <2>1, <2>6
  <2>7. CASE suUnit = UnitsUnder("none", {}, {})
    BY <2>2, <2>7
  <2> QED
    BY <2>4, <2>5, <2>6, <2>7
<1>2. ControlTyped
  BY <1>1, UnitControlAssumption DEF UnitInit, ControlTyped, NoTaking, Wishes
<1>3. CallTrue /\ LooksTrue
  BY DEF UnitInit, CallTrue, LooksTrue, Callers
<1>4. ServicesAsPromised /\ EntriesKept
  BY DEF UnitInit, ServicesAsPromised, EntriesKept
<1> QED
  BY <1>2, <1>3, <1>4 DEF ControlInv, ServicesSafe

LEMMA ControlNextInv == ASSUME ControlInv, [UnitNext]_suVars PROVE ControlInv'
<1>1. CASE UNCHANGED suVars
  <2>1. ControlTyped'
    BY <1>1 DEF ControlInv, ControlTyped, suVars
  <2>2. CallTrue' /\ LooksTrue'
    BY <1>1 DEF ControlInv, CallTrue, LooksTrue, Found, RunsAsWanted, suVars
  <2>3. ServicesAsPromised' /\ EntriesKept'
    BY <1>1 DEF ControlInv, ServicesSafe, ServicesAsPromised, EntriesKept, InStep, Here, suVars
  <2> QED
    BY <2>1, <2>2, <2>3 DEF ControlInv, ServicesSafe
<1>2. CASE TakeSnapshot \/ Rollback \/ Uninstall \/ (\E optedOut \in BOOLEAN : SwitchEntries(optedOut))
           \/ (\E enabled \in SUBSET Units : ChangeLogin(enabled))
  BY <1>2, TakeSnapshotKeeps, RollbackKeeps, SwitchEntriesKeeps, AfterActivationKeeps
<1>3. CASE EnsureIdle \/ Reload("bind") \/ Reload("bind again") \/ BindUnit("bind") \/ BindUnit("bind again")
  BY <1>3, EnsureIdleKeeps, ReloadKeeps, BindUnitKeeps
<1>4. CASE LinkKept \/ ChangeLink \/ Relink \/ StopUnit \/ StartUnit \/ WaitRunning \/ FinalLook
  BY <1>4, LinkKeptKeeps, ChangeLinkKeeps, RelinkKeeps, StopUnitKeeps, StartUnitKeeps, WaitRunningKeeps,
     FinalLookKeeps
<1>5. CASE ManagerKilled \/ WindowOpensOrCloses \/ \E u \in Units : ServiceSettles(u) \/ Meddles(u)
  BY <1>5, ManagerKilledKeeps, WindowKeeps, ServiceSettlesKeeps, MeddlesKeeps
<1> QED
  BY <1>1, <1>2, <1>3, <1>4, <1>5 DEF UnitNext

LEMMA ControlKeepsInv == UnitSpec => []ControlInv
<1>1. UnitInit => ControlInv
  BY ControlInitInv
<1>2. ControlInv /\ [UnitNext]_suVars => ControlInv'
  BY ControlNextInv
<1> QED
  BY <1>1, <1>2, PTL DEF UnitSpec

LEMMA ControlMeans == ASSUME ControlInv PROVE UnitTypeOK /\ ServicesSafe
<1>1. \A u \in Units : suUnit[u] \in UnitTyped
  BY DEF ControlInv, ControlTyped
<1>2. suOp # NoOp => suOp.at \in DOMAIN UnitOrder
  BY DEF ControlInv, ControlTyped, Calls
<1>3. UnitTypeOK
  BY <1>1, <1>2 DEF ControlInv, ControlTyped, UnitTypeOK, UnitTyped, Callers
<1> QED
  BY <1>3 DEF ControlInv

(* A call that reports success leaves every service as it was asked for,  *)
(* and no service loses its entry by a call that fails at any of its       *)
(* commands, whatever the user does meanwhile and wherever the release     *)
(* manager is killed (apply, set_enabled of release_services.rs).          *)
THEOREM UnitsKeep == UnitSpec => [](UnitTypeOK /\ ServicesSafe)
<1>1. ControlInv => UnitTypeOK /\ ServicesSafe
  BY ControlMeans
<1> QED
  BY <1>1, ControlKeepsInv, PTL

-----------------------------------------------------------------------------
(* A recognition request.                                                  *)
RunPhases == {"none", "wanted", "timed", "alive", "lingering", "over"}
Readings == Good \cup {"none", "failed", "missing", "timeout", "stopped"}
RunRecords == [phase : RunPhases, until : 0 .. MaxTime, got : Readings]
Stages == {"ocr", "remote", "seeing", "local", "candidate", "render", "reading", "layout",
           "judge", "returned", "model", "answering"}

RequestTyped ==
    /\ rqNow \in 0 .. MaxTime /\ rqCancelled \in BOOLEAN
    /\ rqTotal = OcrBudget + ApiBudget /\ rqUntil \in 0 .. rqTotal
    /\ rqPc \in Stages
    /\ rqCall \in [out : BOOLEAN, until : Nat]
    /\ rqLocal \in 0 .. MaxTime /\ rqLocal <= rqNow + LocalCap /\ rqAllow \in 0 .. LocalCap
    /\ rqKids \in [Runs -> RunRecords]
    /\ rqModel \in 0 .. ModelCount + 1
    /\ rqResult \in [what : {"none", "text", "error", "refused", "stopped"}, at : Nat]

(* What is out is what the step waits for: a call until the end of the     *)
(* stage, or runs of tesseract.                                            *)
Outstanding ==
    /\ rqCall.out => rqPc \in {"seeing", "answering"} /\ rqCall.until = rqUntil /\ rqNow <= rqUntil
    /\ rqPc \notin {"reading", "layout"} => rqKids = NoKids
    /\ rqPc = "answering" => rqModel \in 1 .. ModelCount
    /\ rqPc = "model" => rqModel # 0

(* A process has until the end of the stage, or no time at all.            *)
RunsEnd ==
    \A run \in Runs : Running(run) =>
        /\ rqKids[run].until <= rqUntil \/ rqKids[run].until = rqNow
        /\ rqNow > rqUntil => rqKids[run].until = rqNow

TextInTime == rqResult.what = "text" => rqResult.at < rqUntil

RequestInv == RequestTyped /\ Outstanding /\ RunsEnd /\ TextInTime

LEMMA RecognitionFacts ==
    /\ OcrBudget \in Nat \ {0} /\ ApiBudget \in Nat \ {0} /\ LocalCap \in Nat \ {0}
    /\ ModelCount \in Nat \ {0} /\ MaxTime \in Nat \ {0} /\ OcrBudget + ApiBudget < MaxTime
BY RecognitionAssumption

LEMMA NoRunsRun ==
    /\ NoKids \in [Runs -> RunRecords]
    /\ \A run \in Runs : NoKids[run] = NoRun /\ NoRun.phase = "none"
<1>1. NoRun \in RunRecords /\ NoRun.phase = "none"
  BY RecognitionFacts DEF NoRun, RunRecords, RunPhases, Readings
<1> QED
  BY <1>1 DEF NoKids

(* What a stage returns: a text only before its end.                       *)
LEMMA StageEnds ==
    ASSUME RequestInv, KeepClock, NEW what \in {"none", "text", "error", "refused", "stopped"},
           EndStage(what)
    PROVE  /\ rqPc' = "returned" /\ TextInTime'
           /\ rqResult' \in [what : {"none", "text", "error", "refused", "stopped"}, at : Nat]
<1>1. rqNow \in Nat /\ rqUntil \in Nat
  BY RecognitionFacts DEF RequestInv, RequestTyped
<1>2. rqResult' = [what |-> IF Stopped THEN "stopped" ELSE what, at |-> rqNow] /\ rqPc' = "returned"
      /\ rqUntil' = rqUntil
  BY DEF EndStage, KeepClock
<1>3. TextInTime'
  BY <1>1, <1>2 DEF TextInTime, Stopped, Expired
<1> QED
  BY <1>1, <1>2, <1>3

(* A step of the worker that leaves no run, after which what is out        *)
(* is what the next step waits for.                                        *)
LEMMA WorkerStep ==
    ASSUME RequestInv, KeepClock, rqKids' = NoKids,
           rqPc' \in Stages, rqPc' = "answering" => rqModel' \in 1 .. ModelCount,
           rqPc' = "model" => rqModel' # 0,
           rqCall' \in [out : BOOLEAN, until : Nat],
           rqCall'.out => rqPc' \in {"seeing", "answering"} /\ rqCall'.until = rqUntil /\ rqNow <= rqUntil,
           rqLocal' \in 0 .. MaxTime /\ rqLocal' <= rqNow + LocalCap /\ rqAllow' \in 0 .. LocalCap,
           rqModel' \in 0 .. ModelCount + 1,
           rqResult' = rqResult \/ (TextInTime' /\
             rqResult' \in [what : {"none", "text", "error", "refused", "stopped"}, at : Nat])
    PROVE  RequestInv'
<1>1. UNCHANGED <<rqNow, rqCancelled, rqTotal, rqUntil>>
  BY DEF KeepClock
<1>2. RequestTyped'
  BY <1>1, NoRunsRun DEF RequestInv, RequestTyped
<1>3. Outstanding'
  BY <1>1 DEF Outstanding
<1>4. RunsEnd'
  BY NoRunsRun DEF RunsEnd, Running, Kid
<1>5. TextInTime'
  BY <1>1 DEF RequestInv, TextInTime
<1> QED
  BY <1>2, <1>3, <1>4, <1>5 DEF RequestInv

(* The facts of a step without runs.                                       *)
LEMMA Resting ==
    ASSUME RequestInv, rqPc \notin {"reading", "layout"}
    PROVE  /\ rqKids = NoKids /\ rqLocal \in 0 .. MaxTime /\ rqLocal <= rqNow + LocalCap
           /\ rqAllow \in 0 .. LocalCap /\ rqModel \in 0 .. ModelCount + 1
           /\ rqCall \in [out : BOOLEAN, until : Nat]
           /\ rqCall.out => rqPc \in {"seeing", "answering"}
           /\ rqNow \in Nat /\ rqUntil \in Nat /\ rqPc \in Stages
BY RecognitionFacts DEF RequestInv, RequestTyped, Outstanding

LEMMA BeginRecognitionKeeps == ASSUME RequestInv, BeginRecognition PROVE RequestInv'
<1>1. rqPc = "ocr" /\ KeepClock /\ UNCHANGED <<rqCall, rqLocal, rqAllow, rqKids, rqModel>>
  BY DEF BeginRecognition, In, work
<1>2. rqPc' \in {"remote", "local", "returned"} /\ (rqResult' = rqResult \/ (TextInTime' /\
             rqResult' \in [what : {"none", "text", "error", "refused", "stopped"}, at : Nat]))
  BY <1>1, StageEnds DEF BeginRecognition
<1> QED
  BY <1>1, <1>2, Resting, WorkerStep DEF Stages

LEMMA AskVisionKeeps == ASSUME RequestInv, AskVision PROVE RequestInv'
<1>1. rqPc = "remote" /\ KeepClock /\ UNCHANGED <<rqLocal, rqAllow, rqKids, rqModel>>
  BY DEF AskVision, In, work
<1>2. rqNow \in Nat /\ rqUntil \in Nat /\ ~rqCall.out
  BY <1>1, Resting
<1>3. CASE ~Stopped /\ AskNext("seeing") /\ UNCHANGED rqResult
  <2>1. rqNow < rqUntil
    BY <1>2, <1>3 DEF Stopped, Expired
  <2>2. rqCall' \in [out : BOOLEAN, until : Nat] /\ rqCall'.until = rqUntil /\ rqNow <= rqUntil
        /\ rqPc' = "seeing"
    BY <1>2, <1>3, <2>1 DEF AskNext
  <2> QED
    BY <1>1, <1>3, <2>2, Resting, WorkerStep DEF Stages
<1>4. CASE ~(~Stopped /\ AskNext("seeing") /\ UNCHANGED rqResult)
  <2>1. rqPc' \in {"local", "returned"} /\ rqCall' = rqCall /\ (rqResult' = rqResult \/ (TextInTime' /\
             rqResult' \in [what : {"none", "text", "error", "refused", "stopped"}, at : Nat]))
    BY <1>1, <1>4, StageEnds DEF AskVision
  <2> QED
    BY <1>1, <1>2, <2>1, Resting, WorkerStep DEF Stages
<1> QED
  BY <1>3, <1>4

LEMMA VisionAnswersKeeps == ASSUME RequestInv, VisionAnswers PROVE RequestInv'
<1>1. rqPc = "seeing" /\ KeepClock /\ UNCHANGED <<rqLocal, rqAllow, rqKids, rqModel>> /\ rqCall' = NoCall
  BY DEF VisionAnswers, In, work
<1>2. rqPc' \in {"local", "returned"} /\ (rqResult' = rqResult \/ (TextInTime' /\
             rqResult' \in [what : {"none", "text", "error", "refused", "stopped"}, at : Nat]))
  BY <1>1, StageEnds DEF VisionAnswers
<1>3. NoCall \in [out : BOOLEAN, until : Nat] /\ ~NoCall.out
  BY DEF NoCall
<1> QED
  BY <1>1, <1>2, <1>3, Resting, WorkerStep DEF Stages

LEMMA BeginLocalKeeps == ASSUME RequestInv, BeginLocal PROVE RequestInv'
<1>1. rqPc = "local" /\ KeepClock /\ UNCHANGED <<rqCall, rqAllow, rqKids, rqModel>>
  BY DEF BeginLocal, In
<1>2. rqPc' \in {"candidate", "returned"} /\ (rqResult' = rqResult \/ (TextInTime' /\
             rqResult' \in [what : {"none", "text", "error", "refused", "stopped"}, at : Nat]))
  BY <1>1, StageEnds DEF BeginLocal
<1>3. rqLocal' \in {rqLocal, Sooner(rqNow + LocalCap, rqUntil)}
  BY DEF BeginLocal
<1>4. rqLocal' \in 0 .. MaxTime /\ rqLocal' <= rqNow + LocalCap
  BY <1>3, RecognitionFacts DEF RequestInv, RequestTyped, Sooner
<1> QED
  BY <1>1, <1>2, <1>4, Resting, WorkerStep DEF Stages

LEMMA NextCandidateKeeps == ASSUME RequestInv, NextCandidate PROVE RequestInv'
<1>1. rqPc = "candidate" /\ KeepClock /\ UNCHANGED <<rqCall, rqLocal, rqAllow, rqKids, rqModel>>
  BY DEF NextCandidate, In, work
<1>2. rqPc' \in {"judge", "render", "returned"} /\ (rqResult' = rqResult \/ (TextInTime' /\
             rqResult' \in [what : {"none", "text", "error", "refused", "stopped"}, at : Nat]))
  BY <1>1, StageEnds DEF NextCandidate
<1> QED
  BY <1>1, <1>2, Resting, WorkerStep DEF Stages

LEMMA JudgeKeeps == ASSUME RequestInv, Judge PROVE RequestInv'
<1>1. rqPc = "judge" /\ KeepClock /\ UNCHANGED <<rqCall, rqLocal, rqAllow, rqKids, rqModel>>
  BY DEF Judge, In, work
<1>2. rqPc' = "returned" /\ TextInTime' /\
             rqResult' \in [what : {"none", "text", "error", "refused", "stopped"}, at : Nat]
  BY <1>1, StageEnds DEF Judge
<1> QED
  BY <1>1, <1>2, Resting, WorkerStep DEF Stages

LEMMA AskModelKeeps == ASSUME RequestInv, AskModel PROVE RequestInv'
<1>1. rqPc = "model" /\ KeepClock /\ UNCHANGED <<rqLocal, rqAllow, rqKids, rqModel>>
  BY DEF AskModel, In, work
<1>2. rqNow \in Nat /\ rqUntil \in Nat /\ ~rqCall.out /\ rqModel \in 0 .. ModelCount + 1
  BY <1>1, Resting
<1>3. CASE ~Stopped /\ rqModel <= ModelCount /\ AskNext("answering") /\ UNCHANGED rqResult
  <2>1. rqNow < rqUntil
    BY <1>2, <1>3 DEF Stopped, Expired
  <2>2. rqCall' \in [out : BOOLEAN, until : Nat] /\ rqCall'.until = rqUntil /\ rqNow <= rqUntil
        /\ rqPc' = "answering"
    BY <1>2, <1>3, <2>1 DEF AskNext
  <2>3. rqModel \in 1 .. ModelCount
    BY <1>1, <1>2, <1>3, RecognitionFacts DEF RequestInv, Outstanding
  <2> QED
    BY <1>1, <1>3, <2>2, <2>3, Resting, WorkerStep DEF Stages
<1>4. CASE ~(~Stopped /\ rqModel <= ModelCount /\ AskNext("answering") /\ UNCHANGED rqResult)
  <2>1. rqPc' = "returned" /\ rqCall' = rqCall /\ TextInTime' /\
             rqResult' \in [what : {"none", "text", "error", "refused", "stopped"}, at : Nat]
    BY <1>1, <1>4, StageEnds DEF AskModel
  <2> QED
    BY <1>1, <1>2, <2>1, Resting, WorkerStep DEF Stages
<1> QED
  BY <1>3, <1>4

LEMMA ModelAnswersKeeps == ASSUME RequestInv, ModelAnswers PROVE RequestInv'
<1>1. rqPc = "answering" /\ KeepClock /\ UNCHANGED <<rqLocal, rqAllow, rqKids>> /\ rqCall' = NoCall
      /\ rqModel \in 1 .. ModelCount
  BY DEF ModelAnswers, In, RequestInv, Outstanding
<1>2. rqPc' \in {"model", "returned"} /\ (rqResult' = rqResult \/ (TextInTime' /\
             rqResult' \in [what : {"none", "text", "error", "refused", "stopped"}, at : Nat]))
  BY <1>1, StageEnds DEF ModelAnswers
<1>3. NoCall \in [out : BOOLEAN, until : Nat] /\ ~NoCall.out
  BY DEF NoCall
<1>4. rqModel' \in {rqModel, rqModel + 1}
  BY DEF ModelAnswers
<1>5. rqModel' \in 0 .. ModelCount + 1 /\ rqModel' # 0
  BY <1>1, <1>4, RecognitionFacts
<1> QED
  BY <1>1, <1>2, <1>3, <1>5, Resting, WorkerStep DEF Stages

(* The runs.  A step of one run keeps the others and the worker; the worker *)
(* waits for them in "reading" and "layout".                               *)
LEMMA AskedIn ==
    ASSUME NEW runs \in SUBSET Runs
    PROVE  Asked(runs) \in [Runs -> RunRecords] /\ \A run \in Runs : Asked(runs)[run].phase \in {"wanted", "none"}
<1>1. NoRun \in RunRecords /\ NoRun.phase = "none"
  BY NoRunsRun DEF NoRun, RunRecords, RunPhases, Readings, Runs
<1>2. [NoRun EXCEPT !.phase = "wanted"] \in RunRecords /\ [NoRun EXCEPT !.phase = "wanted"].phase = "wanted"
  BY <1>1 DEF RunRecords, RunPhases
<1> QED
  BY <1>1, <1>2 DEF Asked

(* A step of the worker after which nothing runs yet.                      *)
LEMMA ReadingStep ==
    ASSUME RequestInv, KeepClock, rqPc \notin {"seeing", "answering"}, rqPc' \in {"reading", "layout"},
           rqKids' \in [Runs -> RunRecords], \A run \in Runs : rqKids'[run].phase \in {"wanted", "none", "over"},
           rqAllow' \in 0 .. LocalCap, UNCHANGED <<rqCall, rqLocal, rqModel, rqResult>>
    PROVE  RequestInv'
<1>1. UNCHANGED <<rqNow, rqCancelled, rqTotal, rqUntil>>
  BY DEF KeepClock
<1>2. RequestTyped'
  BY <1>1 DEF RequestInv, RequestTyped, Stages
<1>3. Outstanding'
  BY DEF RequestInv, Outstanding
<1>4. RunsEnd'
  BY DEF RunsEnd, Running, Kid
<1>5. TextInTime'
  BY <1>1 DEF RequestInv, TextInTime
<1> QED
  BY <1>2, <1>3, <1>4, <1>5 DEF RequestInv

LEMMA AllowIn ==
    ASSUME RequestInv, ~LocalOver PROVE rqLocal - rqNow \in 0 .. LocalCap
BY RecognitionFacts DEF LocalOver, RequestInv, RequestTyped

LEMMA RenderedKeeps == ASSUME RequestInv, Rendered PROVE RequestInv'
<1>1. rqPc = "render" /\ KeepClock /\ UNCHANGED <<rqCall, rqLocal, rqModel>> /\ ~rqCall.out
  BY DEF Rendered, In, RequestInv, Outstanding
<1>2. CASE rqAllow' = rqLocal - rqNow /\ rqPc' = "reading" /\ UNCHANGED rqResult /\ ~LocalOver
           /\ \E runs \in SUBSET Runs : rqKids' = Asked(runs)
  <2>1. rqAllow' \in 0 .. LocalCap
    BY <1>2, AllowIn
  <2>2. rqKids' \in [Runs -> RunRecords] /\ \A run \in Runs : rqKids'[run].phase \in {"wanted", "none", "over"}
    BY <1>2, AskedIn
  <2> QED
    BY <1>1, <1>2, <2>1, <2>2, ReadingStep
<1>3. CASE rqPc' = "judge" /\ UNCHANGED <<rqResult, rqAllow, rqKids>>
  BY <1>1, <1>3, Resting, WorkerStep DEF Stages
<1>4. CASE EndStage("stopped") /\ UNCHANGED <<rqAllow, rqKids>>
  BY <1>1, <1>4, StageEnds, Resting, WorkerStep DEF Stages
<1>5. {"primary"} \in SUBSET Runs /\ Runs \in SUBSET Runs
  BY DEF Runs
<1> QED
  BY <1>2, <1>3, <1>4, <1>5 DEF Rendered

LEMMA BecomesKeeps ==
    ASSUME RequestInv, NEW run \in Runs, NEW value \in RunRecords, Becomes(run, value), ~Kid(run, "none"),
           value.phase \in {"alive", "lingering"} =>
             /\ value.until <= rqUntil \/ value.until = rqNow
             /\ rqNow > rqUntil => value.until = rqNow
    PROVE  RequestInv'
<1>1. UNCHANGED <<rqNow, rqCancelled, rqTotal, rqUntil, rqPc, rqCall, rqLocal, rqAllow, rqModel, rqResult>>
      /\ rqKids' = [rqKids EXCEPT ![run] = value]
  BY DEF Becomes, KeepClock
<1>2. rqKids \in [Runs -> RunRecords] /\ rqKids' \in [Runs -> RunRecords]
  BY <1>1 DEF RequestInv, RequestTyped
<1>3. rqPc \in {"reading", "layout"}
  BY NoRunsRun DEF RequestInv, Outstanding, Kid
<1>4. RequestTyped'
  BY <1>1, <1>2 DEF RequestInv, RequestTyped
<1>5. Outstanding'
  BY <1>1, <1>3 DEF RequestInv, Outstanding
<1>6. RunsEnd'
  <2>1. ASSUME NEW other \in Runs, Running(other)'
        PROVE  /\ rqKids'[other].until <= rqUntil' \/ rqKids'[other].until = rqNow'
               /\ rqNow' > rqUntil' => rqKids'[other].until = rqNow'
    <3>1. CASE other = run
      BY <1>1, <1>2, <2>1, <3>1 DEF Running, Kid
    <3>2. CASE other # run
      BY <1>1, <1>2, <2>1, <3>2 DEF RequestInv, RunsEnd, Running, Kid
    <3> QED
      BY <3>1, <3>2
  <2> QED
    BY <2>1 DEF RunsEnd
<1>7. TextInTime'
  BY <1>1 DEF RequestInv, TextInTime
<1> QED
  BY <1>4, <1>5, <1>6, <1>7 DEF RequestInv

LEMMA OverIn ==
    ASSUME NEW got \in Readings
    PROVE  Over(got) \in RunRecords /\ Over(got).phase = "over"
BY RecognitionFacts DEF Over, RunRecords, RunPhases, Readings

LEMMA RunStepKeeps ==
    ASSUME RequestInv, NEW run \in Runs,
           TakeTime(run) \/ Spawn(run) \/ KidExits(run) \/ KidLingers(run) \/ KillGroup(run)
    PROVE  RequestInv'
<1>1. rqKids[run] \in RunRecords /\ rqNow \in 0 .. MaxTime /\ rqUntil \in 0 .. MaxTime
      /\ rqAllow \in 0 .. LocalCap
  BY RecognitionFacts DEF RequestInv, RequestTyped
<1>2. \A got \in Readings : ~Kid(run, "none") /\ Becomes(run, Over(got)) => RequestInv'
  BY BecomesKeeps, OverIn
<1>3. CASE TakeTime(run)
  <2> DEFINE value == [phase |-> "timed", until |-> Sooner(rqNow + rqAllow, rqUntil), got |-> "none"]
  <2>1. value \in RunRecords /\ value.phase = "timed"
    BY <1>1, RecognitionFacts DEF RunRecords, RunPhases, Readings, Sooner
  <2>2. ~Kid(run, "none") /\ (Becomes(run, Over("stopped")) \/ Becomes(run, value))
    BY <1>3 DEF TakeTime, Kid
  <2> HIDE DEF value
  <2>3. "stopped" \in Readings
    BY DEF Readings
  <2> QED
    BY <1>2, <2>1, <2>2, <2>3, BecomesKeeps
<1>4. CASE Spawn(run)
  <2> DEFINE value == [phase |-> "alive", until |-> Deadline(run), got |-> "none"]
  <2>1. Deadline(run) \in 0 .. MaxTime
    BY <1>1 DEF Deadline, Sooner, RunRecords
  <2>2. /\ Deadline(run) <= rqUntil \/ Deadline(run) = rqNow
        /\ rqNow > rqUntil => Deadline(run) = rqNow
    BY <1>1, RecognitionFacts DEF Deadline, Sooner, RunRecords, Stopped, Expired
  <2>3. value \in RunRecords /\ value.until = Deadline(run)
    BY <2>1 DEF RunRecords, RunPhases, Readings
  <2>4. CASE Becomes(run, value)
    <3>1. ~Kid(run, "none")
      BY <1>4 DEF Spawn, Kid
    <3> HIDE DEF value
    <3> QED
      BY <2>2, <2>3, <2>4, <3>1, BecomesKeeps
  <2>5. ASSUME NEW got \in {"missing", "failed"},
               Becomes(run, [phase |-> "over", until |-> 0, got |-> got])
        PROVE  RequestInv'
    <3>1. [phase |-> "over", until |-> 0, got |-> got] \in RunRecords
      BY RecognitionFacts DEF RunRecords, RunPhases, Readings
    <3>2. ~Kid(run, "none")
      BY <1>4 DEF Spawn, Kid
    <3> QED
      BY <2>5, <3>1, <3>2, BecomesKeeps
  <2> QED
    BY <1>4, <2>4, <2>5 DEF Spawn
<1>5. CASE KidExits(run)
  <2>1. PICK got \in {"weak", "strong", "empty", "failed"} : Becomes(run, Over(got)) /\ ~Kid(run, "none")
    BY <1>5 DEF KidExits, Kid
  <2> QED
    BY <1>2, <2>1 DEF Readings, Good
<1>6. CASE KidLingers(run)
  <2>1. Running(run) /\ ~Kid(run, "none") /\ Becomes(run, [rqKids[run] EXCEPT !.phase = "lingering"])
    BY <1>6 DEF KidLingers, Running, Kid
  <2>2. [rqKids[run] EXCEPT !.phase = "lingering"] \in RunRecords
        /\ [rqKids[run] EXCEPT !.phase = "lingering"].until = rqKids[run].until
    BY <1>1 DEF RunRecords, RunPhases
  <2>3. /\ rqKids[run].until <= rqUntil \/ rqKids[run].until = rqNow
        /\ rqNow > rqUntil => rqKids[run].until = rqNow
    BY <2>1 DEF RequestInv, RunsEnd
  <2> QED
    BY <2>1, <2>2, <2>3, BecomesKeeps
<1>7. CASE KillGroup(run)
  <2>1. Becomes(run, Over("timeout")) /\ ~Kid(run, "none")
    BY <1>7 DEF KillGroup, Kid
  <2> QED
    BY <1>2, <2>1 DEF Readings
<1> QED
  BY <1>3, <1>4, <1>5, <1>6, <1>7

LEMMA BetterIn ==
    ASSUME NEW a \in Readings, NEW b \in Readings PROVE Better(a, b) \in Readings
BY DEF Better

LEMMA ReadKeeps == ASSUME RequestInv, Read PROVE RequestInv'
<1>1. rqPc = "reading" /\ KeepClock /\ UNCHANGED <<rqCall, rqLocal, rqModel>> /\ ~rqCall.out
  BY DEF Read, In, RequestInv, Outstanding
<1>2. /\ rqLocal \in 0 .. MaxTime /\ rqLocal <= rqNow + LocalCap /\ rqAllow \in 0 .. LocalCap
      /\ rqModel \in 0 .. ModelCount + 1 /\ rqCall \in [out : BOOLEAN, until : Nat]
      /\ rqKids \in [Runs -> RunRecords]
  BY DEF RequestInv, RequestTyped
<1> DEFINE got == rqKids["primary"].got
           other == rqKids["alternate"].got
<1>3. got \in Readings /\ other \in Readings
  BY <1>2 DEF Runs, RunRecords
<1>4. CASE EndStage("error") /\ rqKids' = NoKids /\ UNCHANGED rqAllow
  BY <1>1, <1>2, <1>4, StageEnds, WorkerStep DEF Stages
<1>5. CASE rqPc' \in {"candidate", "judge"} /\ rqKids' = NoKids /\ UNCHANGED <<rqAllow, rqResult>>
  BY <1>1, <1>2, <1>5, WorkerStep DEF Stages
<1>6. CASE /\ ~LocalOver /\ rqAllow' = rqLocal - rqNow /\ rqPc' = "layout" /\ UNCHANGED rqResult
           /\ rqKids' = [Asked({"primary"}) EXCEPT !["alternate"] = Over(Better(got, other))]
  <2>1. Over(Better(got, other)) \in RunRecords /\ Over(Better(got, other)).phase = "over"
    BY <1>3, BetterIn, OverIn
  <2>2. rqKids' \in [Runs -> RunRecords] /\ \A run \in Runs : rqKids'[run].phase \in {"wanted", "none", "over"}
    BY <1>6, <2>1, AskedIn DEF Runs
  <2>3. rqAllow' \in 0 .. LocalCap
    BY <1>6, AllowIn
  <2> QED
    BY <1>1, <1>6, <2>2, <2>3, ReadingStep
<1> HIDE DEF got, other
<1> QED
  BY <1>4, <1>5, <1>6 DEF Read, Accept, got, other

LEMMA ReadLayoutKeeps == ASSUME RequestInv, ReadLayout PROVE RequestInv'
<1>1. rqPc = "layout" /\ KeepClock /\ UNCHANGED <<rqCall, rqLocal, rqAllow, rqModel>> /\ ~rqCall.out
      /\ rqKids' = NoKids
  BY DEF ReadLayout, In, RequestInv, Outstanding
<1>2. /\ rqLocal \in 0 .. MaxTime /\ rqLocal <= rqNow + LocalCap /\ rqAllow \in 0 .. LocalCap
      /\ rqModel \in 0 .. ModelCount + 1 /\ rqCall \in [out : BOOLEAN, until : Nat]
  BY DEF RequestInv, RequestTyped
<1>3. CASE EndStage("stopped")
  BY <1>1, <1>2, <1>3, StageEnds, WorkerStep DEF Stages
<1>4. CASE rqPc' \in {"candidate", "judge"} /\ UNCHANGED rqResult
  BY <1>1, <1>2, <1>4, WorkerStep DEF Stages
<1> QED
  BY <1>3, <1>4 DEF ReadLayout, Accept

(* The clock, the window and the next stage.                               *)
LEMMA BeginTranslationKeeps == ASSUME RequestInv, BeginTranslation PROVE RequestInv'
<1>1. /\ rqPc = "returned" /\ rqPc' = "model" /\ rqModel' = 1 /\ rqResult' = Nothing
      /\ rqUntil' = LimitedTo(rqTotal, ApiBudget)
      /\ UNCHANGED <<rqNow, rqCancelled, rqTotal, rqCall, rqLocal, rqAllow, rqKids>>
  BY DEF BeginTranslation, In
<1>2. ~rqCall.out /\ rqKids = NoKids
  BY <1>1 DEF RequestInv, Outstanding
<1>3. rqTotal = OcrBudget + ApiBudget /\ rqNow \in Nat
  BY RecognitionFacts DEF RequestInv, RequestTyped
<1>4. rqUntil' \in 0 .. rqTotal'
  BY <1>1, <1>3, RecognitionFacts DEF LimitedTo, Sooner
<1>5. RequestTyped'
  BY <1>1, <1>4, RecognitionFacts DEF RequestInv, RequestTyped, Nothing, Stages
<1>6. Outstanding'
  BY <1>1, <1>2 DEF Outstanding
<1>7. RunsEnd'
  BY <1>1, <1>2, NoRunsRun DEF RunsEnd, Running, Kid
<1>8. TextInTime'
  BY <1>1 DEF TextInTime, Nothing
<1> QED
  BY <1>5, <1>6, <1>7, <1>8 DEF RequestInv

LEMMA CancelKeeps == ASSUME RequestInv, Cancel PROVE RequestInv'
<1>1. rqCancelled' = TRUE
      /\ UNCHANGED <<rqNow, rqTotal, rqUntil, rqPc, rqCall, rqLocal, rqAllow, rqKids, rqModel, rqResult>>
  BY DEF Cancel, work
<1>2. RequestTyped'
  BY <1>1 DEF RequestInv, RequestTyped
<1>3. Outstanding' /\ RunsEnd' /\ TextInTime'
  BY <1>1 DEF RequestInv, Outstanding, RunsEnd, Running, Kid, TextInTime
<1> QED
  BY <1>2, <1>3 DEF RequestInv

LEMMA TickKeeps == ASSUME RequestInv, Tick PROVE RequestInv'
<1>1. /\ rqNow' = rqNow + 1 /\ rqNow < MaxTime /\ (rqCall.out => rqNow < rqCall.until)
      /\ \A run \in Runs : Running(run) => rqNow < rqKids[run].until
      /\ UNCHANGED <<rqCancelled, rqTotal, rqUntil, rqPc, rqCall, rqLocal, rqAllow, rqKids, rqModel, rqResult>>
  BY DEF Tick, work
<1>2. rqNow \in 0 .. MaxTime /\ rqUntil \in Nat /\ rqLocal \in Nat /\ rqLocal <= rqNow + LocalCap
      /\ rqKids \in [Runs -> RunRecords]
  BY RecognitionFacts DEF RequestInv, RequestTyped
<1>3. RequestTyped'
  <2>1. rqNow' \in 0 .. MaxTime /\ rqLocal <= rqNow' + LocalCap
    BY <1>1, <1>2, RecognitionFacts
  <2> QED
    BY <1>1, <2>1 DEF RequestInv, RequestTyped
<1>4. Outstanding'
  <2>1. rqCall.out => rqNow' <= rqUntil
    BY <1>1, <1>2 DEF RequestInv, Outstanding
  <2> QED
    BY <1>1, <2>1 DEF RequestInv, Outstanding
<1>5. RunsEnd'
  <2>1. ASSUME NEW run \in Runs, Running(run)
        PROVE  rqKids[run].until <= rqUntil /\ ~(rqNow' > rqUntil)
    <3>1. rqKids[run].until <= rqUntil \/ rqKids[run].until = rqNow
      BY <2>1 DEF RequestInv, RunsEnd
    <3>2. rqNow < rqKids[run].until /\ rqKids[run].until \in Nat
      BY <1>1, <1>2, <2>1 DEF RunRecords
    <3> QED
      BY <1>1, <1>2, <3>1, <3>2
  <2> QED
    BY <1>1, <2>1 DEF RunsEnd, Running, Kid
<1>6. TextInTime'
  BY <1>1 DEF RequestInv, TextInTime
<1> QED
  BY <1>3, <1>4, <1>5, <1>6 DEF RequestInv

-----------------------------------------------------------------------------
LEMMA RequestInitInv == RecognitionInit => RequestInv
<1> SUFFICES ASSUME RecognitionInit PROVE RequestInv
  OBVIOUS
<1>1. RequestTyped
  <2>1. rqNow = 0 /\ rqTotal = OcrBudget + ApiBudget /\ rqUntil = OcrBudget /\ rqLocal = 0 /\ rqAllow = 0
        /\ rqModel = 0
    BY DEF RecognitionInit
  <2>2. /\ rqNow \in 0 .. MaxTime /\ rqUntil \in 0 .. rqTotal /\ rqLocal \in 0 .. MaxTime
        /\ rqLocal <= rqNow + LocalCap /\ rqAllow \in 0 .. LocalCap /\ rqModel \in 0 .. ModelCount + 1
    BY <2>1, RecognitionFacts
  <2>3. rqCall \in [out : BOOLEAN, until : Nat] /\ rqPc \in Stages /\ rqCancelled \in BOOLEAN
        /\ rqResult \in [what : {"none", "text", "error", "refused", "stopped"}, at : Nat]
    BY DEF RecognitionInit, Stages, NoCall, Nothing
  <2>4. rqKids \in [Runs -> RunRecords]
    BY NoRunsRun DEF RecognitionInit
  <2> QED
    BY <2>1, <2>2, <2>3, <2>4 DEF RequestTyped
<1>2. Outstanding /\ TextInTime
  BY DEF RecognitionInit, Outstanding, TextInTime, NoCall, Nothing
<1>3. RunsEnd
  BY NoRunsRun DEF RecognitionInit, RunsEnd, Running, Kid
<1> QED
  BY <1>1, <1>2, <1>3 DEF RequestInv

LEMMA RequestNextInv == RequestInv /\ [RecognitionNext]_rqVars => RequestInv'
<1> SUFFICES ASSUME RequestInv, [RecognitionNext]_rqVars PROVE RequestInv'
  OBVIOUS
<1>1. CASE UNCHANGED rqVars
  BY <1>1 DEF RequestInv, RequestTyped, Outstanding, RunsEnd, Running, Kid, TextInTime, rqVars, work
<1>2. CASE BeginRecognition \/ AskVision \/ VisionAnswers \/ BeginLocal \/ NextCandidate \/ Rendered
           \/ Read \/ ReadLayout \/ Judge
  BY <1>2, BeginRecognitionKeeps, AskVisionKeeps, VisionAnswersKeeps, BeginLocalKeeps, NextCandidateKeeps,
     RenderedKeeps, ReadKeeps, ReadLayoutKeeps, JudgeKeeps
<1>3. CASE \E run \in Runs : TakeTime(run) \/ Spawn(run) \/ KidExits(run) \/ KidLingers(run) \/ KillGroup(run)
  BY <1>3, RunStepKeeps
<1>4. CASE BeginTranslation \/ AskModel \/ ModelAnswers \/ Cancel \/ Tick
  BY <1>4, BeginTranslationKeeps, AskModelKeeps, ModelAnswersKeeps, CancelKeeps, TickKeeps
<1> QED
  BY <1>1, <1>2, <1>3, <1>4 DEF RecognitionNext

(* However many engines, candidates, layouts and models a request goes     *)
(* through, it lives on one budget, for every budget, cap and number of    *)
(* models (request_control.rs, ocr.rs, llm.rs, proc.rs).                   *)
THEOREM BudgetKept == RecognitionSpec => [](RecognitionTypeOK /\ OneBudget)
<1>1. ASSUME RequestInv PROVE RecognitionTypeOK /\ OneBudget
  <2>1. rqUntil \in 0 .. MaxTime /\ rqTotal \in 0 .. MaxTime /\ rqUntil <= rqTotal
    BY <1>1, RecognitionFacts DEF RequestInv, RequestTyped
  <2>2. rqKids \in [Runs -> RunRecords] /\ rqResult.what \in {"none", "text", "error", "refused", "stopped"}
    BY <1>1 DEF RequestInv, RequestTyped
  <2>3. RecognitionTypeOK
    BY <1>1, <2>1, <2>2 DEF RequestInv, RequestTyped, RecognitionTypeOK, RunRecords, RunPhases, Readings, Stages
  <2>4. rqPc \notin {"reading", "layout"} => \A run \in Runs : ~Running(run)
    BY <1>1, NoRunsRun DEF RequestInv, Outstanding, Running, Kid
  <2>5. OneBudget
    BY <1>1, <2>1, <2>4 DEF RequestInv, Outstanding, RunsEnd, TextInTime, OneBudget
  <2> QED
    BY <2>3, <2>5
<1>2. RequestInv => RecognitionTypeOK /\ OneBudget
  BY <1>1
<1> QED
  BY RequestInitInv, RequestNextInv, <1>2, PTL DEF RecognitionSpec

-----------------------------------------------------------------------------
(* A behaviour of the composition is a behaviour of each of its parts: a   *)
(* step of another part leaves the part's variables alone.                 *)
LEMMA SettingsPart == Spec => SettingsSpec
<1>1. Init => SettingsInit
  BY DEF Init
<1>2. [Next]_vars => [SettingsNext]_stVars
  BY DEF Next, vars, stVars
<1> QED
  BY <1>1, <1>2, PTL DEF Spec, SettingsSpec

LEMMA WorkbenchPart == Spec => WorkbenchSpec
<1>1. Init => WorkbenchInit
  BY DEF Init
<1>2. [Next]_vars => [WorkbenchNext]_wbVars
  BY DEF Next, vars, wbVars
<1> QED
  BY <1>1, <1>2, PTL DEF Spec, WorkbenchSpec

LEMMA PickerPart == Spec => PickerSpec
<1>1. Init => PickerInit
  BY DEF Init
<1>2. [Next]_vars => [PickerNext]_mpVars
  BY DEF Next, vars, mpVars
<1> QED
  BY <1>1, <1>2, PTL DEF Spec, PickerSpec

LEMMA TrayPart == Spec => TraySpec
<1>1. Init => TrayInit
  BY DEF Init
<1>2. [Next]_vars => [TrayNext]_tyVars
  BY DEF Next, vars, tyVars
<1> QED
  BY <1>1, <1>2, PTL DEF Spec, TraySpec

LEMMA ShortcutsPart == Spec => ShortcutsSpec
<1>1. Init => ShortcutsInit
  BY DEF Init
<1>2. [Next]_vars => [ShortcutsNext]_scVars
  BY DEF Next, vars, scVars, service, portal
<1> QED
  BY <1>1, <1>2, PTL DEF Spec, ShortcutsSpec

LEMMA NiriPart == Spec => NiriSpec
<1>1. Init => NiriInit
  BY DEF Init
<1>2. [Next]_vars => [NiriNext]_nbVars
  BY DEF Next, vars, nbVars
<1> QED
  BY <1>1, <1>2, PTL DEF Spec, NiriSpec

LEMMA UnitPart == Spec => UnitSpec
<1>1. Init => UnitInit
  BY DEF Init
<1>2. [Next]_vars => [UnitNext]_suVars
  BY DEF Next, vars, suVars
<1> QED
  BY <1>1, <1>2, PTL DEF Spec, UnitSpec

LEMMA RecognitionPart == Spec => RecognitionSpec
<1>1. Init => RecognitionInit
  BY DEF Init
<1>2. [Next]_vars => [RecognitionNext]_rqVars
  BY DEF Next, vars, rqVars
<1> QED
  BY <1>1, <1>2, PTL DEF Spec, RecognitionSpec

(* A picture is only prepared by its own part; elsewhere there is none.    *)
LEMMA PreparePart == Spec => []PrepExact
<1> DEFINE Kept == IF part = "prepare" THEN PrepInv ELSE prResult = <<>>
<1>1. Init => Kept
  BY PrepStarts DEF Init
<1>2. Kept /\ [Next]_vars => Kept'
  <2> SUFFICES ASSUME Kept, [Next]_vars PROVE Kept'
    OBVIOUS
  <2>1. part' = part
    BY DEF Next, vars
  <2>2. CASE part = "prepare"
    <3>1. [Prepare]_prVars
      BY <2>2, SMTT(30) DEF Next, vars, prVars
    <3> QED
      BY <2>1, <2>2, <3>1, PrepSteps
  <2>3. CASE part # "prepare"
    <3>1. UNCHANGED prVars
      BY <2>3, SMTT(30) DEF Next, vars, prVars
    <3> QED
      BY <2>1, <2>3, <3>1 DEF prVars
  <2> QED
    BY <2>2, <2>3
<1>3. Kept => PrepExact
  BY DEF PrepInv, PrepExact
<1> HIDE DEF Kept
<1> QED
  BY <1>1, <1>2, <1>3, PTL DEF Spec

(* In the services and settings as they are model-checked together, for    *)
(* every list of units and any interference: a call that reports success   *)
(* leaves the services as promised, and no entry is lost but by a kill, a  *)
(* failed symlink or the user (apply of release_services.rs).              *)
THEOREM ServicesKept == Spec => []ServicesSafe
BY UnitPart, UnitsKeep, PTL

(* The state of each part keeps its types and bounds, for every value of   *)
(* the constants: the counters of clicks, edits and requests, the queues,  *)
(* the requests in flight and the lists (the files of each part).          *)
THEOREM ServicesTyped == Spec => []TypeOK
<1>1. Init => part \in Parts
  BY DEF Init
<1>2. part \in Parts /\ [Next]_vars => (part \in Parts)'
  BY DEF Next, vars
<1>3. Spec => [](part \in Parts)
  BY <1>1, <1>2, PTL DEF Spec
<1>4. /\ part \in Parts /\ SettingsTypeOK /\ WorkbenchTypeOK /\ PickerTypeOK /\ TrayTypeOK
      /\ ShortcutsTypeOK /\ NiriTypeOK /\ UnitTypeOK /\ RecognitionTypeOK
      => TypeOK
  BY DEF TypeOK
<1> QED
  BY <1>3, <1>4, SettingsPart, SettingsTyped, WorkbenchPart, WorkbenchKeeps, PickerPart, PickerKeeps,
     TrayPart, TrayKeeps, ShortcutsPart, GrantsKept, NiriPart, BindingsKept, UnitPart, UnitsKeep,
     RecognitionPart, BudgetKept, PTL

(* Return takes the model name the user sees highlighted, and the list     *)
(* under it is that of the newest answer and the search, no name twice,    *)
(* whatever arrives under the open list (model_picker.rs).                 *)
THEOREM CursorStaysShown == Spec => []CursorIsShown
BY PickerPart, PickerKeeps, PTL

(* And whoever saves settings keeps the fields others saved, for every set *)
(* of panels, fields and values (panel.rs, prefs.rs).                      *)
THEOREM SavesStayExact == Spec => SavesKeepOthers
BY SettingsPart, OthersKept, PTL

(* The settings window, the model names and the tray show what is there,   *)
(* for any values, names, answers and tray processes (panel.rs,            *)
(* model_picker.rs, main.rs of the tray).                                  *)
THEOREM ShownStaysTrue == Spec => []ShownTrue
<1>1. WorkbenchTrue /\ ButtonsReturn /\ HintTrue /\ TrayTrue => ShownTrue
  BY DEF ShownTrue
<1> QED
  BY <1>1, WorkbenchPart, WorkbenchKeeps, PickerPart, PickerKeeps, TrayPart, TrayKeeps, PTL

(* Keys lead to the action they name, for any shortcuts, however long the  *)
(* queue of the main loop is and however often everything is retried       *)
(* (portal_shortcuts.rs, niri.rs).                                         *)
THEOREM ShortcutsStayTrue == Spec => []ShortcutsTrue
<1>1. GrantsAgree /\ BindingsSafe => ShortcutsTrue
  BY DEF ShortcutsTrue
<1> QED
  BY <1>1, ShortcutsPart, GrantsKept, NiriPart, BindingsKept, PTL

(* A picture is prepared as defined, for every row, window, picture,       *)
(* histogram and cut: no extreme, threshold or quantile is off by one, and *)
(* closing twice is closing once (prep.rs).                                *)
THEOREM PrepStaysExact == Spec => []PrepExact
BY PreparePart, PTL

(* No stage, fallback or retry of a recognition outlives its deadline or   *)
(* a cancellation, for any budget and any models (request_control.rs,      *)
(* ocr.rs).                                                                *)
THEOREM BudgetStaysKept == Spec => []OneBudget
BY RecognitionPart, BudgetKept, PTL
===============================================================================

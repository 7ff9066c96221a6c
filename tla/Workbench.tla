------------------------------ MODULE Workbench ------------------------------
(***************************************************************************)
(* The settings window as a workbench (vellum-ui/src/panel.rs): the form   *)
(* and the login switch with its worker, the dialogs that answer later,    *)
(* and a capture that closes the window and starts with what is saved.     *)
(* SettingsFile has the steps of a save; here it succeeds or fails.        *)
(***************************************************************************)
EXTENDS Naturals

CONSTANTS FormValues, MaxFormEdits, MaxRequests

ASSUME WorkbenchAssumption == 0 \in FormValues /\ MaxFormEdits \in Nat /\ MaxRequests \in Nat \ {0}

VARIABLES wbForm,    \* what the form shows, what it was saved as
          wbSwitch,  \* the login switch: shown, dirty, busy, sensitive
          wbWorker,  \* the requests of the login switch that still run
          wbAnswers, \* answers posted to the main loop
          wbDialog, wbJob, wbCapture,
          wbOpen,
          wbSystem,  \* login start as it is
          wbDisk,    \* what is saved on disk
          wbClaim,   \* the status line claims that all was saved
          wbChosen,  \* history: capture was started with nothing unsaved, or by choice
          wbCounts

wbVars == <<wbForm, wbSwitch, wbWorker, wbAnswers, wbDialog, wbJob, wbCapture, wbOpen,
            wbSystem, wbDisk, wbClaim, wbChosen, wbCounts>>

NoRequest == [wants |-> "none"]
Wants == {"ask", "on", "off"}
SwitchedTo(on) == IF on THEN "on" ELSE "off"

(* Panel::new ends with a question about login start. *)
WorkbenchInit ==
    /\ wbDisk \in FormValues /\ wbForm = [shown |-> wbDisk, saved |-> wbDisk]
    /\ wbSystem \in BOOLEAN
    /\ wbSwitch = [shown |-> FALSE, dirty |-> FALSE, busy |-> TRUE, sensitive |-> FALSE]
    /\ wbWorker = [wants |-> "ask", done |-> FALSE] /\ wbAnswers = NoRequest
    /\ wbDialog = "none" /\ wbJob = FALSE /\ wbCapture = "none"
    /\ wbOpen = TRUE
    /\ wbClaim = "none" /\ wbChosen = TRUE
    /\ wbCounts = [edits |-> 0, requests |-> 1]

FormRest == UNCHANGED <<wbForm, wbDisk>>
SwitchRest == UNCHANGED <<wbSwitch, wbWorker, wbAnswers, wbSystem>>
WindowRest == UNCHANGED <<wbDialog, wbJob, wbCapture, wbOpen, wbChosen>>

(* The dialogs are modal. *)
FormUsable == wbOpen /\ wbDialog = "none"
FormEdits == wbCounts.edits < MaxFormEdits /\ wbCounts' = [wbCounts EXCEPT !.edits = @ + 1]

-----------------------------------------------------------------------------
(* The form and the switch. *)

EditField ==
    /\ FormUsable /\ FormEdits /\ wbClaim' = "none"
    /\ \E v \in FormValues : wbForm' = [wbForm EXCEPT !.shown = v]
    /\ UNCHANGED wbDisk /\ SwitchRest /\ WindowRest

(* restore_defaults fills the form and leaves the switch alone. *)
FillDefaults ==
    /\ FormUsable /\ FormEdits /\ wbClaim' = "none"
    /\ wbForm' = [wbForm EXCEPT !.shown = 0]
    /\ UNCHANGED wbDisk /\ SwitchRest /\ WindowRest

(* connect_active_notify: a change while a request runs is the panel's own. *)
Notified(switch) == IF switch.busy THEN switch ELSE [switch EXCEPT !.dirty = TRUE]

FlipSwitch ==
    /\ FormUsable /\ FormEdits /\ wbSwitch.sensitive /\ wbClaim' = "none"
    /\ wbSwitch' = Notified([wbSwitch EXCEPT !.shown = ~@])
    /\ UNCHANGED <<wbWorker, wbAnswers, wbSystem>> /\ FormRest /\ WindowRest

(* update_autostart: one request at a time. *)
Requested(wants) ==
    /\ wbSwitch' = [wbSwitch EXCEPT !.busy = TRUE, !.sensitive = FALSE]
    /\ wbWorker' = [wants |-> wants, done |-> FALSE]

(* save, by the button (not while a request runs) or by Ctrl+S: refused    *)
(* while a request runs or when the form is not valid, or it fails.        *)
SaveForm ==
    /\ FormUsable
    /\ \/ wbClaim' = "none" /\ UNCHANGED <<wbForm, wbDisk, wbSwitch, wbWorker, wbCounts>>
       \/ /\ ~wbSwitch.busy /\ wbCounts.requests < MaxRequests
          /\ wbForm' = [wbForm EXCEPT !.saved = wbForm.shown] /\ wbDisk' = wbForm.shown
          /\ \/ /\ wbSwitch.dirty /\ Requested(SwitchedTo(wbSwitch.shown))
                /\ wbCounts' = [wbCounts EXCEPT !.requests = @ + 1] /\ wbClaim' = "none"
             \/ ~wbSwitch.dirty /\ wbClaim' = "form" /\ UNCHANGED <<wbSwitch, wbWorker, wbCounts>>
    /\ UNCHANGED <<wbAnswers, wbSystem>> /\ WindowRest

(* The release manager does what it is asked, or fails before or after; it *)
(* runs on when the window has closed.                                     *)
ManagerActs ==
    /\ wbWorker # NoRequest /\ ~wbWorker.done
    /\ wbWorker' = [wbWorker EXCEPT !.done = TRUE]
    /\ wbSystem' \in {wbSystem} \cup {on \in BOOLEAN : wbWorker.wants = SwitchedTo(on)}
    /\ UNCHANGED <<wbSwitch, wbAnswers, wbClaim, wbCounts>> /\ FormRest /\ WindowRest

WorkerPosts ==
    /\ wbWorker # NoRequest /\ wbWorker.done /\ wbAnswers = NoRequest
    /\ \E ok \in BOOLEAN :
          /\ wbAnswers' = [wants |-> wbWorker.wants, ok |-> ok, enabled |-> wbSystem]
          (* a manager that confirms has done what it was asked *)
          /\ ok => wbWorker.wants \in {"ask", SwitchedTo(wbSystem)}
    /\ wbWorker' = NoRequest
    /\ UNCHANGED <<wbSwitch, wbSystem, wbClaim, wbCounts>> /\ FormRest /\ WindowRest

(* Mutation: the switch is clean after any answer. *)
AfterAnyAnswer(answer, saving) ==
    [wbSwitch EXCEPT !.shown = IF answer.ok THEN answer.enabled ELSE @, !.dirty = FALSE, !.sensitive = TRUE, !.busy = FALSE]

(* apply: the switch moves while still busy, so that its own notification  *)
(* is not taken for the user's; a failed save stays dirty.                 *)
AfterAnswer(answer, saving) ==
    IF answer.ok
    THEN [Notified([wbSwitch EXCEPT !.shown = answer.enabled]) EXCEPT !.dirty = FALSE, !.sensitive = TRUE, !.busy = FALSE]
    ELSE [wbSwitch EXCEPT !.sensitive = saving, !.busy = FALSE]

ApplyAnswer ==
    /\ wbAnswers # NoRequest /\ wbAnswers' = NoRequest
    /\ \/ ~wbOpen /\ UNCHANGED <<wbSwitch, wbClaim>>
       \/ LET saving == wbAnswers.wants # "ask" IN
          /\ wbOpen /\ wbSwitch' = AfterAnswer(wbAnswers, saving)
          /\ wbClaim' = IF saving /\ wbAnswers.ok THEN "login" ELSE IF saving THEN "none" ELSE wbClaim
    /\ UNCHANGED <<wbWorker, wbSystem, wbCounts>> /\ FormRest /\ WindowRest

-----------------------------------------------------------------------------
(* Dialogs. *)

FormUnsaved == wbForm.shown # wbForm.saved \/ wbSwitch.dirty

ClosesForCapture(chosen) ==
    /\ wbOpen' = FALSE /\ wbCapture' = "scheduled" /\ wbDialog' = "none"
    /\ wbChosen' = (wbChosen /\ (chosen \/ ~FormUnsaved))

(* start_capture without a program to start. *)
NoProgram == wbDialog' = "none" /\ UNCHANGED <<wbOpen, wbCapture, wbChosen>>

(* launch_capture. *)
LaunchCapture ==
    /\ FormUsable
    /\ \/ FormUnsaved /\ wbDialog' = "unsaved" /\ UNCHANGED <<wbOpen, wbCapture, wbChosen>>
       \/ ~FormUnsaved /\ (ClosesForCapture(FALSE) \/ NoProgram)
    /\ UNCHANGED <<wbJob, wbClaim, wbCounts>> /\ FormRest /\ SwitchRest

Asks(dialog) ==
    /\ FormUsable /\ wbDialog' = dialog
    /\ UNCHANGED <<wbJob, wbCapture, wbOpen, wbChosen, wbClaim, wbCounts>> /\ FormRest /\ SwitchRest

(* The answer of a dialog finds the panel or nothing. *)
DialogDismissed ==
    /\ wbDialog # "none" /\ wbDialog' = "none"
    /\ UNCHANGED <<wbJob, wbCapture, wbOpen, wbChosen, wbClaim, wbCounts>> /\ FormRest /\ SwitchRest

DiscardChosen ==
    /\ wbDialog = "unsaved" /\ wbOpen /\ (ClosesForCapture(TRUE) \/ NoProgram)
    /\ UNCHANGED <<wbJob, wbClaim, wbCounts>> /\ FormRest /\ SwitchRest

(* A folder that fails the check changes nothing. *)
FolderChosen ==
    /\ wbDialog = "folder" /\ wbOpen /\ wbDialog' = "none" /\ wbClaim' = "none"
    /\ \E v \in FormValues : wbForm' = [wbForm EXCEPT !.shown = v]
    /\ UNCHANGED <<wbDisk, wbJob, wbCapture, wbOpen, wbChosen, wbCounts>> /\ SwitchRest

ImageChosen ==
    /\ wbDialog = "image" /\ wbOpen /\ wbDialog' = "none" /\ wbJob' = TRUE
    /\ UNCHANGED <<wbCapture, wbOpen, wbChosen, wbClaim, wbCounts>> /\ FormRest /\ SwitchRest

(* The decoded image opens a window of ImageSession if the panel is open. *)
ImageDecoded ==
    /\ wbJob /\ wbJob' = FALSE
    /\ UNCHANGED <<wbDialog, wbCapture, wbOpen, wbChosen, wbClaim, wbCounts>> /\ FormRest /\ SwitchRest

CloseWindow ==
    /\ wbOpen /\ wbOpen' = FALSE
    /\ UNCHANGED <<wbDialog, wbJob, wbCapture, wbChosen, wbClaim, wbCounts>> /\ FormRest /\ SwitchRest

-----------------------------------------------------------------------------
(* 180 ms after the window closed the capture starts with what is saved.   *)
StartCapture ==
    /\ wbCapture = "scheduled" /\ wbCapture' \in {"started", "failed"}
    /\ UNCHANGED <<wbDialog, wbJob, wbOpen, wbChosen, wbClaim, wbCounts>> /\ FormRest /\ SwitchRest

WorkbenchNext ==
    \/ EditField \/ FillDefaults \/ FlipSwitch \/ SaveForm
    \/ ManagerActs \/ WorkerPosts \/ ApplyAnswer
    \/ LaunchCapture \/ Asks("folder") \/ Asks("image")
    \/ DialogDismissed \/ DiscardChosen \/ FolderChosen \/ ImageChosen \/ ImageDecoded
    \/ CloseWindow \/ StartCapture

WorkbenchSpec == WorkbenchInit /\ [][WorkbenchNext]_wbVars

-----------------------------------------------------------------------------
WorkbenchTypeOK ==
    /\ wbForm \in [shown : FormValues, saved : FormValues] /\ wbDisk \in FormValues
    /\ wbSwitch \in [shown : BOOLEAN, dirty : BOOLEAN, busy : BOOLEAN, sensitive : BOOLEAN]
    /\ wbWorker \in {NoRequest} \cup [wants : Wants, done : BOOLEAN]
    /\ wbAnswers \in {NoRequest} \cup [wants : Wants, ok : BOOLEAN, enabled : BOOLEAN]
    /\ wbDialog \in {"none", "unsaved", "folder", "image"} /\ wbJob \in BOOLEAN
    /\ wbCapture \in {"none", "scheduled", "started", "failed"}
    /\ wbOpen \in BOOLEAN
    /\ wbSystem \in BOOLEAN /\ wbChosen \in BOOLEAN /\ wbClaim \in {"none", "form", "login"}
    /\ wbCounts \in [edits : 0 .. MaxFormEdits, requests : 1 .. MaxRequests]

(* While the window is open, a switch the user may turn and has not turned *)
(* shows login start as it is, and a request that blocks saving is one     *)
(* whose answer is still to come.                                          *)
SwitchTrue ==
    wbOpen => /\ wbSwitch.sensitive /\ ~wbSwitch.busy /\ ~wbSwitch.dirty => wbSwitch.shown = wbSystem
              /\ wbSwitch.busy = (wbWorker # NoRequest \/ wbAnswers # NoRequest)

(* "Saved" in the status line, with nothing edited since, is true of the   *)
(* form and the file, or of login start.                                   *)
SavedMeansSaved ==
    /\ wbClaim = "form" => wbForm.shown = wbDisk /\ wbForm.saved = wbDisk
    /\ wbClaim = "login" /\ wbOpen => wbSwitch.shown = wbSystem

(* A capture starts after its window has closed, with the settings the     *)
(* user saw saved or chose to give up.                                     *)
CaptureByChoice == wbCapture # "none" => ~wbOpen /\ wbChosen

(* The settings window tells the truth about what it saved: SwitchTrue,    *)
(* SavedMeansSaved and CaptureByChoice, while the answers of the release   *)
(* manager, the dialogs and the closing of the window come in any order.   *)
WorkbenchTrue == SwitchTrue /\ SavedMeansSaved /\ CaptureByChoice
=============================================================================

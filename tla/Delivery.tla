------------------------------- MODULE Delivery -------------------------------
(***************************************************************************)
(* Where a finished picture goes (the delivery half of vellum-ui/src/      *)
(* main.rs, vellum-core/src/io.rs and its atomic files and clipboard       *)
(* helper): it is saved under a new name, put in the clipboard, and given  *)
(* to a window, each with its own failure, by a process that may be        *)
(* killed.  Handoff has the steps by which a window takes the picture.     *)
(***************************************************************************)
EXTENDS Naturals

CONSTANTS NameTries,   \* the names that are tried before saving gives up
          FeedChunks   \* the chunks in which the clipboard helper is fed

ASSUME DeliveryAssumption == NameTries \in Nat \ {0} /\ FeedChunks \in Nat \ {0}

VARIABLES dlJob,     \* what the capture asked for
          dlStep,    \* the step under way
          dlTemp,    \* the temporary file: "none", "empty", "whole"
          dlNames,   \* per name: "free", "other", or what was published there
          dlOthers,  \* history: names other programs took
          dlSave,    \* the save: state and the name it reports
          dlTool,    \* the clipboard helper: phase and chunks it was fed
          dlClip,    \* the clipboard holds "mine" or "other"
          dlCopy, dlPut,
          dlWindow,  \* outcome of the hand-off
          dlTold,    \* what the window is told of save and copy
          dlExit

dlVars == <<dlJob, dlStep, dlTemp, dlNames, dlOthers, dlSave, dlTool, dlClip, dlCopy, dlPut, dlWindow, dlTold, dlExit>>

Names == 0 .. NameTries - 1
Exports == {"none", "done", "uncertain", "failed"}

(* The overlay's actions; "detached" stands for pin, ocr and translate.    *)
DeliveryInit ==
    /\ dlJob \in [action : {"confirm", "preview", "long", "detached", "cancel"}, save : BOOLEAN, copy : BOOLEAN]
    /\ dlJob.action \in {"detached", "cancel"} => ~dlJob.save /\ ~dlJob.copy
    /\ dlStep = "start" /\ dlTemp = "none"
    /\ dlNames \in [Names -> {"free", "other"}] /\ dlOthers = {i \in Names : dlNames[i] = "other"}
    /\ dlSave = [state |-> "none", name |-> 0] /\ dlTool = [phase |-> "none", fed |-> 0]
    /\ dlClip = "other" /\ dlCopy = "none" /\ dlPut = FALSE
    /\ dlWindow = "none" /\ dlTold = [save |-> "none", copy |-> "none"] /\ dlExit = "none"

Delivering == dlExit = "none"
FilesRest == UNCHANGED <<dlTemp, dlNames, dlOthers, dlSave>>
ClipboardRests == UNCHANGED <<dlTool, dlClip, dlCopy, dlPut>>
WindowRests == UNCHANGED <<dlWindow, dlTold>>

-----------------------------------------------------------------------------
(* handle and deliver_longshot: the order of the exports. *)

AfterCopy == IF dlJob.action = "cancel" THEN "end" ELSE "preview"
AfterSave == IF dlJob.copy THEN "copy" ELSE AfterCopy

(* A long shot that cannot be encoded goes to a window of this process.    *)
BeginDelivery ==
    /\ Delivering /\ dlStep = "start"
    /\ \/ dlStep' = (IF dlJob.save THEN "prefs" ELSE AfterSave) /\ UNCHANGED dlWindow
       \/ dlJob.action = "long" /\ dlStep' = "memory" /\ dlWindow' = "Unavailable"
    /\ FilesRest /\ ClipboardRests /\ UNCHANGED <<dlJob, dlTold, dlExit>>

-----------------------------------------------------------------------------
(* save_default_bytes and atomic_file::unique. *)

SaveEnds(state) == dlSave' = [dlSave EXCEPT !.state = state] /\ dlStep' = AfterSave
(* Drop of Pending takes the temporary file away, if it can. *)
Dropped == dlTemp' \in {"none", dlTemp}

PrepareSave ==
    /\ Delivering /\ dlStep = "prefs"
    /\ \/ SaveEnds("failed") /\ UNCHANGED dlTemp
       \/ dlTemp' = "empty" /\ dlStep' = "write" /\ UNCHANGED dlSave
    /\ ClipboardRests /\ WindowRests /\ UNCHANGED <<dlJob, dlNames, dlOthers, dlExit>>

WriteSave ==
    /\ Delivering /\ dlStep = "write"
    /\ \/ SaveEnds("failed") /\ Dropped
       \/ dlTemp' = "whole" /\ dlStep' = "link" /\ UNCHANGED dlSave
    /\ ClipboardRests /\ WindowRests /\ UNCHANGED <<dlJob, dlNames, dlOthers, dlExit>>

(* Mutation: rename takes the name whatever is there. *)
Renamed(name) ==
    /\ dlNames' = [dlNames EXCEPT ![name] = dlTemp] /\ dlStep' = "sync"
    /\ dlSave' = [dlSave EXCEPT !.name = name] /\ UNCHANGED dlTemp

(* hard_link refuses a name that exists; the next one is tried. *)
Linked(name) ==
    IF dlNames[name] = "free"
    THEN /\ dlNames' = [dlNames EXCEPT ![name] = dlTemp] /\ dlStep' = "sync"
         /\ dlSave' = [dlSave EXCEPT !.name = name] /\ UNCHANGED dlTemp
    ELSE /\ UNCHANGED dlNames
         /\ IF name + 1 \in Names
            THEN dlSave' = [dlSave EXCEPT !.name = name + 1] /\ UNCHANGED <<dlStep, dlTemp>>
            ELSE SaveEnds("failed") /\ Dropped

PublishSave ==
    /\ Delivering /\ dlStep = "link"
    /\ \/ Linked(dlSave.name)
       \/ SaveEnds("failed") /\ Dropped /\ UNCHANGED dlNames
    /\ ClipboardRests /\ WindowRests /\ UNCHANGED <<dlJob, dlOthers, dlExit>>

(* The name is there; what fails from now on leaves the save uncertain.    *)
SyncSave ==
    /\ Delivering /\ dlStep = "sync" /\ Dropped
    /\ \/ dlTemp' = "none" /\ SaveEnds("done")
       \/ SaveEnds("uncertain")
    /\ ClipboardRests /\ WindowRests /\ UNCHANGED <<dlJob, dlNames, dlOthers, dlExit>>

-----------------------------------------------------------------------------
(* copy_png through clipboard_process::execute, within its deadline. *)

CopyEnds(state) == dlCopy' = state /\ dlStep' = AfterCopy /\ dlTool' = [dlTool EXCEPT !.phase = "none"]

StartTool ==
    /\ Delivering /\ dlStep = "copy" /\ dlTool.phase = "none"
    /\ \/ CopyEnds("failed")
       \/ dlTool' = [phase |-> "fed", fed |-> 0] /\ UNCHANGED <<dlStep, dlCopy>>
    /\ FilesRest /\ WindowRests /\ UNCHANGED <<dlJob, dlClip, dlPut, dlExit>>

FeedTool ==
    /\ Delivering /\ dlTool.phase = "fed"
    /\ dlTool' = IF dlTool.fed = FeedChunks THEN [dlTool EXCEPT !.phase = "closed"]
                                            ELSE [dlTool EXCEPT !.fed = @ + 1]
    /\ FilesRest /\ WindowRests /\ UNCHANGED <<dlJob, dlStep, dlClip, dlCopy, dlPut, dlExit>>

(* wl-copy takes the selection once its input has ended. *)
ToolTakes ==
    /\ dlTool.phase = "closed" /\ dlTool' = [dlTool EXCEPT !.phase = "taken"]
    /\ dlClip' = "mine" /\ dlPut' = TRUE
    /\ FilesRest /\ WindowRests /\ UNCHANGED <<dlJob, dlStep, dlCopy, dlExit>>

ToolSucceeds ==
    /\ Delivering /\ dlTool.phase = "taken" /\ CopyEnds("done")
    /\ FilesRest /\ WindowRests /\ UNCHANGED <<dlJob, dlClip, dlPut, dlExit>>

(* It ends early, fails, or runs into the deadline: the whole group is     *)
(* killed, and what it offered may go with it.                             *)
ToolFails ==
    /\ Delivering /\ dlTool.phase # "none" /\ CopyEnds("failed")
    /\ dlClip' \in {dlClip, "other"}
    /\ FilesRest /\ WindowRests /\ UNCHANGED <<dlJob, dlPut, dlExit>>

-----------------------------------------------------------------------------
(* The window and the exit code. *)

ExportFailed == dlSave.state \in {"uncertain", "failed"} \/ dlCopy = "failed"

(* Mutation: one export that worked is enough. *)
NeedsWindowOnlyAlone ==
    dlJob.action \in {"preview", "long", "detached"} \/ (dlSave.state # "done" /\ dlCopy # "done")

(* deliver_region_policy_with: a window is needed where no export was      *)
(* asked for or one failed; by choice or by preference it always is.       *)
NeedsWindow == dlJob.action \in {"preview", "long", "detached"} \/ (~dlJob.save /\ ~dlJob.copy) \/ ExportFailed

HandToWindow ==
    /\ Delivering /\ dlStep = "preview"
    /\ \/ ~NeedsWindow /\ dlStep' = "end" /\ UNCHANGED <<dlWindow, dlTold>>
       \/ /\ dlWindow' \in {"Ready", "Retained", "Unavailable"}
          /\ dlTold' = [save |-> dlSave.state, copy |-> dlCopy]
          /\ dlStep' = IF dlWindow' = "Unavailable" THEN "memory" ELSE "end"
    /\ FilesRest /\ ClipboardRests /\ UNCHANGED <<dlJob, dlExit>>

(* recover_in_memory_if_needed: until the user closes that window. *)
MemoryWindowCloses ==
    /\ Delivering /\ dlStep = "memory" /\ dlStep' = "end"
    /\ FilesRest /\ ClipboardRests /\ WindowRests /\ UNCHANGED <<dlJob, dlExit>>

(* RegionDelivery::exit_code, longshot_output_failed, HandoffOutcome. *)
ExitCode ==
    IF dlJob.action = "cancel" THEN "cancelled"
    ELSE IF ExportFailed \/ dlWindow \in {"Retained", "Unavailable"} THEN "failed" ELSE "ok"

Exits ==
    /\ Delivering /\ dlStep = "end" /\ dlExit' = ExitCode
    /\ FilesRest /\ ClipboardRests /\ WindowRests /\ UNCHANGED <<dlJob, dlStep>>

Killed ==
    /\ Delivering /\ dlExit' = "killed"
    /\ FilesRest /\ ClipboardRests /\ WindowRests /\ UNCHANGED <<dlJob, dlStep>>

(* Other programs save and copy too. *)
OtherSaves ==
    /\ \E name \in Names : /\ dlNames[name] = "free" /\ dlNames' = [dlNames EXCEPT ![name] = "other"]
                           /\ dlOthers' = dlOthers \cup {name}
    /\ ClipboardRests /\ WindowRests /\ UNCHANGED <<dlJob, dlStep, dlTemp, dlSave, dlExit>>

OtherCopies ==
    /\ dlClip = "mine" /\ dlClip' = "other"
    /\ FilesRest /\ WindowRests /\ UNCHANGED <<dlJob, dlStep, dlTool, dlCopy, dlPut, dlExit>>

DeliveryNext ==
    \/ BeginDelivery \/ PrepareSave \/ WriteSave \/ PublishSave \/ SyncSave
    \/ StartTool \/ FeedTool \/ ToolTakes \/ ToolSucceeds \/ ToolFails
    \/ HandToWindow \/ MemoryWindowCloses \/ Exits \/ Killed \/ OtherSaves \/ OtherCopies

DeliverySpec == DeliveryInit /\ [][DeliveryNext]_dlVars

-----------------------------------------------------------------------------
DeliveryTypeOK ==
    /\ dlStep \in {"start", "prefs", "write", "link", "sync", "copy", "preview", "memory", "end"}
    /\ dlTemp \in {"none", "empty", "whole"} /\ dlNames \in [Names -> {"free", "other", "empty", "whole"}]
    /\ dlOthers \subseteq Names /\ dlSave \in [state : Exports, name : Names]
    /\ dlTool \in [phase : {"none", "fed", "closed", "taken"}, fed : 0 .. FeedChunks]
    /\ dlClip \in {"mine", "other"} /\ dlCopy \in Exports /\ dlPut \in BOOLEAN
    /\ dlWindow \in {"none", "Ready", "Retained", "Unavailable"} /\ dlTold \in [save : Exports, copy : Exports]
    /\ dlExit \in {"none", "ok", "failed", "cancelled", "killed"}

(* Other programs' files are never replaced, and a name that was published *)
(* holds the whole picture, also when the process was killed on the way.   *)
FilesWhole ==
    /\ \A name \in dlOthers : dlNames[name] = "other"
    /\ \A name \in Names : dlNames[name] # "empty"

(* Saved, written and copied are said only of what happened, to the exit   *)
(* code and to the window alike.                                           *)
ExportsTrue ==
    /\ \A save \in {dlSave.state, dlTold.save} : save \in {"done", "uncertain"} => dlNames[dlSave.name] = "whole"
    /\ \A copy \in {dlCopy, dlTold.copy} : copy = "done" => dlPut

(* A process that ends with success did all that was asked; one that ends  *)
(* with a failure leaves the picture in a file, in a recovery copy, in a   *)
(* window, or after a window of its own that the user closed.              *)
NothingLost ==
    /\ dlExit = "ok" => /\ dlJob.save => dlSave.state = "done"
                        /\ dlJob.copy => dlCopy = "done"
                        /\ dlJob.action # "confirm" \/ ~(dlJob.save \/ dlJob.copy) => dlWindow = "Ready"
    /\ dlExit = "failed" => dlWindow # "none"

(* A picture reaches what it was asked to reach or is kept for the user:   *)
(* FilesWhole, ExportsTrue and NothingLost.                                *)
Delivered == FilesWhole /\ ExportsTrue /\ NothingLost
===============================================================================

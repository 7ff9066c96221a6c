----------------------------- MODULE MCServices ------------------------------
(***************************************************************************)
(* The settings, the services and what talks to them, one at a time: they  *)
(* share no state at this level, so a behaviour is a behaviour of one part *)
(* while the others rest where they begin.                                 *)
(***************************************************************************)
EXTENDS SettingsFile, Workbench, ModelPicker, Tray, PortalShortcuts, NiriBindings, UnitControl, Recognition,
        ImagePrep

CONSTANT Parts

VARIABLE part

MCUnitOrder == <<"daemon", "tray">>
MCListAnswers == {<<>>, <<2, 1, 2>>, <<3>>}

(* One initial state for each part that rests. *)
Init ==
    /\ part \in Parts
    /\ SettingsInit
    /\ WorkbenchInit /\ (part # "workbench" => wbDisk = 0 /\ ~wbSystem)
    /\ PickerInit /\ (part # "picker" => mpEntry = 0)
    /\ TrayInit /\ (part # "tray" => tyDisk = 0)
    /\ ShortcutsInit
    /\ NiriInit /\ (part # "niri" => nbIncluded /\ \A shortcut \in DefaultShortcuts : nbOwn[shortcut] = "free")
    /\ UnitInit
    /\ RecognitionInit
    /\ IF part = "prepare" THEN PrepInit ELSE prInput = <<>> /\ prResult = <<>>

vars == <<part, stVars, wbVars, mpVars, tyVars, scVars, nbVars, suVars, rqVars, prVars>>

Next ==
    /\ part' = part
    /\ \/ part = "settings" /\ SettingsNext /\ UNCHANGED <<wbVars, mpVars, tyVars, scVars, nbVars, suVars, rqVars, prVars>>
       \/ part = "workbench" /\ WorkbenchNext /\ UNCHANGED <<stVars, mpVars, tyVars, scVars, nbVars, suVars, rqVars, prVars>>
       \/ part = "picker" /\ PickerNext /\ UNCHANGED <<stVars, wbVars, tyVars, scVars, nbVars, suVars, rqVars, prVars>>
       \/ part = "tray" /\ TrayNext /\ UNCHANGED <<stVars, wbVars, mpVars, scVars, nbVars, suVars, rqVars, prVars>>
       \/ part = "shortcuts" /\ ShortcutsNext /\ UNCHANGED <<stVars, wbVars, mpVars, tyVars, nbVars, suVars, rqVars, prVars>>
       \/ part = "niri" /\ NiriNext /\ UNCHANGED <<stVars, wbVars, mpVars, tyVars, scVars, suVars, rqVars, prVars>>
       \/ part = "units" /\ UnitNext /\ UNCHANGED <<stVars, wbVars, mpVars, tyVars, scVars, nbVars, rqVars, prVars>>
       \/ part = "recognition" /\ RecognitionNext /\ UNCHANGED <<stVars, wbVars, mpVars, tyVars, scVars, nbVars, suVars, prVars>>
       \/ part = "prepare" /\ Prepare /\ UNCHANGED <<stVars, wbVars, mpVars, tyVars, scVars, nbVars, suVars, rqVars>>

(* For the search: a state is the part that moves and its variables.       *)
PartView ==
    <<part, CASE part = "settings" -> <<stVars>>
              [] part = "workbench" -> <<wbVars>>
              [] part = "picker" -> <<mpVars>>
              [] part = "tray" -> <<tyVars>>
              [] part = "shortcuts" -> <<scVars>>
              [] part = "niri" -> <<nbVars>>
              [] part = "units" -> <<suVars>>
              [] part = "recognition" -> <<rqVars>>
              [] part = "prepare" -> <<prVars>> >>

(* Every part keeps the types of its variables; those at rest do not move. *)
TypeOK ==
    /\ part \in Parts
    /\ part = "settings" => SettingsTypeOK
    /\ part = "workbench" => WorkbenchTypeOK
    /\ part = "picker" => PickerTypeOK
    /\ part = "tray" => TrayTypeOK
    /\ part = "shortcuts" => ShortcutsTypeOK
    /\ part = "niri" => NiriTypeOK
    /\ part = "units" => UnitTypeOK
    /\ part = "recognition" => RecognitionTypeOK

(* What the user is shown of the settings and the service is what is there *)
(* (panel.rs, model_picker.rs, main.rs of the tray): the workbench shows   *)
(* what its last answer was about, no button of the model names stays dead *)
(* and no hint is about another name, and the tray's marks, flags and icon *)
(* are those of now.                                                       *)
ShownTrue == WorkbenchTrue /\ ButtonsReturn /\ HintTrue /\ TrayTrue

(* Keys lead to the action they name, once (portal_shortcuts.rs, niri.rs): *)
(* the portal grants what the settings say was asked for, and the block of *)
(* niri's bindings is verified, alone on its keys and can be put back.     *)
ShortcutsTrue == GrantsAgree /\ BindingsSafe

Spec == Init /\ [][Next]_vars
==============================================================================

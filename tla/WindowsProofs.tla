---------------------------- MODULE WindowsProofs -----------------------------
(*****************************************************************************)
(* The composition that is model-checked: a behaviour of it is a behaviour   *)
(* of each of its parts, so what is proved of the overlay, the editor and    *)
(* the frames (SurfaceProofs) and of the other windows (PictureProofs) holds *)
(* of it.                                                                    *)
(*****************************************************************************)
EXTENDS MCWindows, SurfaceProofs, PictureProofs

(* A behaviour of the composition is a behaviour of each of its parts: a   *)
(* step of another part leaves the part's variables alone.                 *)
LEMMA SessionPart == Spec => SessionSpec
<1>1. Init => SessionInit
  BY DEF Init
<1>2. [Next]_vars => [SessionNext]_imVars
  BY SMTT(30) DEF Next, vars, imVars
<1> QED
  BY <1>1, <1>2, PTL DEF Spec, SessionSpec

LEMMA TextPart == Spec => TextSpec
<1>1. Init => TextInit
  BY DEF Init
<1>2. [Next]_vars => [TextNext]_txVars
  BY SMTT(30) DEF Next, vars, txVars
<1> QED
  BY <1>1, <1>2, PTL DEF Spec, TextSpec

LEMMA HandoffPart == Spec => HandoffSpec
<1>1. Init => HandoffInit
  BY DEF Init
<1>2. [Next]_vars => [HandoffNext]_haVars
  BY SMTT(30) DEF Next, vars, haVars
<1> QED
  BY <1>1, <1>2, PTL DEF Spec, HandoffSpec

LEMMA DeliveryPart == Spec => DeliverySpec
<1>1. Init => DeliveryInit
  BY DEF Init
<1>2. [Next]_vars => [DeliveryNext]_dlVars
  BY SMTT(30) DEF Next, vars, dlVars
<1> QED
  BY <1>1, <1>2, PTL DEF Spec, DeliverySpec

LEMMA EditorPart == Spec => EditorSpec
<1>1. Init => EditorInit
  BY DEF Init
<1>2. [Next]_vars => [EditorNext]_edVars
  BY SMTT(30) DEF Next, vars, edVars
<1> QED
  BY <1>1, <1>2, PTL DEF Spec, EditorSpec

LEMMA PinPart == Spec => PinSpec
<1>1. Init => PinInit
  BY DEF Init
<1>2. [Next]_vars => [PinNext]_pnVars
  BY SMTT(30) DEF Next, vars, pnVars
<1> QED
  BY <1>1, <1>2, PTL DEF Spec, PinSpec

LEMMA CapturePart == Spec => CaptureSpec
<1>1. Init => CaptureInit
  BY DEF Init
<1>2. [Next]_vars => [CaptureNext]_csVars
  BY SMTT(30) DEF Next, vars, csVars
<1> QED
  BY <1>1, <1>2, PTL DEF Spec, CaptureSpec

LEMMA FramePart == Spec => ScreenCopySpec
<1>1. Init => ScreenCopyInit
  BY DEF Init
<1>2. [Next]_vars => [ScreenCopyNext]_syVars
  BY SMTT(30) DEF Next, vars, syVars
<1> QED
  BY <1>1, <1>2, PTL DEF Spec, ScreenCopySpec

LEMMA BandsPart == Spec => FixedSpec
<1>1. Init => FixedInit
  BY DEF Init
<1>2. [Next]_vars => [FixedNext]_frVars
  BY SMTT(30) DEF Next, vars, frVars
<1> QED
  BY <1>1, <1>2, PTL DEF Spec, FixedSpec

LEMMA StitchPart == Spec => StitchSpec
<1>1. Init => StitchInit
  BY DEF Init
<1>2. [Next]_vars => [StitchNext]_siVars
  BY SMTT(30) DEF Next, vars, siVars
<1> QED
  BY <1>1, <1>2, PTL DEF Spec, StitchSpec

LEMMA PreviewPart == Spec => PreviewSpec
<1>1. Init => PreviewInit
  BY DEF Init
<1>2. [Next]_vars => [PreviewNext]_pvVars
  BY SMTT(30) DEF Next, vars, pvVars
<1> QED
  BY <1>1, <1>2, PTL DEF Spec, PreviewSpec

(* The panel and the toolbar rest where they do not begin: unless it is    *)
(* the part that moves, the one is never measured and the other never laid *)
(* out.                                                                    *)
LEMMA PanelPart == Spec => [](PanelSafe /\ (part = "panel" => PanelTypeOK))
<1> DEFINE Kept == IF part = "panel" THEN PanelInv ELSE PanelRests
<1>1. Init => Kept
  BY PanelStart DEF Init
<1>2. Kept /\ [Next]_vars => Kept'
  <2> SUFFICES ASSUME Kept, [Next]_vars PROVE Kept'
    OBVIOUS
  <2>1. part' = part
    BY DEF Next, vars
  <2>2. CASE part = "panel"
    <3>1. [PanelNext]_cpVars
      BY SMTT(30) DEF Next, vars, cpVars
    <3> QED
      BY <2>1, <2>2, <3>1, PanelStep
  <2>3. CASE part # "panel"
    <3>1. UNCHANGED cpVars
      BY <2>3 DEF Next, vars, cpVars
    <3> QED
      BY <2>1, <2>3, <3>1 DEF cpVars, PanelRests
  <2> QED
    BY <2>2, <2>3
<1>3. Kept => PanelSafe /\ (part = "panel" => PanelTypeOK)
  <2>1. PanelInv => PanelSafe /\ PanelTypeOK
    BY PanelMeans
  <2>2. PanelRests => PanelSafe
    BY DEF PanelRests, PanelSafe, PanelOutside, PanelOffered
  <2> QED
    BY <2>1, <2>2
<1> HIDE DEF Kept
<1> QED
  BY <1>1, <1>2, <1>3, PTL DEF Spec

LEMMA ToolbarPart == Spec => []ToolbarReachable
<1> DEFINE Kept == IF part = "toolbar" THEN ToolbarInv ELSE ToolbarRests
<1>1. Init => Kept
  BY ToolbarStarts DEF Init
<1>2. Kept /\ [Next]_vars => Kept'
  <2> SUFFICES ASSUME Kept, [Next]_vars PROVE Kept'
    OBVIOUS
  <2>1. part' = part
    BY DEF Next, vars
  <2>2. CASE part = "toolbar"
    <3>1. [ToolbarNext]_tbVars
      BY SMTT(30) DEF Next, vars, tbVars
    <3> QED
      BY <2>1, <2>2, <3>1, ToolbarSteps
  <2>3. CASE part # "toolbar"
    <3>1. UNCHANGED tbVars
      BY <2>3 DEF Next, vars, tbVars
    <3> QED
      BY <2>1, <2>3, <3>1 DEF tbVars, ToolbarRests
  <2> QED
    BY <2>2, <2>3
<1>3. Kept => ToolbarReachable
  BY DEF ToolbarInv, ToolbarRests, ToolbarReachable, Laid
<1> HIDE DEF Kept
<1> QED
  BY <1>1, <1>2, <1>3, PTL DEF Spec

(* Whatever the bounds, the variables of the part that moves keep their    *)
(* types.                                                                  *)
THEOREM WindowsTyped == Spec => []TypeOK
<1>1. Spec => [](part \in Parts)
  <2>1. Init => part \in Parts
    BY DEF Init
  <2>2. part \in Parts /\ [Next]_vars => (part \in Parts)'
    BY DEF Next, vars
  <2> QED
    BY <2>1, <2>2, PTL DEF Spec
<1>2. Spec => [](EditorTypeOK /\ SessionTypeOK /\ TextTypeOK)
  BY EditorPart, EditorTyped, SessionPart, SessionKeeps, TextPart, TextTyped, PTL
<1>3. Spec => [](HandoffTypeOK /\ DeliveryTypeOK /\ PinTypeOK)
  BY HandoffPart, HandoffKeeps, DeliveryPart, DeliveryKeeps, PinPart, PinTrue, PTL
<1>4. Spec => [](CaptureTypeOK /\ ScreenCopyTypeOK /\ StitchTypeOK)
  BY CapturePart, OverlayTrue, FramePart, ScreenCopyTrue, StitchPart, StitchTrue, PTL
<1>5. Spec => [](PreviewTypeOK /\ FixedTypeOK)
  BY PreviewPart, PreviewTrue, BandsPart, BandsTrue, PTL
<1>6. Spec => [](part = "panel" => PanelTypeOK)
  BY PanelPart, PTL
<1>7. /\ part \in Parts /\ EditorTypeOK /\ SessionTypeOK /\ TextTypeOK /\ HandoffTypeOK /\ DeliveryTypeOK
      /\ PinTypeOK /\ CaptureTypeOK /\ ScreenCopyTypeOK /\ StitchTypeOK /\ PreviewTypeOK /\ FixedTypeOK
      /\ (part = "panel" => PanelTypeOK)
      => TypeOK
  BY DEF TypeOK
<1> QED
  BY <1>1, <1>2, <1>3, <1>4, <1>5, <1>6, <1>7, PTL

(* And everything can be reached: the preview draws every row in view and  *)
(* scrolls to both ends of its picture, and every button of the toolbar is *)
(* on the screen that suffices for it (preview.rs, toolbar.rs).            *)
THEOREM PiecesStayFit == Spec => []PiecesFit
<1>1. Spec => []PreviewSound
  BY PreviewPart, PreviewTrue, PTL
<1> QED
  BY <1>1, ToolbarPart, PTL DEF PiecesFit

(* In the windows as they are model-checked together, for every bound: no  *)
(* image is lost among the windows of a process, nor on its way to a file, *)
(* the clipboard, a window or another process (preview.rs, io.rs,          *)
(* atomic_file.rs, handoff.rs, session_transfer.rs).                       *)
THEOREM PictureKept == Spec => []ImageKept
<1>1. Spec => []ImageSafe
  BY SessionPart, SessionKeeps, PTL
<1>2. Spec => []Delivered
  BY DeliveryPart, DeliveryKeeps, PTL
<1>3. Spec => []HandoffSafe
  BY HandoffPart, HandoffKeeps, PTL
<1> QED
  BY <1>1, <1>2, <1>3, PTL DEF ImageKept

(* And a text window shows the answer to what was asked last and keeps     *)
(* what was typed (result.rs, ui_job.rs).                                  *)
THEOREM TextStaysSound == Spec => []TextSound
BY TextPart, TextSafe, PTL

(* Every step of the composition keeps the text the user typed.            *)
THEOREM TypedStaysTyped == Spec => TypedTextKept
BY TextPart, TypedKept, PTL

(* What the editor shows is its draft, and what a capture takes is what    *)
(* there was: the selection as shown, a frame of the output asked for, no  *)
(* content cut as a header, no control panel in the picture and no seam    *)
(* that was made up (annotate.rs, surface.rs, screencopy.rs,               *)
(* fixed_regions.rs, recorder.rs, stitcher.rs).                            *)
THEOREM CaptureStaysTrue == Spec => []CaptureTrue
<1>1. Spec => []WhatIsShown
  BY EditorPart, EditorShows, PTL
<1>2. Spec => []OverlaySound
  BY CapturePart, OverlayTrue, PTL
<1>3. Spec => []FrameTrue
  BY FramePart, ScreenCopyTrue, PTL
<1>4. Spec => []BandsSound
  BY BandsPart, BandsTrue, PTL
<1>5. Spec => []StitchSound
  BY StitchPart, StitchTrue, PTL
<1> QED
  BY <1>1, <1>2, <1>3, <1>4, <1>5, PanelPart, PTL DEF CaptureTrue

(* A pinned picture is whole in its window, and what its outputs are told  *)
(* is so (pin.rs).                                                         *)
THEOREM PinStaysSound == Spec => []PinSound
BY PinPart, PinTrue, PTL

(* Undo and redo of the editor walk one line of states (document.rs        *)
(* trim_history, editor.rs).                                               *)
THEOREM HistoryStaysLine == Spec => HistoryIsTimeline
BY EditorPart, EditorWalksTheLine, PTL

(* An editor that closes unasked leaves in the document what it showed     *)
(* (editor.rs connect_close).                                              *)
THEOREM ClosingStaysTrue == Spec => CloseKeepsDrawn
BY EditorPart, EditorClosesTrue, PTL
===============================================================================

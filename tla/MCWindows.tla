------------------------------ MODULE MCWindows ------------------------------
(***************************************************************************)
(* The windows that take, show, edit and give away a picture, one at a     *)
(* time: they share no state at this level, so a behaviour is a behaviour  *)
(* of one part while the others rest where they begin.                     *)
(***************************************************************************)
EXTENDS Editor, ImageSession, TextResult, Handoff, Delivery, PinWindow, CaptureSurface, ScreenCopy, Stitching,
        PanelPlacement, ToolbarLayout, PreviewView, FixedRegions

CONSTANT Parts

VARIABLE part

MCCaptured == {<<[tool |-> "Rect", l |-> 0, r |-> 1, text |-> 0, look |-> 0]>>}
MCLayouts == {[x |-> 0, w |-> 2], [x |-> 1, w |-> 1]}
FixedPart(rows, columns) == [rows |-> rows, columns |-> columns]
MCTransitions == {
    FixedPart(1 .. 4, {1, 2}), FixedPart(1 .. 4 \union 8 .. 10, {1, 2, 6}), FixedPart(1 .. 5 \union 7 .. 10, {1, 2, 3}),
    FixedPart(1 .. 10, 1 .. 6), FixedPart(2 .. 4 \union 8 .. 10, {5, 6}), FixedPart(1 .. 4 \union 6 .. 10, {1, 2, 5, 6})}
MCPictureSizes == {<<2, 7>>, <<4, 3>>, <<6, 4>>}
MCWindowSizes == {<<4, 4>>, <<7, 6>>, <<10, 3>>}
MCPanelScreens == {<<6, 5>>, <<8, 4>>}
MCPanelSizes == {[full |-> <<3, 3>>, compact |-> <<3, 2>>, horizontal |-> <<4, 1>>, vertical |-> <<1, 3>>]}
MCPanelHint == [horizontal |-> <<4, 1>>, vertical |-> <<1, 3>>]
Bar(labels, breaks) == [i \in DOMAIN labels |-> [label |-> labels[i], break |-> i \in breaks]]
MCBarButtons == {Bar(<<2, 5, 2, 4>>, {2, 4}), Bar(<<3, 3, 3>>, {3}), Bar(<<9, 2>>, {2})}
MCBarScreens == {14, 20, 26, 34, 60} \X {20, 40}
MCBarSelections == [x : {0, 4, 11}, y : {0, 8, 16}, w : {3, 10}, h : {4, 20}]
MCBarSpacing == [pad |-> 4, gap |-> 2, group |-> 3, inner |-> 3]
MCBarTightest == [pad |-> 1, gap |-> 1, group |-> 2, inner |-> 2]

(* The panel and the toolbar have many initial states: when they rest, one. *)
PanelRests ==
    /\ cpStage = "measure" /\ cpPlacement = NoPlacement
    /\ cpPanel = NoPanel /\ cpMoved = FALSE /\ cpGiven = <<>>
ToolbarRests == tbGiven = <<>> /\ tbBar = NoBar /\ tbButtons = <<>>

(* One initial state for each part that rests. *)
Init ==
    /\ part \in Parts
    /\ EditorInit
    /\ SessionInit /\ (part # "session" => imViewer.open /\ ~imViewer.memory /\ imWritten = {})
    /\ TextInit /\ (part # "text" => txMode = "Ocr")
    /\ HandoffInit /\ (part # "handoff" => ~haRetain /\ haDraft = "none")
    /\ DeliveryInit /\ (part # "delivery" => dlJob.action = "cancel" /\ dlOthers = {})
    /\ PinInit /\ (part # "pin" => pnHow = "viewer" /\ pnTarget = Max(PinSizes))
    /\ CaptureInit /\ (part # "capture" => ~csState.long)
    /\ ScreenCopyInit /\ (part # "screen" => /\ \A output \in Outputs : syScreen.places[output].x = 0
                                             /\ syClient.version = 3 /\ {"shm", "screencopy", "xdg"} \subseteq syClient.globals)
    /\ StitchInit /\ (part # "stitch" => siLimit = Max(CanvasLimits))
    /\ PreviewInit /\ (part # "preview" => pvShown.size = <<2, 7>> /\ pvView.vw = 4)
    /\ FixedInit
    /\ IF part = "panel" THEN PanelInit ELSE PanelRests
    /\ IF part = "toolbar" THEN ToolbarInit ELSE ToolbarRests

vars == <<part, edVars, imVars, txVars, haVars, dlVars, pnVars, csVars, syVars, siVars, cpVars, tbVars, pvVars, frVars>>

Next ==
    /\ part' = part
    /\ \/ part = "editor" /\ EditorNext /\ UNCHANGED <<imVars, txVars, haVars, dlVars, pnVars, csVars, syVars, siVars, cpVars, tbVars, pvVars, frVars>>
       \/ part = "session" /\ SessionNext /\ UNCHANGED <<edVars, txVars, haVars, dlVars, pnVars, csVars, syVars, siVars, cpVars, tbVars, pvVars, frVars>>
       \/ part = "text" /\ TextNext /\ UNCHANGED <<edVars, imVars, haVars, dlVars, pnVars, csVars, syVars, siVars, cpVars, tbVars, pvVars, frVars>>
       \/ part = "handoff" /\ HandoffNext /\ UNCHANGED <<edVars, imVars, txVars, dlVars, pnVars, csVars, syVars, siVars, cpVars, tbVars, pvVars, frVars>>
       \/ part = "delivery" /\ DeliveryNext /\ UNCHANGED <<edVars, imVars, txVars, haVars, pnVars, csVars, syVars, siVars, cpVars, tbVars, pvVars, frVars>>
       \/ part = "pin" /\ PinNext /\ UNCHANGED <<edVars, imVars, txVars, haVars, dlVars, csVars, syVars, siVars, cpVars, tbVars, pvVars, frVars>>
       \/ part = "capture" /\ CaptureNext /\ UNCHANGED <<edVars, imVars, txVars, haVars, dlVars, pnVars, syVars, siVars, cpVars, tbVars, pvVars, frVars>>
       \/ part = "screen" /\ ScreenCopyNext /\ UNCHANGED <<edVars, imVars, txVars, haVars, dlVars, pnVars, csVars, siVars, cpVars, tbVars, pvVars, frVars>>
       \/ part = "stitch" /\ StitchNext /\ UNCHANGED <<edVars, imVars, txVars, haVars, dlVars, pnVars, csVars, syVars, cpVars, tbVars, pvVars, frVars>>
       \/ part = "panel" /\ PanelNext /\ UNCHANGED <<edVars, imVars, txVars, haVars, dlVars, pnVars, csVars, syVars, siVars, tbVars, pvVars, frVars>>
       \/ part = "toolbar" /\ ToolbarNext /\ UNCHANGED <<edVars, imVars, txVars, haVars, dlVars, pnVars, csVars, syVars, siVars, cpVars, pvVars, frVars>>
       \/ part = "preview" /\ PreviewNext /\ UNCHANGED <<edVars, imVars, txVars, haVars, dlVars, pnVars, csVars, syVars, siVars, cpVars, tbVars, frVars>>
       \/ part = "fixed" /\ FixedNext /\ UNCHANGED <<edVars, imVars, txVars, haVars, dlVars, pnVars, csVars, syVars, siVars, cpVars, tbVars, pvVars>>

(* For the search: a state is the part that moves and its variables.       *)
PartView ==
    <<part, CASE part = "editor" -> <<edVars>>
              [] part = "session" -> <<imVars>>
              [] part = "text" -> <<txVars>>
              [] part = "handoff" -> <<haVars>>
              [] part = "delivery" -> <<dlVars>>
              [] part = "pin" -> PinSeen
              [] part = "capture" -> <<csVars>>
              [] part = "screen" -> <<syVars>>
              [] part = "stitch" -> <<siVars>>
              [] part = "panel" -> <<cpVars>>
              [] part = "toolbar" -> <<tbVars>>
              [] part = "preview" -> <<pvVars>>
              [] part = "fixed" -> <<frVars>> >>

(* Every part keeps the types of its variables; those at rest do not move. *)
TypeOK ==
    /\ part \in Parts
    /\ part = "editor" => EditorTypeOK
    /\ part = "session" => SessionTypeOK
    /\ part = "text" => TextTypeOK
    /\ part = "handoff" => HandoffTypeOK
    /\ part = "delivery" => DeliveryTypeOK
    /\ part = "pin" => PinTypeOK
    /\ part = "capture" => CaptureTypeOK
    /\ part = "screen" => ScreenCopyTypeOK
    /\ part = "stitch" => StitchTypeOK
    /\ part = "panel" => PanelTypeOK
    /\ part = "preview" => PreviewTypeOK
    /\ part = "fixed" => FixedTypeOK

(* What is shown and taken is what there is (annotate.rs, document.rs,     *)
(* surface.rs, screencopy.rs, fixed_regions.rs, recorder.rs, stitcher.rs): *)
(* the editor's canvas is its draft and a snapshot is of the revision it   *)
(* names; a capture is the selection as shown with what was drawn on it,   *)
(* and a frame is of the output asked for; no content is taken for a       *)
(* header, the control panel of a long shot is not in its picture, and the *)
(* picture has no seam that was made up.                                   *)
CaptureTrue == WhatIsShown /\ OverlaySound /\ FrameTrue /\ BandsSound /\ PanelSafe /\ StitchSound

(* No image is lost on its way (preview.rs, io.rs, atomic_file, handoff.rs,*)
(* session_transfer.rs): while a window has one there is a way to it, what *)
(* a save or a copy reported as done is where it says, and the copy handed *)
(* to another process is kept by someone until a window was seen.          *)
ImageKept == ImageSafe /\ Delivered /\ HandoffSafe

(* All of it can be reached (preview.rs, toolbar.rs): the preview draws    *)
(* every row in view from the picture it took over last and scrolls to     *)
(* both ends, and every button of the toolbar is on the screen.            *)
PiecesFit == PreviewSound /\ ToolbarReachable

Spec == Init /\ [][Next]_vars
==============================================================================

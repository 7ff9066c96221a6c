-------------------------------- MODULE Editor --------------------------------
(***************************************************************************)
(* The editor window of one document (editor.rs): a canvas on a draft, the *)
(* draft's history, and the ways out of the window.  The pointer, the      *)
(* keyboard and the dialog are its environment; while a button is held     *)
(* only the pointer and the keys reach the window.                         *)
(***************************************************************************)
EXTENDS Document

CONSTANTS EditorTools,    \* the drawing tools the pointer may choose
          Captured,       \* the lists of objects a document may start with
          MaxActs         \* bound on the user's acts

ASSUME EditorAssumption ==
    /\ EditorTools \subseteq Tools
    /\ \A objects \in Captured : objects \in Seq(Strokes) /\ ObjectsValid(objects)
    /\ MaxActs \in Nat

VARIABLES edDoc,        \* the document
          edDraft,      \* the working copy of this window
          edCanvas,     \* its annotator
          edMode,       \* "select", "crop" or a drawing tool
          edSelected,   \* the selected object, 0 for none
          edDrag,       \* the object being moved or resized, None for none
          edCropDrag,   \* the crop being drawn, None for none
          edEntry,      \* characters in the visible text entry, or Hidden
          edDown,       \* the button is held on the canvas
          edOpen,       \* the window exists
          edAsking,     \* "discard what was not applied?" is open
          edDiscard,    \* it was answered with yes
          edViewer,     \* a viewer of the document exists
          edActs

edVars == <<edDoc, edDraft, edCanvas, edMode, edSelected, edDrag, edCropDrag, edEntry,
            edDown, edOpen, edAsking, edDiscard, edViewer, edActs>>

Points == 0 .. Width
Hidden == -1

EditorInit ==
    /\ edDoc \in {NewDocument(objects) : objects \in Captured}
    /\ edDraft = NewDraft(edDoc)
    /\ edCanvas = DraftAnnotator(edDraft)
    /\ edMode = "select" /\ edSelected = 0
    /\ edDrag = None /\ edCropDrag = None /\ edEntry = Hidden
    /\ edDown = FALSE /\ edOpen = TRUE /\ edAsking = FALSE /\ edDiscard = FALSE
    /\ edViewer = TRUE /\ edActs = 0

Act == /\ edOpen /\ ~edAsking /\ edActs < MaxActs
       /\ edActs' = edActs + 1

(* commit_canvas: what is on the canvas becomes a state of the draft.  It  *)
(* is refused for a text too long to be a label and for objects that reach *)
(* too far.                                                                *)
EntryTooLong == edEntry # Hidden /\ edEntry > MaxText

CommitsTo(canvas, draft) ==
    LET objects == SnapshotObjects(canvas)
    IN  [ok |-> ~EntryTooLong /\ ObjectsValid(objects),
         draft |-> SetObjects(draft, objects),
         canvas |-> ReplaceObjects(canvas, objects)]

Committed == CommitsTo(edCanvas, edDraft)

(* rebuild: a new canvas from the draft, with the brush of the old one.    *)
Rebuilt(draft) == [DraftAnnotator(draft) EXCEPT !.tool = edCanvas.tool, !.look = edCanvas.look]

Rebuild(draft) ==
    /\ edDraft' = draft /\ edCanvas' = Rebuilt(draft)
    /\ edSelected' = 0 /\ edEntry' = Hidden

(* The pointer, clamped to the crop that is shown. *)
Clamp(x) == Larger(edDraft.state.crop.l, Smaller(edDraft.state.crop.r, x))

Covers(object, x) == object.l <= x /\ x <= object.r

(* The last object under the pointer, a cover before any other. *)
HitTest(objects, x) ==
    LET under == {i \in DOMAIN objects : Covers(objects[i], x)}
        covers == {i \in under : objects[i].tool = "Cover"}
    IN  IF under = {} THEN 0 ELSE Max(IF covers # {} THEN covers ELSE under)

AtCorner(objects, x) == edSelected \in DOMAIN objects /\ objects[edSelected].r = x

(* transformed: a shape keeps a unit of size, a text is resized in place. *)
Transformed(drag, x) ==
    LET object == drag.original
        delta == x - drag.start
        width == object.r - object.l
    IN  CASE ~drag.resize -> [object EXCEPT !.l = @ + delta, !.r = @ + delta]
          [] drag.resize /\ width > 0 -> [object EXCEPT !.r = object.l + Larger(1, width + delta)]
          [] drag.resize /\ width = 0 -> object

PressCrop(x) ==
    /\ edCropDrag' = [from |-> x, to |-> x]
    /\ edSelected' = 0 /\ edEntry' = Hidden
    /\ edCanvas' = Committed.canvas
    /\ UNCHANGED edDrag

PressDraw(x) ==
    /\ edSelected' = 0
    /\ edCanvas' = Press(Committed.canvas, x)
    /\ edEntry' = IF edMode = "Text" THEN 0 ELSE Hidden
    /\ UNCHANGED <<edDrag, edCropDrag>>

(* A second press on a label edits it, any other press on an object starts *)
(* to drag it.                                                             *)
PressSelect(x, double) ==
    LET objects == Committed.canvas.strokes
        resize == AtCorner(objects, x)
        hit == IF resize THEN edSelected ELSE HitTest(objects, x)
        object == objects[hit]
        edits == hit # 0 /\ double /\ object.tool = "Text"
    IN  /\ edSelected' = hit
        /\ edEntry' = IF edits THEN object.text ELSE Hidden
        /\ edDrag' = IF hit # 0 /\ ~edits
                     THEN [index |-> hit, original |-> object, start |-> x, resize |-> resize]
                     ELSE edDrag
        /\ edCanvas' = Committed.canvas
        /\ UNCHANGED edCropDrag

(* press: whatever is on the canvas is committed first. *)
PressCanvas(p, double) ==
    LET x == Clamp(p)
    IN  /\ Act /\ ~edDown /\ edDown' = TRUE
        /\ IF Committed.ok
           THEN /\ edDraft' = Committed.draft
                /\ CASE edMode = "crop"   -> PressCrop(x)
                     [] edMode = "select" -> PressSelect(x, double)
                     [] OTHER             -> PressDraw(x)
           ELSE UNCHANGED <<edDraft, edCanvas, edSelected, edDrag, edCropDrag, edEntry>>
        /\ UNCHANGED <<edDoc, edMode, edOpen, edAsking, edDiscard, edViewer>>

Moved(x) ==
    CASE edDrag # None -> ReplaceObject(edCanvas, edDrag.index, Transformed(edDrag, x))
      [] edDrag = None /\ edCropDrag = None /\ edMode \notin {"select", "crop"} -> Motion(edCanvas, x)
      [] OTHER -> edCanvas

MoveCanvas(p) ==
    LET x == Clamp(p)
    IN  /\ edOpen /\ ~edAsking
        /\ edCanvas' = Moved(x)
        /\ edCropDrag' = IF edDrag = None /\ edCropDrag # None
                         THEN [edCropDrag EXCEPT !.to = x] ELSE edCropDrag
        /\ UNCHANGED <<edDoc, edDraft, edMode, edSelected, edDrag, edEntry, edDown, edOpen,
                       edAsking, edDiscard, edViewer, edActs>>

(* What was dragged, cropped or drawn becomes a state of the draft. *)
ReleaseDrag(x) ==
    LET result == CommitsTo(Moved(x), edDraft)
    IN  /\ edDrag # None /\ edDrag' = None
        /\ edCanvas' = IF result.ok THEN result.canvas ELSE Moved(x)
        /\ edDraft' = IF result.ok THEN result.draft ELSE edDraft
        /\ UNCHANGED <<edSelected, edEntry, edCropDrag>>

ReleaseCrop(x) ==
    LET crop == [l |-> Smaller(edCropDrag.from, x), r |-> Larger(edCropDrag.from, x)]
    IN  /\ edDrag = None /\ edCropDrag # None /\ edCropDrag' = None
        /\ IF crop.l < crop.r THEN Rebuild(SetCrop(edDraft, crop))
           ELSE UNCHANGED <<edDraft, edCanvas, edSelected, edEntry>>
        /\ UNCHANGED edDrag

ReleaseDraw(x) ==
    LET drawn == Release(edCanvas, x)
        result == CommitsTo(drawn, edDraft)
    IN  /\ edDrag = None /\ edCropDrag = None /\ edMode \notin {"select", "crop", "Text"}
        /\ edCanvas' = IF result.ok THEN result.canvas ELSE drawn
        /\ edDraft' = IF result.ok THEN result.draft ELSE edDraft
        /\ UNCHANGED <<edSelected, edEntry, edDrag, edCropDrag>>

ReleaseNothing ==
    /\ edDrag = None /\ edCropDrag = None /\ edMode \in {"select", "crop", "Text"}
    /\ UNCHANGED <<edDraft, edCanvas, edSelected, edEntry, edDrag, edCropDrag>>

ReleaseCanvas(p) ==
    LET x == Clamp(p)
    IN  /\ edOpen /\ ~edAsking /\ edDown /\ edDown' = FALSE
        /\ \/ ReleaseDrag(x) \/ ReleaseCrop(x) \/ ReleaseDraw(x) \/ ReleaseNothing
        /\ UNCHANGED <<edDoc, edMode, edOpen, edAsking, edDiscard, edViewer, edActs>>

(* The tool control.  Where the canvas cannot be committed the control     *)
(* shows the new tool and the old mode stays.                              *)
ChooseMode(mode) ==
    /\ Act /\ ~edDown /\ Committed.ok
    /\ edDraft' = Committed.draft
    /\ edCanvas' = IF mode \in Tools THEN SetTool(Committed.canvas, mode) ELSE Committed.canvas
    /\ edDrag' = None /\ edCropDrag' = None /\ edSelected' = 0 /\ edEntry' = Hidden
    /\ edMode' = mode
    /\ UNCHANGED <<edDoc, edDown, edOpen, edAsking, edDiscard, edViewer>>

Styled == {"Pen", "Rect", "Text"}

Chosen == /\ edMode = "select" /\ edSelected \in DOMAIN edCanvas.strokes
          /\ edCanvas.strokes[edSelected].tool \in Styled

Restyled == LET object == edCanvas.strokes[edSelected]
            IN  ReplaceObject(edCanvas, edSelected, [object EXCEPT !.look = 1 - @])

(* The colour control: of the selected object, at once; of the brush.      *)
ChangeColor ==
    LET result == CommitsTo(Restyled, edDraft)
    IN  /\ Act /\ ~edDown
        /\ \/ /\ Chosen
              /\ edCanvas' = IF result.ok THEN result.canvas ELSE Restyled
              /\ edDraft' = IF result.ok THEN result.draft ELSE edDraft
           \/ /\ edMode \in Styled
              /\ edCanvas' = [edCanvas EXCEPT !.look = 1 - @]
              /\ UNCHANGED edDraft
        /\ UNCHANGED <<edDoc, edMode, edSelected, edDrag, edCropDrag, edEntry, edDown, edOpen,
                       edAsking, edDiscard, edViewer>>

(* The size control: the draft learns of it with the next commit. *)
ChangeSize ==
    /\ Act /\ ~edDown
    /\ edCanvas' = IF Chosen THEN Restyled ELSE SetLook(edCanvas, 1 - edCanvas.look)
    /\ Chosen \/ edMode \in Styled
    /\ UNCHANGED <<edDoc, edDraft, edMode, edSelected, edDrag, edCropDrag, edEntry, edDown,
                   edOpen, edAsking, edDiscard, edViewer>>

(* The text entry edits the selected label, or the one being typed; a text *)
(* that is too long stays in the entry only.                               *)
TypeText(n) ==
    /\ Act /\ edEntry # Hidden /\ n # edEntry
    /\ edEntry' = n
    /\ edCanvas' =
         CASE n > MaxText -> edCanvas
           [] n <= MaxText /\ edSelected = 0 -> ReplaceEditingText(edCanvas, n)
           [] n <= MaxText /\ edSelected # 0 ->
                IF edSelected \in DOMAIN edCanvas.strokes /\ edCanvas.strokes[edSelected].tool = "Text"
                THEN ReplaceObject(edCanvas, edSelected, [edCanvas.strokes[edSelected] EXCEPT !.text = n])
                ELSE edCanvas
    /\ UNCHANGED <<edDoc, edDraft, edMode, edSelected, edDrag, edCropDrag, edDown, edOpen,
                   edAsking, edDiscard, edViewer>>

(* Enter in the text entry hides it, also when the commit is refused. *)
FinishText ==
    /\ Act /\ edEntry # Hidden
    /\ edEntry' = Hidden
    /\ edCanvas' = IF Committed.ok THEN Committed.canvas ELSE edCanvas
    /\ edDraft' = IF Committed.ok THEN Committed.draft ELSE edDraft
    /\ UNCHANGED <<edDoc, edMode, edSelected, edDrag, edCropDrag, edDown, edOpen, edAsking,
                   edDiscard, edViewer>>

(* Undo and redo: a crop being drawn is cancelled instead; anything else   *)
(* on the canvas is committed first.                                       *)
CancelCrop ==
    /\ Act /\ edCropDrag # None
    /\ edCropDrag' = None
    /\ UNCHANGED <<edDoc, edDraft, edCanvas, edMode, edSelected, edDrag, edEntry, edDown, edOpen,
                   edAsking, edDiscard, edViewer>>

WalkHistory(walked) ==
    /\ Act /\ edCropDrag = None
    /\ edDrag' = None
    /\ IF Committed.ok THEN Rebuild(walked)
       ELSE UNCHANGED <<edDraft, edCanvas, edSelected, edEntry>>
    /\ UNCHANGED <<edDoc, edMode, edCropDrag, edDown, edOpen, edAsking, edDiscard, edViewer>>

UndoEdit == WalkHistory(UndoDraft(Committed.draft))
RedoEdit == WalkHistory(RedoDraft(Committed.draft))

(* Delete removes the selected object.  A drag of it is not ended. *)
DeleteObject ==
    /\ Act /\ edSelected # 0
    /\ edSelected \in DOMAIN edCanvas.strokes
    /\ IF Committed.ok
       THEN Rebuild(SetObjects(Committed.draft, RemoveAt(Committed.draft.state.objects, edSelected)))
       ELSE UNCHANGED <<edDraft, edCanvas, edSelected, edEntry>>
    /\ UNCHANGED <<edDoc, edMode, edDrag, edCropDrag, edDown, edOpen, edAsking, edDiscard, edViewer>>

(* Apply hands the draft to the document and shows the viewer, which may   *)
(* fail to open; the image is then held by this window.  A document has    *)
(* one editor (open), so its draft is always of the current revision.      *)
ApplyEdits ==
    /\ Act
    /\ edDrag' = None /\ edCropDrag' = None
    /\ IF Committed.ok
       THEN /\ edDoc' = Commit(edDoc, Committed.draft)
            /\ Rebuild(AcknowledgeCommit(Committed.draft, edDoc'))
            /\ edViewer' \in {edViewer, TRUE}
       ELSE UNCHANGED <<edDoc, edDraft, edCanvas, edSelected, edEntry, edViewer>>
    /\ UNCHANGED <<edMode, edDown, edOpen, edAsking, edDiscard>>

(* Mutation: what is on the canvas and was not committed is not looked at. *)
DirtyDraft == EntryTooLong \/ IsDirty(edDraft)

Dirty == \/ EntryTooLong
         \/ IsDirty(edDraft)
         \/ SnapshotObjects(edCanvas) # edDraft.state.objects

AskDiscard ==
    /\ edOpen /\ ~edAsking /\ Dirty /\ ~edDiscard
    /\ edAsking' = TRUE
    /\ UNCHANGED <<edDoc, edDraft, edCanvas, edMode, edSelected, edDrag, edCropDrag, edEntry,
                   edDown, edOpen, edDiscard, edViewer, edActs>>

(* The window closes only once a viewer holds what was not output. *)
Leave ==
    \/ /\ ~NeedsOutput(edDoc) /\ edOpen' = FALSE /\ UNCHANGED edViewer
    \/ /\ NeedsOutput(edDoc) /\ edOpen' = FALSE /\ edViewer' = TRUE
    \/ /\ NeedsOutput(edDoc) /\ ~edViewer /\ UNCHANGED <<edOpen, edViewer>>

CloseEditor ==
    /\ edOpen /\ ~edAsking /\ (Dirty => edDiscard)
    /\ Leave
    /\ UNCHANGED <<edDoc, edDraft, edCanvas, edMode, edSelected, edDrag, edCropDrag, edEntry,
                   edDown, edAsking, edDiscard, edActs>>

AnswerKeep ==
    /\ edAsking /\ edAsking' = FALSE
    /\ UNCHANGED <<edDoc, edDraft, edCanvas, edMode, edSelected, edDrag, edCropDrag, edEntry,
                   edDown, edOpen, edDiscard, edViewer, edActs>>

(* The answer is remembered, also when the window cannot close. *)
AnswerDiscard ==
    /\ edAsking /\ edAsking' = FALSE /\ edDiscard' = TRUE
    /\ Leave
    /\ UNCHANGED <<edDoc, edDraft, edCanvas, edMode, edSelected, edDrag, edCropDrag, edEntry,
                   edDown, edActs>>

(* The rest of the process: the viewer composes the picture, saves it, and *)
(* may be closed.                                                          *)
ViewerShows == /\ edViewer /\ edDoc' = Snapshot(edDoc)
               /\ UNCHANGED <<edDraft, edCanvas, edMode, edSelected, edDrag, edCropDrag, edEntry,
                              edDown, edOpen, edAsking, edDiscard, edViewer, edActs>>

ViewerSaves == /\ edViewer /\ edDoc' = MarkSaved(edDoc, edDoc.revision)
               /\ UNCHANGED <<edDraft, edCanvas, edMode, edSelected, edDrag, edCropDrag, edEntry,
                              edDown, edOpen, edAsking, edDiscard, edViewer, edActs>>

ViewerCloses == /\ edViewer /\ edViewer' = FALSE
                /\ UNCHANGED <<edDoc, edDraft, edCanvas, edMode, edSelected, edDrag, edCropDrag,
                               edEntry, edDown, edOpen, edAsking, edDiscard, edActs>>

EditorNext ==
    \/ \E p \in Points, double \in BOOLEAN : PressCanvas(p, double)
    \/ \E p \in Points : MoveCanvas(p)
    \/ \E p \in Points : ReleaseCanvas(p)
    \/ \E mode \in {"select", "crop"} \union EditorTools : ChooseMode(mode)
    \/ ChangeColor \/ ChangeSize
    \/ \E n \in 0 .. MaxText + 1 : TypeText(n)
    \/ FinishText \/ CancelCrop \/ UndoEdit \/ RedoEdit \/ DeleteObject \/ ApplyEdits
    \/ AskDiscard \/ CloseEditor \/ AnswerKeep \/ AnswerDiscard
    \/ ViewerShows \/ ViewerSaves \/ ViewerCloses

-----------------------------------------------------------------------------
EditorTypeOK ==
    /\ edDraft \in Drafts /\ edDraft.initial = edDoc.state /\ CanCommit(edDoc, edDraft)
    /\ edCanvas \in Annotators /\ edCanvas.redo = <<>>
    /\ edMode \in {"select", "crop"} \union EditorTools
    /\ edSelected \in 0 .. Len(edCanvas.strokes)
    /\ edDrag \in [index : Nat, original : Strokes, start : Points, resize : BOOLEAN] \union {None}
    /\ edCropDrag \in [from : Points, to : Points] \union {None}
    /\ edEntry \in Hidden .. MaxText + 1
    /\ {edDown, edOpen, edAsking, edDiscard, edViewer} \subseteq BOOLEAN
    /\ edActs \in 0 .. MaxActs

(* What is on the canvas is what would be applied, drawn from the cache or *)
(* not, and the composed picture others get is never that of an earlier    *)
(* revision (annotate.rs draw, document.rs snapshot).                      *)
WhatIsShown ==
    /\ Draw(edCanvas) = SnapshotObjects(edCanvas)
    /\ edDoc.cache \in {None, edDoc.state}

(* Undo and redo walk one line of states, and only its far ends are ever   *)
(* forgotten, whatever was on the canvas when they were asked for          *)
(* (document.rs trim_history, editor.rs history).                          *)
Timeline == INSTANCE EditTimeline WITH
    Room <- [steps |-> HistorySteps, bytes |-> HistoryBytes], Weight <- LineBytes,
    past <- edDraft.undo, now <- edDraft.state, future <- edDraft.redo
HistoryIsTimeline == Timeline!TimelineSpec

(* A window that closes without "discard" leaves in the document exactly   *)
(* what it showed (editor.rs connect_close, dirty).                        *)
CloseKeepsDrawn ==
    [][edOpen /\ ~edOpen' /\ ~edDiscard' =>
         edDoc.state = [objects |-> Draw(edCanvas), crop |-> edDraft.state.crop]]_edVars

EditorSpec == EditorInit /\ [][EditorNext]_edVars
=============================================================================

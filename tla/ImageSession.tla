----------------------------- MODULE ImageSession -----------------------------
(***************************************************************************)
(* The windows that share one captured image in one process: the viewer    *)
(* (preview.rs), the editor (editor.rs, whose own steps are in Editor) and *)
(* a text result (result.rs).  The image lives as long as a window holds   *)
(* it; each window asks before it is the last to let go of a revision that *)
(* was neither saved nor copied.                                           *)
(***************************************************************************)
EXTENDS Document

CONSTANT MaxRevision    \* bound on the edits that are applied

ASSUME RevisionAssumption == MaxRevision \in Nat \ {0}

VARIABLES imDoc,        \* the document; its state is of no matter here
          imViewer,     \* open, the revision it shows, what it says of the
                        \* outputs of it, busy, the revision its open question
                        \* is about (0: none), and whether it is the only copy
                        \* of an image no file could be written for
          imExport,     \* the export under way, None for none
          imEditor,     \* an editor is open
          imResult,     \* "none", or the route of an open text result
          imPinned,     \* a pinned copy was opened
          imWritten,    \* the revisions that reached a file or the clipboard
          imLetGo       \* the revisions whose loss the user accepted

imVars == <<imDoc, imViewer, imExport, imEditor, imResult, imPinned, imWritten, imLetGo>>

Kinds == {"save", "copy"}
States == {"off", "done", "failed", "uncertain"}
Routes == {"StandaloneText", "SharedImage"}

(* shared_outputs: marks of the document fill in what was not requested. *)
SharedOutputs(doc, outputs) ==
    [save |-> IF outputs.save = "off" /\ doc.saved = doc.revision THEN "done" ELSE outputs.save,
     copy |-> IF outputs.copy = "off" /\ doc.copied = doc.revision THEN "done" ELSE outputs.copy]

NoOutputs == [save |-> "off", copy |-> "off"]

ClosedViewer == [open |-> FALSE, shown |-> 0, outputs |-> NoOutputs, busy |-> FALSE,
                 question |-> 0, memory |-> FALSE]

NewViewer(doc) == [ClosedViewer EXCEPT !.open = TRUE, !.shown = doc.revision,
                                       !.outputs = SharedOutputs(doc, NoOutputs)]

(* An image arrives by capture or hand-off, kept in memory only or not, as *)
(* a file of the user, which counts as saved, or as the image of a text    *)
(* action, which the user has not asked to see.                            *)
SessionInit ==
    /\ \/ imDoc = NewDocument(<<>>) /\ imResult = "none" /\ imWritten = {}
          /\ \E memory \in BOOLEAN : imViewer = [NewViewer(imDoc) EXCEPT !.memory = memory]
       \/ imDoc = MarkSaved(NewDocument(<<>>), 1) /\ imViewer = NewViewer(imDoc)
          /\ imResult = "none" /\ imWritten = {[kind |-> "save", revision |-> 1]}
       \/ imDoc = NewDocument(<<>>) /\ imViewer = ClosedViewer /\ imResult = "StandaloneText"
          /\ imWritten = {}
    /\ imExport = None /\ imEditor = FALSE /\ imPinned = FALSE /\ imLetGo = {}

(* refresh_document; composing a new revision may fail, which leaves the   *)
(* viewer on the old one.                                                  *)
Refreshed == IF imViewer.shown = imDoc.revision
             THEN [imViewer EXCEPT !.outputs = SharedOutputs(imDoc, @)]
             ELSE [imViewer EXCEPT !.shown = imDoc.revision,
                                   !.outputs = SharedOutputs(imDoc, NoOutputs)]

Refresh(viewer) ==
    \/ viewer = Refreshed
    \/ imViewer.shown # imDoc.revision /\ viewer = imViewer

Poll ==
    /\ imViewer.open /\ imViewer' = Refreshed /\ imViewer' # imViewer
    /\ UNCHANGED <<imDoc, imExport, imEditor, imResult, imPinned, imWritten, imLetGo>>

(* open_document: the viewer of the document, which may fail to open. *)
Presented == IF imViewer.open THEN Refreshed ELSE NewViewer(imDoc)

(* The buttons of the viewer: a current view, and no export under way.     *)
ViewerActs == imViewer.open /\ imViewer.question = 0 /\ ~imViewer.busy

ViewerEdits ==
    /\ ViewerActs /\ imViewer' = Refreshed /\ imEditor' = TRUE
    /\ UNCHANGED <<imDoc, imExport, imResult, imPinned, imWritten, imLetGo>>

ViewerRecognizes ==
    /\ ViewerActs /\ imViewer' = Refreshed /\ imResult' = "SharedImage"
    /\ UNCHANGED <<imDoc, imExport, imEditor, imPinned, imWritten, imLetGo>>

(* An export works on the pixels of the revision shown when it starts. *)
StartExport(kind) ==
    /\ ViewerActs
    /\ imViewer' = [Refreshed EXCEPT !.busy = TRUE]
    /\ imExport' = [kind |-> kind, revision |-> imDoc.revision, state |-> "off"]
    /\ UNCHANGED <<imDoc, imEditor, imResult, imPinned, imWritten, imLetGo>>

(* A pin opens in the process, in one step. *)
PinInProcess ==
    /\ ViewerActs
    /\ imViewer' = Refreshed /\ imPinned' \in {imPinned, TRUE}
    /\ UNCHANGED <<imDoc, imExport, imEditor, imResult, imWritten, imLetGo>>

(* The worker; one that breaks off sends nothing, and that is a failure.   *)
ExportEnds(state) ==
    /\ imExport # None /\ imExport.state = "off"
    /\ imExport' = [imExport EXCEPT !.state = state]
    /\ imWritten' = IF state = "done"
                    THEN imWritten \union {[kind |-> imExport.kind, revision |-> imExport.revision]}
                    ELSE imWritten
    /\ UNCHANGED <<imDoc, imViewer, imEditor, imResult, imPinned, imLetGo>>

(* Mutation: the picture may have changed under an export or a question. *)
ExportMatchesAnything(current, attempted) == TRUE

ExportMatchesRevision(current, attempted) == current = attempted

(* update_output *)
Report(viewer, kind, state) ==
    CASE kind = "save" -> [viewer EXCEPT !.outputs.save = state]
      [] kind = "copy" -> [viewer EXCEPT !.outputs.copy = state]

Mark(doc, kind, state, revision) ==
    CASE kind = "save" /\ state = "done" -> MarkSaved(doc, revision)
      [] kind = "copy" /\ state = "done" -> MarkCopied(doc, revision)
      [] OTHER                           -> doc

(* The result is reported only while the viewer shows what was exported. *)
ExportReported ==
    /\ imExport # None /\ imExport.state # "off"
    /\ \E viewer \in {Refreshed, imViewer} :
        /\ Refresh(viewer)
        /\ LET match == ExportMatchesRevision(viewer.shown, imExport.revision)
               told == IF match THEN Report(viewer, imExport.kind, imExport.state) ELSE viewer
           IN  /\ imViewer' = [told EXCEPT !.busy = FALSE]
               /\ imDoc' = IF match THEN Mark(imDoc, imExport.kind, imExport.state, viewer.shown)
                           ELSE imDoc
    /\ imExport' = None
    /\ UNCHANGED <<imEditor, imResult, imPinned, imWritten, imLetGo>>

(* Closing the viewer.  Its question is about the revision of that moment. *)
Unsaved == NeedsOutput(imDoc) \/ (imViewer.memory /\ imViewer.outputs.save # "done")

AskClose ==
    /\ ViewerActs /\ Unsaved
    /\ imViewer' = [imViewer EXCEPT !.question = imDoc.revision]
    /\ UNCHANGED <<imDoc, imExport, imEditor, imResult, imPinned, imWritten, imLetGo>>

AnswerStay ==
    /\ imViewer.question # 0
    /\ imViewer' = [imViewer EXCEPT !.question = 0]
    /\ UNCHANGED <<imDoc, imExport, imEditor, imResult, imPinned, imWritten, imLetGo>>

AnswerClose ==
    /\ imViewer.question # 0
    /\ imLetGo' = imLetGo \union {imViewer.question}
    /\ imViewer' = IF ExportMatchesRevision(imDoc.revision, imViewer.question)
                   THEN ClosedViewer ELSE [imViewer EXCEPT !.question = 0]
    /\ UNCHANGED <<imDoc, imExport, imEditor, imResult, imPinned, imWritten>>

CloseViewer ==
    /\ ViewerActs /\ ~Unsaved
    /\ imViewer' = ClosedViewer
    /\ UNCHANGED <<imDoc, imExport, imEditor, imResult, imPinned, imWritten, imLetGo>>

(* The editor applies its draft, and tries to show it.                     *)
EditorApplies ==
    /\ imEditor /\ imDoc.revision < MaxRevision
    /\ imDoc' = BumpRevision(imDoc)
    /\ \/ UNCHANGED imViewer
       \/ imViewer' = IF imViewer.open
                      THEN [imViewer EXCEPT !.shown = imDoc.revision + 1, !.outputs = NoOutputs]
                      ELSE NewViewer(imDoc')
    /\ UNCHANGED <<imExport, imEditor, imResult, imPinned, imWritten, imLetGo>>

(* ensure_receiver_before_close *)
EditorCloses ==
    /\ imEditor /\ imEditor' = FALSE
    /\ imViewer' = IF NeedsOutput(imDoc) THEN Presented ELSE imViewer
    /\ UNCHANGED <<imDoc, imExport, imResult, imPinned, imWritten, imLetGo>>

(* enter_image_workspace: from now on the image is not only text's.        *)
ResultViews ==
    /\ imResult # "none" /\ imResult' = "SharedImage" /\ imViewer' = Presented
    /\ UNCHANGED <<imDoc, imExport, imEditor, imPinned, imWritten, imLetGo>>

ResultEdits ==
    /\ imResult # "none" /\ imResult' = "SharedImage" /\ imEditor' = TRUE
    /\ UNCHANGED <<imDoc, imViewer, imExport, imPinned, imWritten, imLetGo>>

(* finish_close_after_handoff: a failure to show the viewer keeps the result. *)
ResultCloses ==
    /\ imResult # "none" /\ imResult' = "none"
    /\ imViewer' = IF imResult = "SharedImage" /\ NeedsOutput(imDoc) THEN Presented ELSE imViewer
    /\ imLetGo' = IF imResult = "StandaloneText" THEN imLetGo \union {1} ELSE imLetGo
    /\ UNCHANGED <<imDoc, imExport, imEditor, imPinned, imWritten>>

SessionNext ==
    \/ Poll \/ ViewerEdits \/ ViewerRecognizes \/ PinInProcess \/ ExportReported
    \/ \E kind \in Kinds : StartExport(kind)
    \/ \E state \in States \ {"off"} : ExportEnds(state)
    \/ AskClose \/ AnswerStay \/ AnswerClose \/ CloseViewer
    \/ EditorApplies \/ EditorCloses \/ ResultViews \/ ResultEdits \/ ResultCloses

SessionSpec == SessionInit /\ [][SessionNext]_imVars
-----------------------------------------------------------------------------
SessionTypeOK ==
    /\ imDoc.revision \in 1 .. MaxRevision
    /\ {imDoc.saved, imDoc.copied} \subseteq {0, imDoc.revision}
    /\ imViewer \in [open : BOOLEAN, shown : 0 .. MaxRevision,
                     outputs : [save : States, copy : States],
                     busy : BOOLEAN, question : 0 .. MaxRevision, memory : BOOLEAN]
    /\ imViewer.busy <=> imExport # None
    /\ imExport # None => imExport.kind \in Kinds /\ imExport.state \in States
    /\ {imEditor, imPinned} \subseteq BOOLEAN
    /\ imResult \in Routes \union {"none"}
    /\ imWritten \subseteq [kind : {"save", "copy"}, revision : 1 .. MaxRevision]
    /\ imLetGo \subseteq 1 .. MaxRevision

(* The last window is never closed on a revision that neither reached a    *)
(* file or the clipboard nor was given up by the user, whatever was edited *)
(* while a question was open (preview.rs, editor.rs, result.rs close).     *)
SomeoneHoldsImage ==
    (~imViewer.open /\ ~imEditor /\ imResult = "none") =>
        \/ imDoc.revision \in imLetGo
        \/ \E kind \in {"save", "copy"} : [kind |-> kind, revision |-> imDoc.revision] \in imWritten

(* "Saved" and "copied", in the document and on the viewer, are about the  *)
(* picture they are shown with (preview.rs export, document.rs mark_saved). *)
MarksTrue ==
    /\ imDoc.saved # 0 => [kind |-> "save", revision |-> imDoc.saved] \in imWritten
    /\ imDoc.copied # 0 => [kind |-> "copy", revision |-> imDoc.copied] \in imWritten
    /\ imViewer.outputs.save = "done" => [kind |-> "save", revision |-> imViewer.shown] \in imWritten
    /\ imViewer.outputs.copy = "done" => [kind |-> "copy", revision |-> imViewer.shown] \in imWritten

(* No image is lost, and no mark claims what did not happen (main.rs, the  *)
(* windows that share a document).                                         *)
ImageSafe == SomeoneHoldsImage /\ MarksTrue
=============================================================================

------------------------------- MODULE Document -------------------------------
(***************************************************************************)
(* The editable screenshot and the working copy an editor makes of it      *)
(* (document.rs): operators on a document record and a draft record.  A    *)
(* state is the objects on the source and the part of it that is cropped.  *)
(***************************************************************************)
EXTENDS Annotator, FiniteSetsExt

CONSTANTS Width,           \* the source covers 0..Width
          HistorySteps,    \* MAX_HISTORY_STEPS
          HistoryBytes     \* MAX_HISTORY_BYTES, in objects

ASSUME HistoryAssumption ==
    /\ Width \in Nat \ {0}
    /\ HistorySteps \in Nat \ {0}
    /\ HistoryBytes \in Nat /\ MaxObjects + 1 <= HistoryBytes  \* the history has room for any one state

None == [none |-> TRUE]

(* validate_objects: the number of objects, their text, and how far they   *)
(* reach beyond the source.                                                *)
ObjectsValid(objects) ==
    /\ Len(objects) <= MaxObjects
    /\ \A i \in DOMAIN objects :
        /\ objects[i].tool # "Pick"
        /\ objects[i].text <= MaxText
        /\ -Width <= objects[i].l /\ objects[i].r <= 2 * Width

CropValid(crop) == 0 <= crop.l /\ crop.l < crop.r /\ crop.r <= Width

StateValid(state) == ObjectsValid(state.objects) /\ CropValid(state.crop)

(* The states a document and its history hold. *)
EditStates == {state \in [objects : Seq(Strokes), crop : [l : Int, r : Int]] : StateValid(state)}

NewDocument(objects) ==
    [revision |-> 1, saved |-> 0, copied |-> 0, cache |-> None,
     state |-> [objects |-> objects, crop |-> [l |-> 0, r |-> Width]]]

(* The picture everybody else gets, composed once per revision. *)
Snapshot(doc) == [doc EXCEPT !.cache = IF @ = None THEN doc.state ELSE @]

NeedsOutput(doc) == doc.saved # doc.revision /\ doc.copied # doc.revision

MarkSaved(doc, revision) == IF revision = doc.revision THEN [doc EXCEPT !.saved = revision] ELSE doc
MarkCopied(doc, revision) == IF revision = doc.revision THEN [doc EXCEPT !.copied = revision] ELSE doc

BumpRevision(doc) ==
    [doc EXCEPT !.revision = @ + 1, !.cache = None, !.saved = 0, !.copied = 0]

Drafts == [base : Nat, initial : EditStates, state : EditStates, undo : Seq(EditStates),
           redo : Seq(EditStates)]

NewDraft(doc) == [base |-> doc.revision, initial |-> doc.state, state |-> doc.state,
                  undo |-> <<>>, redo |-> <<>>]

CanCommit(doc, draft) == doc.revision = draft.base /\ StateValid(draft.state)

Commit(doc, draft) ==
    IF doc.state = draft.state THEN doc
    ELSE [BumpRevision(doc) EXCEPT !.state = draft.state]

(* Applying keeps the history of the window. *)
AcknowledgeCommit(draft, doc) == [draft EXCEPT !.base = doc.revision, !.initial = draft.state]

IsDirty(draft) == draft.state # draft.initial

Bytes(state) == 1 + Len(state.objects)

LineBytes(states) == MapThenSumSet(LAMBDA i : Bytes(states[i]), DOMAIN states)

HistoryFits(states) == Len(states) <= HistorySteps /\ LineBytes(states) <= HistoryBytes

DropFirst(s, n) == SubSeq(s, n + 1, Len(s))

(* The oldest undo states go first, and when there are none left, the redo *)
(* states farthest from the present.                                       *)
TrimHistory(draft) ==
    LET line == draft.undo \o draft.redo
        used == Len(draft.undo)
        n == CHOOSE k \in 0 .. Len(line) :
                /\ HistoryFits(DropFirst(line, k))
                /\ \A j \in 0 .. k - 1 : ~HistoryFits(DropFirst(line, j))
    IN  [draft EXCEPT !.undo = DropFirst(@, Smaller(n, used)),
                      !.redo = DropFirst(@, Larger(n - used, 0))]

(* Mutation: what was undone stays redoable after a new change. *)
RecordKeepsRedo(draft, state) ==
    IF state = draft.state THEN draft
    ELSE TrimHistory([draft EXCEPT !.undo = Append(@, draft.state), !.state = state])

RecordState(draft, state) ==
    IF state = draft.state THEN draft
    ELSE TrimHistory([draft EXCEPT !.undo = Append(@, draft.state), !.state = state, !.redo = <<>>])

SetObjects(draft, objects) == RecordState(draft, [draft.state EXCEPT !.objects = objects])
SetCrop(draft, crop) == RecordState(draft, [draft.state EXCEPT !.crop = crop])

UndoDraft(draft) ==
    IF draft.undo = <<>> THEN draft
    ELSE TrimHistory([draft EXCEPT !.undo = Front(@), !.state = Last(draft.undo),
                                   !.redo = Append(@, draft.state)])

RedoDraft(draft) ==
    IF draft.redo = <<>> THEN draft
    ELSE TrimHistory([draft EXCEPT !.redo = Front(@), !.state = Last(draft.redo),
                                   !.undo = Append(@, draft.state)])

(* The canvas an editor opens on a draft. *)
DraftAnnotator(draft) == ReplaceObjects(BeginCanvas(NewAnnotator), draft.state.objects)
=============================================================================

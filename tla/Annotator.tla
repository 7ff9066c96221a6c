------------------------------ MODULE Annotator ------------------------------
(***************************************************************************)
(* The drawing surface shared by the capture overlay and the editor        *)
(* (annotate.rs).  It has no steps of its own: its owner calls it from its *)
(* event handlers, so it is a library of operators on a record.            *)
(*                                                                         *)
(* The picture is one line of pixels: a stroke covers l..r.  Colours,      *)
(* widths and type sizes are the single attribute look, and a text is the  *)
(* number of its characters.                                               *)
(***************************************************************************)
EXTENDS Integers, Sequences, SequencesExt

CONSTANTS MaxObjects,   \* strokes a canvas accepts (MAX_OBJECTS)
          MaxText       \* characters a label accepts (MAX_TEXT_BYTES)

ASSUME LimitsAssumption == MaxObjects \in Nat \ {0} /\ MaxText \in Nat \ {0}

Tools == {"Pen", "Rect", "Cover", "Text", "Pick"}
NoStroke == [tool |-> "none"]

Strokes == {s \in [tool : Tools, l : Int, r : Int, text : Nat, look : Int] : s.l <= s.r}

Stroke(tool, x, look) == [tool |-> tool, l |-> x, r |-> x, text |-> 0, look |-> look]

Annotators ==
    [tool : Tools, look : Int, strokes : Seq(Strokes), redo : Seq(Strokes),
     active : Strokes \union {NoStroke}, start : Int, editing : Strokes \union {NoStroke},
     preedit : BOOLEAN, cache : Seq(Strokes), stale : BOOLEAN]

(* An empty canvas whose cache shows nothing, as it is drawn: nothing. *)
NewAnnotator == [tool |-> "Pen", look |-> 0, strokes |-> <<>>, redo |-> <<>>,
                 active |-> NoStroke, start |-> 0, editing |-> NoStroke, preedit |-> FALSE,
                 cache |-> <<>>, stale |-> FALSE]

RebuildCache(a) == [a EXCEPT !.cache = a.strokes, !.stale = FALSE]

BeginCanvas(a) == RebuildCache(a)

AppendStroke(a, stroke) ==
    [a EXCEPT !.strokes = Append(@, stroke),
              !.cache = IF a.stale THEN @ ELSE Append(@, stroke)]

(* A new stroke ends the branch that was undone; a redone one does not. *)
Record(a, stroke) == AppendStroke([a EXCEPT !.redo = <<>>], stroke)

EndEditing(a) == [a EXCEPT !.editing = NoStroke, !.preedit = FALSE]

CommitText(a) ==
    IF a.editing # NoStroke /\ a.editing.text > 0
    THEN Record(EndEditing(a), a.editing)
    ELSE EndEditing(a)

SetTool(a, tool) == [(IF tool # "Text" THEN CommitText(a) ELSE a) EXCEPT !.tool = tool]

SetLook(a, look) == [a EXCEPT !.look = look,
                              !.editing = IF @ # NoStroke THEN [@ EXCEPT !.look = look] ELSE @]

(* A press with the text tool first finishes the label before it, and that *)
(* label counts towards the limit.                                         *)
Press(a, x) ==
    LET settled == IF a.tool = "Text" THEN CommitText(a) ELSE a
        stroke == Stroke(a.tool, x, a.look)
    IN  CASE a.tool = "Pick"                     -> settled
          [] a.tool # "Pick" /\ Len(settled.strokes) >= MaxObjects -> settled
          [] a.tool = "Text" /\ Len(settled.strokes) < MaxObjects
                                                 -> [settled EXCEPT !.editing = stroke]
          [] OTHER                               -> [settled EXCEPT !.active = stroke, !.start = x]

Smaller(x, y) == IF x < y THEN x ELSE y
Larger(x, y) == IF x < y THEN y ELSE x

(* A shape follows the pointer; a pen covers all it passed. *)
Motion(a, x) ==
    CASE a.active.tool = "none" -> a
      [] a.active.tool = "Pen"  -> [a EXCEPT !.active.l = Smaller(@, x), !.active.r = Larger(@, x)]
      [] OTHER -> [a EXCEPT !.active.l = Smaller(a.start, x), !.active.r = Larger(a.start, x)]

(* A click that did not move draws nothing. *)
Release(a, x) ==
    LET drawn == (IF a.active.tool = "Pen" THEN a ELSE Motion(a, x)).active
        idle == [a EXCEPT !.active = NoStroke, !.start = 0]
    IN  IF a.active # NoStroke /\ drawn.l # drawn.r THEN Record(idle, drawn) ELSE idle

TypeStr(a, n) ==
    IF a.editing = NoStroke THEN a
    ELSE IF a.editing.text + n > MaxText THEN a
    ELSE [a EXCEPT !.editing.text = @ + n, !.preedit = FALSE]

ReplaceEditingText(a, n) ==
    IF a.editing = NoStroke \/ n > MaxText THEN a
    ELSE [a EXCEPT !.editing.text = n, !.preedit = FALSE]

SetPreedit(a, on) == IF a.editing = NoStroke THEN a ELSE [a EXCEPT !.preedit = on]

(* Backing out of a composition does not delete what was already typed. *)
Backspace(a) ==
    CASE a.editing = NoStroke                -> a
      [] a.editing # NoStroke /\ a.preedit   -> [a EXCEPT !.preedit = FALSE]
      [] a.editing # NoStroke /\ ~a.preedit  -> [a EXCEPT !.editing.text = Larger(@ - 1, 0)]

HasContent(a) == a.strokes # <<>> \/ a.editing # NoStroke

(* The label being typed is the newest thing, and undo cancels it. *)
Undo(a) ==
    CASE a.editing # NoStroke                        -> EndEditing(a)
      [] a.editing = NoStroke /\ a.strokes # <<>>    ->
            RebuildCache([a EXCEPT !.strokes = Front(@), !.redo = Append(@, Last(a.strokes))])
      [] OTHER                                       -> a

Redo(a) ==
    IF a.redo = <<>> THEN a
    ELSE AppendStroke([a EXCEPT !.redo = Front(@)], Last(a.redo))

(* The ink as metadata: strokes, the one being drawn, a label with text. *)
SnapshotObjects(a) ==
    a.strokes \o (IF a.active # NoStroke THEN <<a.active>> ELSE <<>>)
              \o (IF a.editing # NoStroke /\ a.editing.text > 0 THEN <<a.editing>> ELSE <<>>)

ReplaceObjects(a, objects) ==
    RebuildCache([EndEditing(a) EXCEPT !.strokes = objects, !.active = NoStroke, !.redo = <<>>])

(* Mutation: the cache is not known to be stale. *)
ReplaceObjectOnly(a, index, object) ==
    IF index \notin DOMAIN a.strokes THEN a ELSE [a EXCEPT !.strokes[index] = object]

(* Dragging an object does not redraw the cache: it is stale until the     *)
(* gesture is committed.                                                   *)
ReplaceObject(a, index, object) ==
    IF index \notin DOMAIN a.strokes \/ a.strokes[index] = object THEN a
    ELSE [a EXCEPT !.strokes[index] = object, !.stale = TRUE]

(* What the screen shows and what is baked into the picture: the finished  *)
(* strokes, from the cache unless it is stale, and what is in flight.      *)
Finished(a) == IF a.stale THEN a.strokes ELSE a.cache

Draw(a) == Finished(a) \o (IF a.active # NoStroke THEN <<a.active>> ELSE <<>>)
                       \o (IF a.editing # NoStroke /\ a.editing.text > 0 THEN <<a.editing>> ELSE <<>>)
=============================================================================

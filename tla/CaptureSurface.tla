--------------------------- MODULE CaptureSurface ---------------------------
(***************************************************************************)
(* The capture overlay (surface.rs, selector.rs): a frozen screenshot on   *)
(* which the user drags a selection, draws on it and ends with one action. *)
(* Pointer, keyboard, input method, focus, the grace timer and the idle    *)
(* watchdog all enter it; the selector and the annotator both want the     *)
(* pointer, and the mode annotating decides which one gets an event.       *)
(*                                                                         *)
(* The screen is one line of pixels.  A press falls on the canvas, on a    *)
(* button, on the padding of a bar or on an open popup: where these lie is *)
(* layout, so each is an action of its own.                                *)
(***************************************************************************)
EXTENDS Annotator, FiniteSets

CONSTANTS ScreenWidth,   \* pixels of the screen
          MinSelection,  \* shortest selection kept at release (MIN_SEL)
          OverlayTools,  \* annotation tools the user picks
          Looks,         \* sizes and colours
          MaxPresses     \* pointer presses of a run

ASSUME OverlayAssumption == /\ ScreenWidth \in Nat \ {0} /\ MinSelection \in Nat \ {0}
                            /\ OverlayTools \subseteq Tools /\ Looks \subseteq Int

VARIABLES csState,    \* struct State of the overlay: a record, see CaptureInit
          csIm,       \* the input method is attached to the key controller
          csDown,     \* the first pointer button is held
          csPresses,  \* presses so far, up to the bound
          csGrace,    \* a cancel is scheduled after a focus loss
          csLaid,     \* the region toolbar has bounds from an earlier draw
          csScreen,   \* the ink of the last draw
          csOutcome   \* what the handler was given

csVars == <<csState, csIm, csDown, csPresses, csGrace, csLaid, csScreen, csOutcome>>

Positions == 0..ScreenWidth
NoRect == <<0, 0>>
Valid(rect) == rect[1] < rect[2]
Holds(rect, x) == rect[1] <= x /\ x < rect[2]
(* Mutation: an edge dragged past its opposite is not swapped with it. *)
InOrder(x, y) == <<x, y>>

Spanning(x, y) == <<Smaller(x, y), Larger(x, y)>>

NoOutcome == [action |-> "none", picture |-> <<>>]

CaptureInit ==
    /\ \E long \in BOOLEAN :
          csState = [mode |-> "Idle", rect |-> NoRect, orig |-> NoRect, anchor |-> 0,
                     handle |-> "none", annotator |-> NewAnnotator, annotating |-> FALSE,
                     canvas |-> NoRect,
                     popup |-> "none", slider |-> FALSE, long |-> long]
    /\ csOutcome = NoOutcome /\ csScreen = <<>>
    /\ csIm = FALSE /\ csDown = FALSE /\ csPresses = 0 /\ csGrace = FALSE /\ csLaid = FALSE

-----------------------------------------------------------------------------
(* The selector. *)

(* Handles win over the interior, and that over the rest of the screen. *)
SelectorPress(s, x) ==
    LET at == [s EXCEPT !.anchor = x, !.orig = s.rect, !.handle = "none"]
    IN  CASE Valid(s.rect) /\ x = s.rect[1]     -> [at EXCEPT !.mode = "Resizing", !.handle = "w"]
          [] Valid(s.rect) /\ x = s.rect[2]     -> [at EXCEPT !.mode = "Resizing", !.handle = "e"]
          [] Valid(s.rect) /\ s.rect[1] < x /\ x < s.rect[2] -> [at EXCEPT !.mode = "Moving"]
          [] OTHER                              -> [at EXCEPT !.mode = "Selecting", !.rect = <<x, x>>]

(* A moved selection keeps its size at the border; an edge dragged past    *)
(* its opposite flips the rectangle.                                       *)
SelectorMotion(s, x) ==
    LET width == s.orig[2] - s.orig[1]
        left == Smaller(Larger(s.orig[1] + x - s.anchor, 0), ScreenWidth - width)
    IN  CASE s.mode = "Selecting" -> [s EXCEPT !.rect = Spanning(s.anchor, x)]
          [] s.mode = "Moving"    -> [s EXCEPT !.rect = <<left, left + width>>]
          [] s.mode = "Resizing"  ->
                [s EXCEPT !.rect = IF s.handle = "w" THEN Spanning(x, s.orig[2])
                                                     ELSE Spanning(s.orig[1], x)]
          [] OTHER                -> s

(* Where a drag began is read no more once it is over. *)
DragOver(s) == [s EXCEPT !.handle = "none", !.anchor = 0, !.orig = NoRect]

SelectorClear(s) == [DragOver(s) EXCEPT !.rect = NoRect, !.mode = "Idle"]

SelectorRelease(s) ==
    IF s.rect[2] - s.rect[1] < MinSelection THEN SelectorClear(s)
    ELSE [DragOver(s) EXCEPT !.mode = "HasSelection"]

-----------------------------------------------------------------------------
(* Ink as it lies inside a rectangle; strokes stay in screen coordinates   *)
(* when the selection is moved or resized under them.                      *)
Cut(s, rect) == [s EXCEPT !.l = Larger(@, rect[1]), !.r = Smaller(@, rect[2] - 1)]
Meets(s, rect) == Larger(s.l, rect[1]) <= Smaller(s.r, rect[2] - 1)

Clip(ink, rect) ==
    LET kept[i \in 0 .. Len(ink)] ==
            IF i = 0 THEN <<>>
            ELSE IF Meets(ink[i], rect) THEN Append(kept[i - 1], Cut(ink[i], rect))
            ELSE kept[i - 1]
    IN  kept[Len(ink)]

InFlight(a) == (IF a.active # NoStroke THEN <<a.active>> ELSE <<>>)
               \o (IF a.editing # NoStroke /\ a.editing.text > 0 THEN <<a.editing>> ELSE <<>>)

(* The finished strokes come from the cache, which has the extent of the   *)
(* selection annotating last began on.                                     *)
Drawn(a, s) == Clip(Clip(a.cache, s.canvas) \o InFlight(a), s.rect)

(* draw(): ink is shown while annotating and when there is some. *)
Shown(s) == IF Valid(s.rect) /\ (s.annotating \/ HasContent(s.annotator))
            THEN Drawn(s.annotator, s) ELSE <<>>

(* A pin gets the flat picture, the others a document of every object. *)
Taken(s, action) == CASE action = "long" -> <<>>
                      [] action = "pin"  -> Drawn(CommitText(s.annotator), s)
                      [] OTHER           -> Clip(SnapshotObjects(s.annotator), s.rect)

Emit(action, picture) ==
    /\ csOutcome' = [action |-> action, picture |-> picture]
    /\ csGrace' = FALSE

(* Every picture-taking action of the region toolbar, and long. *)
FinalActions == {"confirm", "pin", "long", "preview"}

Invoke(s, action) ==
    IF Valid(s.rect) THEN Emit(action, Taken(s, action)) ELSE csOutcome' = csOutcome

DismissPopup(s) == [s EXCEPT !.popup = "none", !.slider = FALSE]

ReturnToSelection(s) ==
    [DismissPopup(s) EXCEPT !.annotator = CommitText(@), !.annotating = FALSE]

Supports(s) == s.annotator.tool \in {"Pen", "Rect", "Text"}

TogglePopup(s, popup) ==
    IF Supports(s) THEN [s EXCEPT !.slider = FALSE, !.popup = IF @ = popup THEN "none" ELSE popup]
                   ELSE s

(* The buttons that only change the overlay. *)
Local(s, action) ==
    CASE action = "annotate"   -> IF Valid(s.rect)
                                  THEN [s EXCEPT !.annotating = TRUE, !.canvas = s.rect,
                                                 !.annotator = BeginCanvas(@)]
                                  ELSE s
      [] action = "anno.back"  -> ReturnToSelection(s)
      [] action = "anno.done"  -> ReturnToSelection(s)
      [] action = "anno.undo"  -> [s EXCEPT !.annotator = Undo(@)]
      [] action = "anno.redo"  -> [s EXCEPT !.annotator = Redo(@)]
      [] action = "anno.color" -> TogglePopup(s, "Color")
      [] action = "anno.width" -> TogglePopup(s, "Size")
      [] action \in Tools      -> [DismissPopup(s) EXCEPT !.annotator = SetTool(@, action)]
      [] OTHER                 -> s

AnnotateButtons == {"anno.back", "anno.done", "anno.undo", "anno.redo",
                    "anno.color", "anno.width"} \cup OverlayTools

(* dispatch(): anno.done finishes when something was drawn. *)
Dispatch(s, action) ==
    LET next == Local(s, action)
    IN  /\ csState' = next
        /\ IF action = "cancel" THEN Emit("cancel", <<>>)
           ELSE IF action \in FinalActions THEN Invoke(next, action)
           ELSE IF action = "anno.done" /\ HasContent(next.annotator) THEN Invoke(next, "confirm")
           ELSE csOutcome' = csOutcome

(* A handler ends by queueing a draw, which also lays the bars out; the    *)
(* overlay that has given its outcome is closed as it looked.              *)
Redraw ==
    /\ csScreen' = IF csOutcome' = NoOutcome THEN Shown(csState') ELSE csScreen
    /\ csLaid' = (csLaid \/ /\ csState'.mode = "HasSelection"
                            /\ ~csState'.annotating /\ ~csState'.long)

(* Mutation: the input method is attached and never detached. *)
SyncAttaches == csIm' = (csIm \/ csState'.annotator.editing # NoStroke)

(* Im::sync, after every press and key: attached exactly while typing. *)
Sync == csIm' = (csState'.annotator.editing # NoStroke)

Open == csOutcome = NoOutcome

(* mark_activity: input after a focus loss withdraws the pending cancel. *)
Input == Open /\ csGrace' = FALSE

-----------------------------------------------------------------------------
(* The pointer.  Another button can be pressed only while none is held. *)

(* annotate_press on the canvas: the picker takes a colour, any other tool *)
(* starts a stroke or a label, only inside the selection; an open popup is *)
(* closed instead.                                                         *)
AnnotatePress(s, x) ==
    CASE s.popup # "none"                                   -> DismissPopup(s)
      [] s.popup = "none" /\ ~Holds(s.rect, x)           -> s
      [] OTHER                                              -> [s EXCEPT !.annotator = Press(@, x)]

Pressed == Input /\ ~csDown /\ csPresses < MaxPresses /\ csPresses' = csPresses + 1

PressSurface(x) ==
    /\ Pressed /\ csDown' = TRUE
    /\ csState' = IF csState.annotating THEN AnnotatePress(csState, x)
                                         ELSE SelectorPress(csState, x)
    /\ csOutcome' = csOutcome /\ Sync /\ Redraw

PressButton(action) ==
    /\ Pressed /\ csDown' = TRUE
    /\ IF csState.annotating THEN action \in AnnotateButtons
       ELSE csLaid /\ csState.mode = "HasSelection"
            /\ action \in FinalActions \cup {"cancel", "annotate"}
    /\ Dispatch(csState, action) /\ Sync /\ Redraw

(* A bar laid out by an earlier draw keeps its bounds, shown or not. *)
PressPadding ==
    /\ Pressed /\ csDown' = TRUE
    /\ csState.annotating \/ csLaid
    /\ UNCHANGED <<csState, csOutcome>> /\ Sync /\ Redraw

PressPopup ==
    /\ Pressed /\ csDown' = TRUE
    /\ csState.annotating /\ csState.popup # "none"
    /\ \E look \in Looks :
          csState' = [csState EXCEPT !.annotator = SetLook(@, look),
                                     !.popup = IF @ = "Color" THEN "none" ELSE @,
                                     !.slider = (csState.popup = "Size")]
    /\ csOutcome' = csOutcome /\ Sync /\ Redraw

(* Clears the selection and the drawing; nothing while annotating. *)
RightPress ==
    /\ Pressed
    /\ csState' = IF csState.annotating THEN csState
                  ELSE [SelectorClear(csState) EXCEPT !.annotator = NewAnnotator]
    /\ UNCHANGED <<csDown, csOutcome>> /\ Sync /\ Redraw

(* The end of the slider's drag, of a stroke or of the selector's drag; a  *)
(* fresh selection for a long shot is its own confirmation.                *)
ReleaseButton(x) ==
    /\ Input /\ csDown /\ csDown' = FALSE /\ UNCHANGED <<csPresses, csIm>>
    /\ LET s == [csState EXCEPT !.slider = FALSE]
           done == SelectorRelease(s)
       IN  csState' = CASE csState.slider                        -> s
                        [] ~csState.slider /\ s.annotating       -> [s EXCEPT !.annotator = Release(@, x)]
                        [] ~csState.slider /\ ~s.annotating      -> done
    /\ IF /\ ~csState.slider /\ ~csState.annotating /\ csState.long
          /\ csState.mode = "Selecting" /\ csState'.mode = "HasSelection"
       THEN Invoke(csState', "long") ELSE csOutcome' = csOutcome
    /\ Redraw

MovePointer(x) ==
    /\ Input /\ UNCHANGED <<csDown, csPresses, csIm>>
    /\ \E look \in Looks :
       csState' = CASE csState.slider -> [csState EXCEPT !.annotator = SetLook(@, look)]
                    [] ~csState.slider /\ csState.annotating ->
                          [csState EXCEPT !.annotator = Motion(@, x)]
                    [] ~csState.slider /\ ~csState.annotating -> SelectorMotion(csState, x)
    /\ csOutcome' = csOutcome /\ Redraw

(* The wheel steers the size while annotating. *)
Scroll ==
    /\ Input /\ csState.annotating /\ UNCHANGED <<csDown, csPresses, csIm>>
    /\ \E look \in Looks : csState' = [csState EXCEPT !.annotator = SetLook(@, look)]
    /\ csOutcome' = csOutcome /\ Redraw

-----------------------------------------------------------------------------
(* The keyboard. *)

(* Ctrl+Enter ends in a preview, with the label being typed. *)
PreviewKey ==
    /\ Input /\ Valid(csState.rect) /\ UNCHANGED <<csDown, csPresses>>
    /\ Dispatch(IF csState.annotating THEN [csState EXCEPT !.annotator = CommitText(@)]
                                      ELSE csState, "preview")
    /\ Sync /\ Redraw

(* plain_key: Escape always cancels; the rest needs a selection.  The      *)
(* hotkeys act whatever the pointer is doing.                              *)
PlainKey(action) ==
    /\ Input /\ ~csState.annotating /\ UNCHANGED <<csDown, csPresses>>
    /\ action \in FinalActions \cup {"cancel", "annotate"}
    /\ action = "cancel" \/ Valid(csState.rect)
    /\ Dispatch(csState, action) /\ Sync /\ Redraw

(* While a label is typed every key but the editing commands is text. *)
TypeKey ==
    /\ Input /\ csState.annotating /\ csState.annotator.editing # NoStroke /\ UNCHANGED <<csDown, csPresses>>
    /\ \E after \in {CommitText(csState.annotator), Backspace(csState.annotator),
                     TypeStr(csState.annotator, 1)} :
          csState' = [csState EXCEPT !.annotator = after]
    /\ csOutcome' = csOutcome /\ Sync /\ Redraw

UndoKey ==
    /\ Input /\ csState.annotating /\ UNCHANGED <<csDown, csPresses>>
    /\ \E action \in {"anno.undo", "anno.redo"} : Dispatch(csState, action)
    /\ Sync /\ Redraw

(* Escape closes a popup first, then leaves annotating. *)
EscapeKey ==
    /\ Input /\ csState.annotating /\ csState.annotator.editing = NoStroke /\ UNCHANGED <<csDown, csPresses>>
    /\ IF csState.popup # "none" THEN csState' = DismissPopup(csState) /\ csOutcome' = csOutcome
       ELSE Dispatch(csState, "anno.back")
    /\ Sync /\ Redraw

AnnotateKey(action) ==
    /\ Input /\ csState.annotating /\ csState.annotator.editing = NoStroke /\ UNCHANGED <<csDown, csPresses>>
    /\ Dispatch(csState, action) /\ Sync /\ Redraw

(* The input method composes and commits; it sees keys only while attached. *)
ImeInput ==
    /\ Open /\ csIm /\ UNCHANGED <<csDown, csPresses, csIm, csGrace>>
    /\ \E after \in {SetPreedit(csState.annotator, TRUE), TypeStr(csState.annotator, 1)} :
          csState' = [csState EXCEPT !.annotator = after]
    /\ csOutcome' = csOutcome /\ Redraw

-----------------------------------------------------------------------------
(* Focus and the two timers that cancel an overlay nobody is using. *)

FocusEnters ==
    /\ Open /\ csGrace' = FALSE
    /\ UNCHANGED <<csState, csIm, csDown, csPresses, csLaid, csScreen, csOutcome>>

FocusLeaves ==
    /\ Open /\ ~csState.annotating /\ ~csGrace
    /\ csGrace' = TRUE
    /\ UNCHANGED <<csState, csIm, csDown, csPresses, csLaid, csScreen, csOutcome>>

(* The grace timer decides again when it fires. *)
GraceFires ==
    /\ Open /\ csGrace
    /\ csGrace' = FALSE
    /\ csOutcome' = IF csState.annotating THEN csOutcome ELSE [NoOutcome EXCEPT !.action = "cancel"]
    /\ UNCHANGED <<csState, csIm, csDown, csPresses, csLaid, csScreen>>

(* Forty-five idle seconds; annotating is exempt. *)
WatchdogCancels ==
    /\ Open /\ ~csState.annotating
    /\ Emit("cancel", <<>>)
    /\ UNCHANGED <<csState, csIm, csDown, csPresses, csLaid, csScreen>>

Pointer == \/ \E x \in Positions : PressSurface(x) \/ ReleaseButton(x) \/ MovePointer(x)
           \/ \E action \in AnnotateButtons \cup FinalActions \cup {"cancel", "annotate"} :
                 PressButton(action)
           \/ PressPadding \/ PressPopup \/ RightPress \/ Scroll

Keyboard == \/ PreviewKey \/ TypeKey \/ UndoKey \/ EscapeKey \/ ImeInput
            \/ \E action \in FinalActions \cup {"cancel", "annotate"} : PlainKey(action)
            \/ \E action \in AnnotateButtons : AnnotateKey(action)

Timers == FocusEnters \/ FocusLeaves \/ GraceFires \/ WatchdogCancels

CaptureNext == Pointer \/ Keyboard \/ Timers

CaptureSpec == CaptureInit /\ [][CaptureNext]_csVars

-----------------------------------------------------------------------------
(* The values the overlay's state takes. *)
CaptureTypeOK ==
    /\ csState.mode \in {"Idle", "Selecting", "HasSelection", "Moving", "Resizing"}
    /\ csState.rect \in Positions \X Positions /\ csState.rect[1] <= csState.rect[2]
    /\ csState.canvas \in Positions \X Positions
    /\ csState.popup \in {"none", "Color", "Size"} /\ csState.handle \in {"none", "w", "e"}
    /\ {csState.annotating, csState.slider, csIm, csDown, csGrace, csLaid} \subseteq BOOLEAN
    /\ csState.annotator.tool \in Tools
    /\ csOutcome.action \in FinalActions \cup {"none", "cancel"}

(* One owner for the input: the slider steers only from its own popup, a   *)
(* popup is open only over a tool it applies to, a label is open only      *)
(* while annotating, and the input method is attached exactly while one is *)
(* typed, so that it can neither swallow a hotkey nor miss a text.         *)
OneInputOwner ==
    csOutcome = NoOutcome =>
        /\ csState.slider => csState.popup = "Size"
        /\ csState.popup # "none" => csState.annotating /\ Supports(csState)
        /\ csState.annotator.editing # NoStroke => csState.annotating
        /\ csIm = (csState.annotator.editing # NoStroke)

(* The picture handed on has the ink the last draw showed inside the       *)
(* selection, when no stroke is in flight and nothing was drawn past the   *)
(* edge of the canvas it was begun on.                                     *)
FinishedInkCaptured ==
    csOutcome.action \in FinalActions \ {"long"}
    /\ csState.annotator.active = NoStroke
    /\ Clip(csState.annotator.strokes, csState.canvas) = csState.annotator.strokes
    => csOutcome.picture = csScreen

(* The overlay is what it looks like: one owner of the input, and the      *)
(* picture that was shown.                                                 *)
OverlaySound == OneInputOwner /\ FinishedInkCaptured
=============================================================================

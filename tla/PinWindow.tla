------------------------------ MODULE PinWindow ------------------------------
(***************************************************************************)
(* A pinned picture (vellum-ui/src/pin.rs): the window that reads the      *)
(* clipboard, the pin with its framing, the compositor that floats and     *)
(* sizes it (own_window.rs), and the two background outputs. One axis of   *)
(* the framing: a picture of 8 pixels, scales in quarters, offsets in      *)
(* quarter pixels.                                                         *)
(***************************************************************************)
EXTENDS Integers

CONSTANTS PinSizes, FloatAttempts, MaxPinActs

ASSUME PinAssumption ==
    /\ PinSizes \subseteq {n \in Nat : n > 0 /\ n % 4 = 0} /\ PinSizes # {}
    /\ FloatAttempts \in Nat \ {0} /\ MaxPinActs \in Nat

VARIABLES pnHow,     \* who opened it: "spawned", "viewer" or "clipboard"
          pnReader,  \* the clipboard window: open, gate, worker, retry button
          pnPin,     \* "none", "open" or "closed"
          pnView,    \* framing: win, scale, offset, fitted
          pnAlloc,   \* the size the window has, and what was last drawn
          pnFloat,   \* placing: phase, attempts left, resizable
          pnHandle, pnTarget, pnAsked,
          pnJobs,    \* per output: gate, worker, status line
          pnToast, pnSurface,
          pnKept,    \* outputs that did their work
          pnExit, pnActs

pnVars == <<pnHow, pnReader, pnPin, pnView, pnAlloc, pnFloat, pnHandle, pnTarget, pnAsked,
            pnJobs, pnToast, pnSurface, pnKept, pnExit, pnActs>>

PinOutputs == {"save", "copy"}
PictureWidth == 8
MinScale == 1
MaxScale == 8
MinWindow == 4

Lesser(a, b) == IF a < b THEN a ELSE b
Greater(a, b) == IF a > b THEN a ELSE b
Clamped(scale) == Greater(MinScale, Lesser(MaxScale, scale))
DrawnWidth(scale) == (PictureWidth * scale) \div 4

Centred(view) == [view EXCEPT !.offset = 2 * (view.win - DrawnWidth(view.scale))]
Fit(view) == Centred([view EXCEPT !.scale = Lesser(4, (4 * view.win) \div PictureWidth)])

(* Mutation: every view only follows its centre. *)
ResizedFree(view, size) ==
    [view EXCEPT !.win = size, !.offset = @ + 2 * (size - view.win)]

(* View::resize: a fitted view follows the window, a free one its centre.  *)
Resized(view, size) ==
    LET grown == [view EXCEPT !.win = size] IN
    IF size = view.win THEN view
    ELSE IF view.fitted THEN Fit(grown)
    ELSE [grown EXCEPT !.offset = @ + 2 * (size - view.win)]

(* View::zoom_content and reset. *)
ZoomedAt(view, scale, pointer) ==
    IF scale = view.scale THEN view
    ELSE [view EXCEPT !.scale = scale, !.fitted = FALSE,
                      !.offset = 4 * pointer - ((4 * pointer - view.offset) * scale) \div view.scale]

ResetView(view) == Centred([view EXCEPT !.scale = 4, !.fitted = FALSE])

Rested == [gate |-> "idle", worker |-> "none", status |-> "none"]
NoReader == [open |-> FALSE, gate |-> "closed", worker |-> "none", retry |-> FALSE]

PinInit ==
    /\ pnHow \in {"spawned", "viewer", "clipboard"}
    /\ pnReader = IF pnHow = "clipboard"
                  THEN [open |-> TRUE, gate |-> "busy", worker |-> "running", retry |-> FALSE] ELSE NoReader
    /\ pnPin = IF pnHow = "clipboard" THEN "none" ELSE "open"
    /\ pnTarget \in PinSizes
    /\ pnView = Fit([win |-> pnTarget, scale |-> 4, offset |-> 0, fitted |-> TRUE])
    /\ pnAlloc = [size |-> 0, drawn |-> FALSE]
    /\ pnFloat = [phase |-> "presented", left |-> 0, resizable |-> FALSE]
    /\ pnHandle = FALSE /\ pnAsked = 0
    /\ pnJobs = [output \in PinOutputs |-> Rested]
    /\ pnToast = FALSE /\ pnSurface = "pending"
    /\ pnKept = {} /\ pnExit = "running" /\ pnActs = 0

Acts == pnActs < MaxPinActs /\ pnActs' = pnActs + 1
PinRests == UNCHANGED <<pnView, pnAlloc, pnFloat, pnHandle, pnTarget, pnAsked>>
OutputsRest == UNCHANGED <<pnJobs, pnKept>>
ReaderRests == UNCHANGED <<pnHow, pnReader>>
ScreenRests == UNCHANGED <<pnToast, pnSurface>>

-----------------------------------------------------------------------------
(* The clipboard window: read_clipboard behind a gate. *)

PasteEnds ==
    /\ pnReader.worker = "running"
    /\ \E end \in {"image", "failed"} : pnReader' = [pnReader EXCEPT !.worker = end]
    /\ PinRests /\ OutputsRest /\ ScreenRests /\ UNCHANGED <<pnHow, pnPin, pnExit, pnActs>>

(* The completion: an answer for a closed window is dropped. *)
PasteDelivered ==
    /\ pnReader.worker \in {"image", "failed"} /\ pnExit = "running"
    /\ \/ /\ pnReader.gate # "busy"
          /\ pnReader' = [pnReader EXCEPT !.worker = "none"] /\ UNCHANGED pnPin
       \/ /\ pnReader.gate = "busy" /\ pnReader.worker = "image"
          /\ pnReader' = NoReader /\ pnPin' = "open"
       \/ /\ pnReader.gate = "busy" /\ pnReader.worker = "failed"
          /\ pnReader' = [pnReader EXCEPT !.worker = "none", !.gate = "idle", !.retry = TRUE] /\ UNCHANGED pnPin
    /\ PinRests /\ OutputsRest /\ ScreenRests /\ UNCHANGED <<pnHow, pnExit, pnActs>>

RetryPaste ==
    /\ Acts /\ pnReader.open /\ pnReader.retry /\ pnReader.gate = "idle"
    /\ pnReader' = [pnReader EXCEPT !.gate = "busy", !.worker = "running", !.retry = FALSE]
    /\ PinRests /\ OutputsRest /\ ScreenRests /\ UNCHANGED <<pnHow, pnPin, pnExit>>

CloseReader ==
    /\ pnReader.open /\ pnReader' = [pnReader EXCEPT !.open = FALSE, !.gate = "closed"]
    /\ PinRests /\ OutputsRest /\ ScreenRests /\ UNCHANGED <<pnHow, pnPin, pnExit, pnActs>>

-----------------------------------------------------------------------------
(* The compositor maps, allocates and floats. *)

WindowMapped ==
    /\ pnPin = "open" /\ pnFloat.phase = "presented"
    /\ pnFloat' = [pnFloat EXCEPT !.phase = "mapped"]
    /\ \E size \in PinSizes : pnAlloc' = [size |-> size, drawn |-> FALSE]
    /\ ReaderRests /\ OutputsRest /\ ScreenRests
    /\ UNCHANGED <<pnPin, pnView, pnHandle, pnTarget, pnAsked, pnExit, pnActs>>

(* connect_map, 60 ms later: nothing for a pin already closed. *)
PlacingStarts ==
    /\ pnFloat.phase = "mapped" /\ pnExit = "running"
    /\ pnFloat' = IF pnPin = "open" THEN [pnFloat EXCEPT !.phase = "floating", !.left = FloatAttempts]
                                    ELSE [pnFloat EXCEPT !.phase = "placed"]
    /\ ReaderRests /\ OutputsRest /\ ScreenRests
    /\ UNCHANGED <<pnPin, pnView, pnAlloc, pnHandle, pnTarget, pnAsked, pnExit, pnActs>>

(* own_window::attempt: the callback runs once, floated or given up, and   *)
(* re-asserts the size the pin now wants.                                  *)
Floated ==
    /\ pnFloat.phase = "floating" /\ pnExit = "running"
    /\ \E floated \in BOOLEAN :
          IF ~floated /\ pnFloat.left > 1
          THEN pnFloat' = [pnFloat EXCEPT !.left = @ - 1] /\ UNCHANGED <<pnHandle, pnAsked, pnAlloc>>
          ELSE /\ pnFloat' = [pnFloat EXCEPT !.phase = "placed", !.left = 0, !.resizable = (pnPin = "open")]
               /\ pnHandle' \in IF pnPin = "open" THEN BOOLEAN ELSE {FALSE}
               /\ pnAsked' = IF pnHandle' THEN pnTarget ELSE pnAsked
               /\ pnAlloc' \in {pnAlloc} \cup (IF pnHandle' THEN {[size |-> pnTarget, drawn |-> FALSE]} ELSE {})
    /\ ReaderRests /\ OutputsRest /\ ScreenRests /\ UNCHANGED <<pnPin, pnView, pnTarget, pnExit, pnActs>>

(* A tiled window before it floats, or the user's own resizing. *)
CompositorResizes ==
    /\ Acts /\ pnPin = "open" /\ pnFloat.phase # "presented"
    /\ \E size \in PinSizes : size # pnAlloc.size /\ pnAlloc' = [size |-> size, drawn |-> FALSE]
    /\ ReaderRests /\ OutputsRest /\ ScreenRests
    /\ UNCHANGED <<pnPin, pnView, pnFloat, pnHandle, pnTarget, pnAsked, pnExit>>

(* connect_draw: the view adopts the allocation before it is painted. *)
DrawPin ==
    /\ pnPin = "open" /\ pnFloat.phase # "presented" /\ ~pnAlloc.drawn
    /\ pnView' = Resized(pnView, pnAlloc.size) /\ pnAlloc' = [pnAlloc EXCEPT !.drawn = TRUE]
    /\ ReaderRests /\ OutputsRest /\ ScreenRests
    /\ UNCHANGED <<pnPin, pnFloat, pnHandle, pnTarget, pnAsked, pnExit, pnActs>>

-----------------------------------------------------------------------------
(* What the user does. *)

PinUsable == pnPin = "open" /\ pnFloat.phase # "presented"
(* toast: one timer, the newest text. *)
Toasts == pnToast' = TRUE /\ UNCHANGED pnSurface

ZoomContent ==
    /\ PinUsable /\ Acts /\ Toasts
    /\ \E up \in BOOLEAN, pointer \in {0, pnView.win} :
          pnView' = ZoomedAt(pnView, Clamped(IF up THEN pnView.scale * 2 ELSE pnView.scale \div 2), pointer)
    /\ pnAlloc' = [pnAlloc EXCEPT !.drawn = FALSE]
    /\ ReaderRests /\ OutputsRest /\ UNCHANGED <<pnPin, pnFloat, pnHandle, pnTarget, pnAsked, pnExit>>

ResetZoom ==
    /\ PinUsable /\ Acts /\ Toasts /\ pnView' = ResetView(pnView)
    /\ pnAlloc' = [pnAlloc EXCEPT !.drawn = FALSE]
    /\ ReaderRests /\ OutputsRest /\ UNCHANGED <<pnPin, pnFloat, pnHandle, pnTarget, pnAsked, pnExit>>

(* zoom_window: from the compositor's size where it is known; the content  *)
(* scales by the ratio the window really gets.                             *)
ZoomWindow ==
    /\ PinUsable /\ Acts /\ Toasts
    /\ \E up \in BOOLEAN, known \in BOOLEAN :
          LET now == IF pnHandle /\ known THEN pnAlloc.size ELSE pnView.win
              size == IF up THEN 2 * now ELSE Greater(MinWindow, now \div 2)
          IN /\ pnView' = [win |-> size, scale |-> Clamped((pnView.scale * size) \div now),
                           offset |-> (pnView.offset * size) \div now, fitted |-> FALSE]
             /\ pnTarget' = size /\ pnAsked' = IF pnHandle THEN size ELSE pnAsked
             /\ pnAlloc' \in {[pnAlloc EXCEPT !.drawn = FALSE], [size |-> size, drawn |-> FALSE]}
    /\ ReaderRests /\ OutputsRest /\ UNCHANGED <<pnPin, pnFloat, pnHandle, pnExit>>

(* start_output: one job per kind. *)
StartOutput ==
    /\ PinUsable /\ Acts
    /\ \E output \in PinOutputs :
          pnJobs' = IF pnJobs[output].gate = "idle"
                    THEN [pnJobs EXCEPT ![output] = [gate |-> "busy", worker |-> "running", status |-> "working"]]
                    ELSE pnJobs
    /\ ReaderRests /\ PinRests /\ ScreenRests /\ UNCHANGED <<pnPin, pnKept, pnExit>>

(* The worker runs to its end whatever the window does. *)
OutputEnds ==
    /\ pnExit = "running"
    /\ \E output \in PinOutputs, end \in {"kept", "failed"} :
          /\ pnJobs[output].worker = "running" /\ pnJobs' = [pnJobs EXCEPT ![output].worker = end]
          /\ pnKept' = IF end = "kept" THEN pnKept \cup {output} ELSE pnKept
    /\ ReaderRests /\ PinRests /\ ScreenRests /\ UNCHANGED <<pnPin, pnExit, pnActs>>

OutputDelivered ==
    /\ pnExit = "running"
    /\ \E output \in PinOutputs :
          /\ pnJobs[output].worker \in {"kept", "failed"}
          /\ pnJobs' = [pnJobs EXCEPT ![output] =
                IF @.gate = "busy" THEN [gate |-> "idle", worker |-> "none", status |-> @.worker]
                                   ELSE [@ EXCEPT !.worker = "none"]]
    /\ ReaderRests /\ PinRests /\ ScreenRests /\ UNCHANGED <<pnPin, pnKept, pnExit, pnActs>>

(* The worker that converts the pixels. *)
PixelsReady ==
    /\ pnPin = "open" /\ pnSurface = "pending" /\ pnSurface' \in {"drawn", "failed"}
    /\ pnToast' = (pnToast \/ pnSurface' = "failed")
    /\ ReaderRests /\ PinRests /\ OutputsRest /\ UNCHANGED <<pnPin, pnExit, pnActs>>

ToastExpires ==
    /\ pnToast /\ pnToast' = FALSE
    /\ ReaderRests /\ PinRests /\ OutputsRest /\ UNCHANGED <<pnPin, pnSurface, pnExit, pnActs>>

ClosePin ==
    /\ pnPin = "open" /\ pnPin' = "closed"
    /\ pnJobs' = [output \in PinOutputs |-> [pnJobs[output] EXCEPT !.gate = "closed"]]
    /\ pnToast' = FALSE
    /\ ReaderRests /\ PinRests /\ UNCHANGED <<pnSurface, pnKept, pnExit, pnActs>>

(* The application ends with its last window. *)
ProcessEnds ==
    /\ pnExit = "running" /\ ~pnReader.open /\ pnPin # "open" /\ pnHow # "viewer"
    /\ pnExit' = IF pnPin = "none" THEN "failed" ELSE "ok"
    /\ ReaderRests /\ PinRests /\ OutputsRest /\ ScreenRests /\ UNCHANGED <<pnPin, pnActs>>

PinNext ==
    \/ PasteEnds \/ PasteDelivered \/ RetryPaste \/ CloseReader
    \/ WindowMapped \/ PlacingStarts \/ Floated \/ CompositorResizes \/ DrawPin
    \/ ZoomContent \/ ResetZoom \/ ZoomWindow
    \/ StartOutput \/ OutputEnds \/ OutputDelivered
    \/ PixelsReady \/ ToastExpires \/ ClosePin \/ ProcessEnds

(* For the search: what a closed window looked like decides nothing.       *)
PinSeen ==
    <<pnHow, pnReader, pnPin, pnFloat, pnJobs, pnKept, pnExit,
      IF pnPin = "closed" THEN <<>> ELSE <<pnView, pnAlloc, pnHandle, pnTarget, pnAsked, pnToast, pnSurface, pnActs>>>>

PinSpec == PinInit /\ [][PinNext]_pnVars

-----------------------------------------------------------------------------
PinTypeOK ==
    /\ pnHow \in {"spawned", "viewer", "clipboard"} /\ pnPin \in {"none", "open", "closed"}
    /\ pnReader \in [open : BOOLEAN, gate : {"idle", "busy", "closed"},
                     worker : {"none", "running", "image", "failed"}, retry : BOOLEAN]
    /\ pnView \in [win : Nat \ {0}, scale : MinScale .. MaxScale, offset : Int, fitted : BOOLEAN]
    /\ pnAlloc \in [size : Nat, drawn : BOOLEAN]
    /\ pnFloat \in [phase : {"presented", "mapped", "floating", "placed"}, left : 0 .. FloatAttempts, resizable : BOOLEAN]
    /\ pnHandle \in BOOLEAN /\ pnTarget \in Nat \ {0} /\ pnAsked \in Nat
    /\ pnJobs \in [PinOutputs -> [gate : {"idle", "busy", "closed"}, worker : {"none", "running", "kept", "failed"},
                                  status : {"none", "working", "kept", "failed"}]]
    /\ pnToast \in BOOLEAN /\ pnSurface \in {"pending", "drawn", "failed"}
    /\ pnKept \subseteq PinOutputs /\ pnExit \in {"running", "ok", "failed"} /\ pnActs \in 0 .. MaxPinActs

(* A view nobody zoomed shows the whole picture centred in the window it   *)
(* really got, whatever sizes the compositor gave it on the way.           *)
FittedIsWhole ==
    pnPin = "open" /\ pnAlloc.drawn /\ pnView.fitted =>
        DrawnWidth(pnView.scale) <= pnAlloc.size /\ pnView.offset = 2 * (pnAlloc.size - DrawnWidth(pnView.scale))

(* Once the compositor can be told a size, the last size it was told is    *)
(* the one the pin last wanted: a zoom made before the window floated is   *)
(* not undone.                                                             *)
WantedSizeAsked == pnPin = "open" /\ pnHandle => pnAsked = pnTarget

(* A status line that says saved or copied tells of work that was done, a  *)
(* job that blocks its button has a worker whose answer is to come, and    *)
(* the clipboard window with a closed gate or a free button waits for none.*)
OutputsTold ==
    \A output \in PinOutputs :
        LET job == pnJobs[output] IN
        /\ job.status = "kept" => output \in pnKept
        /\ pnPin = "open" => (job.gate = "busy" <=> job.worker # "none")

ReaderTold ==
    /\ pnReader.open => (pnReader.gate = "busy" <=> pnReader.worker # "none") /\ (pnReader.retry = (pnReader.gate = "idle"))
    /\ pnExit = "ok" => pnPin = "closed"

(* FittedIsWhole, WantedSizeAsked, OutputsTold and ReaderTold, whatever    *)
(* the compositor and the workers do in between.                           *)
PinSound == FittedIsWhole /\ WantedSizeAsked /\ OutputsTold /\ ReaderTold
=============================================================================

------------------------------ MODULE ScreenCopy ------------------------------
(***************************************************************************)
(* The Wayland capturer of a long shot (vellum-ui/src/screencopy.rs): one  *)
(* connection for all its frames, one buffer that survives from frame to   *)
(* frame, copies that wait for damage with a heartbeat copy when none      *)
(* comes.  The screen is one line of columns; the compositor is modelled   *)
(* by what the protocol lets it send.                                      *)
(***************************************************************************)
EXTENDS Integers, Sequences, FiniteSets

CONSTANTS Outputs, Layouts, Formats, MaxFrames, MaxChanges

ASSUME ScreenCopyAssumption ==
    /\ MaxFrames \in Nat /\ MaxChanges \in Nat
    /\ "other" \in Formats \* a format that supported_format refuses
    /\ Layouts \subseteq [x : Int, w : Nat \ {0}]

VARIABLES syClient,  \* ScreencopyCapturer and its CaptureState
          syCall,    \* the call under way and how the last one ended
          syInbox,   \* events sent and not yet dispatched, in order
          syMemory,  \* what the shared buffer holds
          syScreen,  \* the screen: its outputs and what it shows
          syPending, \* frames the compositor still works on
          syCounts

syVars == <<syClient, syCall, syInbox, syMemory, syScreen, syPending, syCounts>>

Selected == [x |-> 1, w |-> 1]
NoPlace == [x |-> 0, w |-> 0]
NoFrame == 0

Encloses(bounds, rect) == bounds.x <= rect.x /\ rect.x + rect.w <= bounds.x + bounds.w

(* OutputInfo::logical_rect: none when removed or not told yet. *)
LogicalRect(outputs, o) == IF o \in DOMAIN outputs THEN outputs[o] ELSE NoPlace
Containing(outputs) == {o \in DOMAIN outputs : Encloses(outputs[o], Selected)}
(* select_output: the tightest of the outputs that contain the selection. *)
Tightest(outputs) ==
    {o \in Containing(outputs) : \A p \in Containing(outputs) : outputs[o].w <= outputs[p].w}

CaptureState(version, globals) ==
    [version |-> version, globals |-> globals, outputs |-> <<>>, output |-> "none", frame |-> NoFrame,
     buffer |-> "none", done |-> FALSE, failed |-> FALSE, inverted |-> FALSE, ready |-> FALSE,
     wait |-> FALSE, hasFrame |-> FALSE]

Blank == [frame |-> NoFrame, shows |-> 0, column |-> 0, inverted |-> FALSE]
CallOver(phase, outcome) ==
    [phase |-> phase, outcome |-> outcome, shot |-> Blank, asked |-> 0, steady |-> FALSE]

ScreenCopyInit ==
    /\ \E version \in 1 .. 3, globals \in {{"shm", "screencopy", "xdg"}, {"shm", "xdg"}, {"shm", "screencopy"}, {"xdg", "screencopy"}} :
          syClient = CaptureState(version, globals)
    /\ syMemory = Blank
    /\ syCall = CallOver("registry", "none")
    /\ syInbox = <<>>
    /\ \E places \in [Outputs -> Layouts] :
          syScreen = [places |-> places, shows |-> 0, copied |-> 0]
    /\ syPending = {}
    /\ syCounts = [frames |-> 0, changes |-> 0]

-----------------------------------------------------------------------------
(* ScreencopyCapturer::new: the registry, then the geometry of every       *)
(* output, each followed by a sync.                                        *)

NewFails ==
    /\ syCall.phase \in {"registry", "geometry"}
    /\ \E why \in {"Timeout", "Cancelled", "Failed"} : syCall' = CallOver("over", why)
    /\ UNCHANGED <<syClient, syInbox, syMemory, syScreen, syPending, syCounts>>

BindGlobals ==
    /\ syCall.phase = "registry"
    /\ IF "xdg" \in syClient.globals
         THEN syCall' = CallOver("geometry", "none")
         ELSE syCall' = CallOver("over", "Unavailable")
    /\ UNCHANGED <<syClient, syInbox, syMemory, syScreen, syPending, syCounts>>

(* Everything sent before the answer to the sync has been dispatched. *)
LearnOutputs ==
    /\ syCall.phase = "geometry"
    /\ LET known == [o \in {p \in Outputs : syScreen.places[p] # NoPlace} |-> syScreen.places[o]]
           usable == {"shm", "screencopy"} \subseteq syClient.globals IN
       \/ /\ usable /\ syInbox' = <<>>
          /\ \E o \in Tightest(known) :
                syClient' = [syClient EXCEPT !.outputs = known, !.output = o]
          /\ syCall' = CallOver("idle", "none")
       \/ /\ ~usable \/ Tightest(known) = {}
          /\ syCall' = CallOver("over", "Unavailable")
          /\ UNCHANGED <<syClient, syInbox>>
    /\ UNCHANGED <<syMemory, syScreen, syPending, syCounts>>

-----------------------------------------------------------------------------
(* Events of a frame that was destroyed are dropped by the client library. *)
LayoutEvents == {"Removed", "Position", "Size"}
Undropped ==
    LET kept[i \in 0 .. Len(syInbox)] ==
            IF i = 0 THEN <<>>
            ELSE IF syInbox[i].kind \in LayoutEvents THEN Append(kept[i - 1], syInbox[i])
            ELSE kept[i - 1]
    IN  kept[Len(syInbox)]

(* Mutated: `done` of the frame before is left. *)
FreshKeepsDone(client) ==
    [client EXCEPT !.failed = FALSE, !.inverted = FALSE, !.ready = FALSE]

(* What every frame starts from. *)
Fresh(client) ==
    [client EXCEPT !.done = FALSE, !.failed = FALSE, !.inverted = FALSE, !.ready = FALSE]

(* capture and capture_once up to the request. *)
BeginFrame(phase, wait) ==
    LET place == LogicalRect(syClient.outputs, syClient.output)
        id == syCounts.frames + 1 IN
    /\ syCounts.frames < MaxFrames
    /\ \/ /\ Encloses(place, Selected)
          /\ syClient' = [Fresh(syClient) EXCEPT !.wait = wait, !.frame = id]
          /\ syPending' = syPending \union
                {[id |-> id, output |-> syClient.output, x |-> Selected.x - place.x, stage |-> "buffer", damage |-> FALSE]}
          /\ syCounts' = [syCounts EXCEPT !.frames = id]
          /\ syCall' = [phase |-> phase, outcome |-> "none", shot |-> Blank, asked |-> syScreen.shows,
                        steady |-> syScreen.places[syClient.output] = place]
       \/ /\ ~Encloses(place, Selected)
          /\ syClient' = [Fresh(syClient) EXCEPT !.wait = wait, !.frame = NoFrame]
          /\ syCall' = CallOver("idle", "Failed")
          /\ UNCHANGED <<syPending, syCounts>>
    /\ syInbox' = Undropped
    /\ UNCHANGED <<syMemory, syScreen>>

CaptureBegins ==
    /\ syCall.phase = "idle"
    /\ BeginFrame("first", syClient.hasFrame /\ syClient.version >= 2)

(* A second without damage: one ordinary copy shows that the compositor    *)
(* still answers.                                                          *)
Heartbeat ==
    /\ syCall.phase = "first" /\ syClient.wait /\ ~syClient.done
    /\ BeginFrame("heartbeat", FALSE)

(* drive_until gives up; the frame is destroyed. *)
GivesUp(outcome) ==
    /\ syCall.phase \in {"first", "heartbeat"}
    /\ outcome # "Failed" => ~syClient.done
    /\ outcome = "Timeout" => ~syClient.wait
    /\ syClient' = [syClient EXCEPT !.frame = NoFrame]
    /\ syCall' = CallOver("idle", outcome) /\ syInbox' = Undropped
    /\ UNCHANGED <<syMemory, syScreen, syPending, syCounts>>

(* The frame is done: its picture is read out of the shared buffer. *)
FrameDone ==
    /\ syCall.phase \in {"first", "heartbeat"} /\ syClient.done
    /\ LET ok == ~syClient.failed /\ syClient.buffer # "none" IN
       /\ syClient' = [syClient EXCEPT !.frame = NoFrame, !.hasFrame = @ \/ ok]
       /\ syCall' = [syCall EXCEPT !.phase = "idle", !.outcome = IF ok THEN "Ok" ELSE "Failed",
                                   !.shot = [syMemory EXCEPT !.inverted = (@ # syClient.inverted)]]
    /\ syInbox' = Undropped
    /\ UNCHANGED <<syMemory, syScreen, syPending, syCounts>>

-----------------------------------------------------------------------------
(* Events. *)

SubmitCopy(client) ==
    IF client.buffer = "none" THEN [client EXCEPT !.failed = TRUE, !.done = TRUE] ELSE client

(* Buffer: with a supported format the buffer is kept or made anew. *)
OnBuffer(event) ==
    IF event.format = "other" THEN [syClient EXCEPT !.failed = TRUE, !.done = TRUE]
    ELSE [syClient EXCEPT !.ready = TRUE, !.buffer = event.format]

OnBufferDone ==
    IF ~syClient.failed /\ syClient.ready THEN SubmitCopy(syClient)
    ELSE IF syClient.failed THEN syClient
    ELSE [syClient EXCEPT !.failed = TRUE, !.done = TRUE]

(* The event asks for the copy: Buffer before version 3, BufferDone since. *)
AsksCopy(event, client) ==
    /\ ~client.failed
    /\ \/ event.kind = "Buffer" /\ client.version < 3
       \/ event.kind = "BufferDone" /\ client.ready

FrameEvent(event) ==
    CASE event.kind = "Buffer" -> OnBuffer(event)
      [] event.kind = "BufferDone" -> OnBufferDone
      [] event.kind = "Flags" -> [syClient EXCEPT !.inverted = event.inverted]
      [] event.kind = "Ready" -> [syClient EXCEPT !.done = TRUE]
      [] event.kind = "Failed" -> [syClient EXCEPT !.failed = TRUE, !.done = TRUE]

(* LogicalPosition, LogicalSize and GlobalRemove; a removed output has no  *)
(* geometry again.                                                         *)
Relearned(event) ==
    LET known == syClient.outputs IN
    IF event.output \notin DOMAIN known THEN known
    ELSE CASE event.kind = "Removed" -> [o \in DOMAIN known \ {event.output} |-> known[o]]
           [] event.kind = "Position" -> [known EXCEPT ![event.output].x = event.x]
           [] event.kind = "Size" -> [known EXCEPT ![event.output].w = event.w]

DispatchEvents ==
    /\ syCall.phase \in {"first", "heartbeat"} /\ syInbox # <<>>
    /\ LET event == Head(syInbox) IN
       \/ /\ event.kind \in LayoutEvents
          /\ syClient' = [syClient EXCEPT !.outputs = Relearned(event)]
          /\ UNCHANGED <<syPending, syMemory>>
       \/ /\ event.kind \notin LayoutEvents
          /\ syClient' = FrameEvent(event)
          /\ syMemory' = IF syClient'.buffer = syClient.buffer THEN syMemory ELSE Blank
          /\ syPending' =
               IF AsksCopy(event, syClient')
               THEN {[f EXCEPT !.stage = IF f.id = syClient.frame THEN "copy" ELSE @,
                               !.damage = IF f.id = syClient.frame THEN syClient.wait /\ syClient.version >= 2 ELSE @]
                     : f \in syPending}
               ELSE syPending
    /\ syInbox' = Tail(syInbox)
    /\ UNCHANGED <<syCall, syScreen, syCounts>>

-----------------------------------------------------------------------------
(* The compositor: it takes the requests in order, the destruction of a    *)
(* frame before the next frame.                                            *)

Sends(events) == syInbox' = syInbox \o events
SendsOf(f, events) == IF f.id = syClient.frame THEN Sends(events) ELSE UNCHANGED syInbox
Working(f) == f \in syPending /\ \A g \in syPending : f.id <= g.id

OffersBuffer(f) ==
    /\ Working(f) /\ f.id = syClient.frame /\ f.stage = "buffer"
    /\ \E format \in Formats :
          SendsOf(f, <<[kind |-> "Buffer", format |-> format]>>
                \o IF syClient.version = 3 THEN <<[kind |-> "BufferDone"]>> ELSE <<>>)
    /\ syPending' = (syPending \ {f}) \union {[f EXCEPT !.stage = "offered"]}
    /\ UNCHANGED <<syClient, syCall, syMemory, syScreen, syCounts>>

(* Version 3 may offer other kinds of buffer only. *)
OffersNone(f) ==
    /\ Working(f) /\ f.id = syClient.frame /\ f.stage = "buffer" /\ syClient.version = 3
    /\ SendsOf(f, <<[kind |-> "BufferDone"]>>)
    /\ syPending' = syPending \ {f}
    /\ UNCHANGED <<syClient, syCall, syMemory, syScreen, syCounts>>

FailsFrame(f) ==
    /\ Working(f) /\ f.id = syClient.frame /\ f.stage # "offered"
    /\ SendsOf(f, <<[kind |-> "Failed"]>>)
    /\ syPending' = syPending \ {f}
    /\ UNCHANGED <<syClient, syCall, syMemory, syScreen, syCounts>>

(* The copy of a frame that the client destroyed may still be written. *)
Copies(f) ==
    /\ Working(f) /\ f.stage = "copy" /\ syScreen.places[f.output] # NoPlace
    /\ f.damage => syScreen.shows # syScreen.copied
    /\ \E inverted \in BOOLEAN :
          /\ syMemory' = [frame |-> f.id, shows |-> syScreen.shows, column |-> syScreen.places[f.output].x + f.x,
                          inverted |-> inverted]
          /\ SendsOf(f, <<[kind |-> "Flags", inverted |-> inverted], [kind |-> "Ready"]>>)
    /\ syScreen' = [syScreen EXCEPT !.copied = syScreen.shows]
    /\ syPending' = syPending \ {f}
    /\ UNCHANGED <<syClient, syCall, syCounts>>

(* A destroyed frame is forgotten. *)
Forgets(f) ==
    /\ Working(f) /\ f.id # syClient.frame
    /\ syPending' = syPending \ {f}
    /\ UNCHANGED <<syClient, syCall, syInbox, syMemory, syScreen, syCounts>>

Changes == syCounts.changes < MaxChanges /\ syCounts' = [syCounts EXCEPT !.changes = @ + 1]

PageChanges ==
    /\ Changes /\ syScreen' = [syScreen EXCEPT !.shows = @ + 1]
    /\ UNCHANGED <<syClient, syCall, syInbox, syMemory, syPending>>

OutputChanges(o) ==
    /\ Changes /\ syScreen.places[o] # NoPlace
    /\ \/ /\ syScreen' = [syScreen EXCEPT !.places[o] = NoPlace]
          /\ Sends(<<[kind |-> "Removed", output |-> o]>>)
       \/ \E place \in Layouts \ {syScreen.places[o]} :
          /\ syScreen' = [syScreen EXCEPT !.places[o] = place]
          /\ Sends(<<[kind |-> "Position", output |-> o, x |-> place.x],
                     [kind |-> "Size", output |-> o, w |-> place.w]>>)
    /\ syCall' = [syCall EXCEPT !.steady = @ /\ (o # syClient.output)]
    /\ UNCHANGED <<syClient, syMemory, syPending>>

ScreenCopyNext ==
    \/ NewFails \/ BindGlobals \/ LearnOutputs
    \/ CaptureBegins \/ Heartbeat \/ FrameDone \/ DispatchEvents \/ PageChanges
    \/ \E outcome \in {"Timeout", "Cancelled", "Failed"} : GivesUp(outcome)
    \/ \E f \in syPending : OffersBuffer(f) \/ OffersNone(f) \/ FailsFrame(f) \/ Copies(f) \/ Forgets(f)
    \/ \E o \in Outputs : OutputChanges(o)

ScreenCopySpec == ScreenCopyInit /\ [][ScreenCopyNext]_syVars

-----------------------------------------------------------------------------
ScreenCopyTypeOK ==
    /\ syClient.version \in 1 .. 3 /\ syClient.buffer \in {"none"} \union Formats
    /\ DOMAIN syClient.outputs \subseteq Outputs /\ syClient.frame \in 0 .. syCounts.frames
    /\ syCall.phase \in {"registry", "geometry", "idle", "first", "heartbeat", "over"}
    /\ syCall.outcome \in {"none", "Ok", "Failed", "Timeout", "Cancelled", "Unavailable"}
    /\ \A f \in syPending : f.stage \in {"buffer", "offered", "copy"} /\ f.id \in 1 .. syCounts.frames

(* A picture that capture() returns was copied for this very request, not  *)
(* left in the shared buffer by an earlier one, shows the page as it was   *)
(* then or later and the right way up, and shows the selected place unless *)
(* the output moved meanwhile; a second without an answer to a copy that   *)
(* waits for damage is never an error, and no frame is left behind         *)
(* (capture, capture_once and the events of screencopy.rs).                *)
FrameTrue ==
    /\ syCall.outcome = "Ok" =>
        /\ syCall.shot.frame = syCounts.frames /\ ~syCall.shot.inverted
        /\ syCall.shot.shows >= syCall.asked
        /\ syCall.steady => syCall.shot.column = Selected.x
    /\ syCall.outcome = "Timeout" => ~(syClient.wait /\ syClient.hasFrame)
    /\ syCall.phase \in {"idle", "over"} => syClient.frame = NoFrame
=============================================================================

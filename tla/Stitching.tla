------------------------------ MODULE Stitching ------------------------------
(***************************************************************************)
(* The stitcher of a long shot (vellum-stitch): it is given one view of a  *)
(* page after another, grows a canvas at both ends by what each shows, and *)
(* at the end tries to compose a better picture from the views it kept.    *)
(*                                                                         *)
(* The page is a column of rows, all different, numbered from 0; a view is *)
(* ViewRows of them from its row down.  Scoring may miss a match and never *)
(* invents one: it yields how far a view lies from one it knows.  Where    *)
(* that is on the canvas is the stitcher's own bookkeeping, and what this  *)
(* module is about.                                                        *)
(***************************************************************************)
EXTENDS Integers, Sequences, SequencesExt, FiniteSetsExt

CONSTANTS PageRows,      \* rows of the page
          ViewRows,      \* rows of a view
          MinOverlap,    \* rows two views share to be matched
          MinShift,      \* rows a view must have moved to count (min_shift_px)
          Interval,      \* rows between two ordinary keyframes
          HistoryLen,    \* views kept for matching (HISTORY_LEN)
          KeyLimit,      \* keyframes kept (KEYFRAME_MEMORY_LIMIT, KEYFRAME_MAX_COUNT)
          CanvasLimits,  \* the numbers of rows a canvas may be limited to (CAPTURE_LIMITS)
          MaxViews       \* bound on the views that are fed

ASSUME StitchAssumption ==
    /\ {PageRows, ViewRows, MinOverlap, MinShift, Interval, HistoryLen, KeyLimit, MaxViews}
          \subseteq Nat \ {0}
    /\ CanvasLimits \subseteq Nat
    /\ MinOverlap <= ViewRows /\ ViewRows <= PageRows /\ KeyLimit >= 2

VARIABLES siLimit,       \* the rows this canvas may have
          siCanvas,      \* the rows of the page on the canvas
          siAnchor,      \* where on the canvas the last accepted view lies
          siOffset,      \* how far that view had moved (last_offset)
          siHistory,     \* accepted views, the newest last: row, position
          siKeep,        \* the keyframes, the view that may become one, disabled
          siDirection,   \* of the last motion: -1, 0, 1
          siFailures,    \* views missed in a row (failure_run)
          siJumped,      \* temporal_discontinuity
          siLimited,     \* resource_limited
          siDecision,    \* last_decision
          siSequence,    \* views fed
          siView,        \* the row of the last view fed
          siPicture      \* what the shot delivered

siVars == <<siLimit, siCanvas, siAnchor, siOffset, siHistory, siKeep, siDirection, siFailures, siJumped,
            siLimited, siDecision, siSequence, siView, siPicture>>

NoKeyframe == [sequence |-> 0]
NoPosition == -1
NoPicture == [from |-> 0, to |-> 0, rebuilt |-> FALSE, warned |-> FALSE]
Discarded == [frames |-> <<>>, pending |-> NoKeyframe, disabled |-> TRUE]

Rows(row) == [i \in 1 .. ViewRows |-> row + i - 1]
Reach == ViewRows - MinOverlap
Abs(n) == IF n < 0 THEN -n ELSE n
Smallest(a, b) == IF a < b THEN a ELSE b

StitchInit ==
    /\ siLimit \in CanvasLimits
    /\ siCanvas = <<>> /\ siAnchor = 0 /\ siOffset = 0 /\ siHistory = <<>>
    /\ siKeep = [Discarded EXCEPT !.disabled = FALSE]
    /\ siDirection = 0 /\ siFailures = 0 /\ siJumped = FALSE /\ siLimited = FALSE
    /\ siDecision = "none" /\ siSequence = 0 /\ siView = 0 /\ siPicture = NoPicture

-----------------------------------------------------------------------------
(* Keyframes. *)

Priority == [Motion |-> 0, Tail |-> 1, Recovered |-> 2, Seed |-> 2, Turn |-> 3, Failure |-> 4]

Keyframe(row, position, reason) ==
    [sequence |-> siSequence + 1, row |-> row, position |-> position, reason |-> reason]

(* trim: an ordinary frame between the endpoints goes first, the one whose *)
(* loss leaves the smallest gap.                                           *)
Evicted(frames) ==
    LET interior == 2 .. Len(frames) - 1
        ordinary == {i \in interior : frames[i].reason \in {"Motion", "Tail"}}
        pool == IF ordinary = {} THEN interior ELSE ordinary
        Gap(i) == frames[i + 1].sequence - frames[i - 1].sequence
        Before(i, j) == \/ Priority[frames[i].reason] < Priority[frames[j].reason]
                        \/ /\ Priority[frames[i].reason] = Priority[frames[j].reason]
                           /\ Gap(i) < Gap(j) \/ (Gap(i) = Gap(j) /\ i <= j)
    IN  CHOOSE i \in pool : \A j \in pool : Before(i, j)

Trim(frames) == IF Len(frames) > KeyLimit THEN RemoveAt(frames, Evicted(frames)) ELSE frames

(* remember_keyframe: frames stay in order of capture, a frame that is     *)
(* known may only gain in rank, and one too large for half the room ends   *)
(* the offline rebuild.                                                    *)
Remember(keep, frame, huge) ==
    LET known == {i \in DOMAIN keep.frames : keep.frames[i].sequence = frame.sequence}
        older == {i \in DOMAIN keep.frames : keep.frames[i].sequence < frame.sequence}
    IN  CASE keep.disabled -> keep
          [] ~keep.disabled /\ known # {} ->
                [keep EXCEPT !.frames = [i \in DOMAIN @ |->
                    IF i \in known /\ Priority[frame.reason] > Priority[@[i].reason]
                    THEN [@[i] EXCEPT !.reason = frame.reason] ELSE @[i]]]
          [] ~keep.disabled /\ known = {} /\ huge -> Discarded
          [] OTHER -> [keep EXCEPT !.frames = Trim(InsertAt(@, Max(older \union {0}) + 1, frame))]

Placed(frames) == {i \in DOMAIN frames : frames[i].position # NoPosition}

Hold(keep, frame) == IF keep.disabled THEN keep ELSE [keep EXCEPT !.pending = frame]

(* The pending view, kept under a reason of its own. *)
Promote(keep, reason, huge) ==
    IF keep.pending = NoKeyframe THEN keep
    ELSE Remember([keep EXCEPT !.pending = NoKeyframe],
                  [keep.pending EXCEPT !.reason = reason], huge)

(* note_motion: a turn makes the view before it an extremum; the view      *)
(* itself is kept when it turned, was recovered, or is far from the last.  *)
NoteMotion(keep, row, position, shift, recovered, huge) ==
    LET direction == IF shift > 0 THEN 1 ELSE -1
        turned == siDirection # 0 /\ direction # siDirection
        before == IF turned THEN Promote(keep, "Turn", huge) ELSE keep
        placed == Placed(before.frames)
        far == placed = {} \/ Abs(position - before.frames[Max(placed)].position) >= Interval
        reason == CASE turned -> "Turn" [] ~turned /\ recovered -> "Recovered" [] OTHER -> "Motion"
        frame == Keyframe(row, position, reason)
    IN  /\ siKeep' = Hold(IF turned \/ recovered \/ far THEN Remember(before, frame, huge) ELSE before,
                          frame)
        /\ siDirection' = direction /\ siFailures' = 0

(* note_failure: the first of a run is kept, and every fourth. *)
NoteFailure(row, huge) ==
    /\ siFailures' = siFailures + 1
    /\ siKeep' = IF siFailures' = 1 \/ siFailures' % 4 = 0
                 THEN Remember(siKeep, Keyframe(row, NoPosition, "Failure"), huge) ELSE siKeep
    /\ UNCHANGED siDirection

-----------------------------------------------------------------------------
(* The canvas. *)

PushHistory(history, row, position) ==
    LET kept == IF Len(history) = HistoryLen THEN Tail(history) ELSE history
    IN  Append(kept, [row |-> row, position |-> position])

(* Growing upward moves everything that is on the canvas. *)
Lifted(view, up) ==
    IF view = NoKeyframe \/ view.position = NoPosition THEN view
    ELSE [view EXCEPT !.position = @ + up]

LiftedAll(views, up) == [i \in DOMAIN views |-> Lifted(views[i], up)]

(* Mutation: the pending view keeps the position it had. *)
LiftedFrames(keep, up) == [keep EXCEPT !.frames = LiftedAll(@, up)]

LiftedKeep(keep, up) ==
    [keep EXCEPT !.frames = LiftedAll(@, up), !.pending = Lifted(@, up)]

(* How many rows of a view that lies at new hang over the canvas. *)
OverBottom(new) == Max({0, new + ViewRows - Len(siCanvas)})
OverTop(new) == Max({0, -new})
Added(new) == OverBottom(new) + OverTop(new)

Fits(rows) == Len(siCanvas) + rows <= siLimit

(* extend_canvas and replace_edge: besides the rows that hang over, a part *)
(* of the overlap, up to a seam, is taken from the new view.               *)
Extended(view, new, seam) ==
    LET low == OverBottom(new) + seam
        high == OverTop(new) + seam
    IN  CASE OverBottom(new) > 0 -> SubSeq(siCanvas, 1, Len(siCanvas) - seam)
                                    \o SubSeq(view, ViewRows - low + 1, ViewRows)
          [] OverTop(new) > 0    -> SubSeq(view, 1, high)
                                    \o SubSeq(siCanvas, seam + 1, Len(siCanvas))
          [] OTHER               -> siCanvas

Seams(new) == 0 .. Smallest(ViewRows - Added(new), Len(siCanvas))

-----------------------------------------------------------------------------
(* One view is fed (add). *)

Fed(row) ==
    /\ siPicture = NoPicture /\ ~siLimited /\ siSequence < MaxViews
    /\ siSequence' = siSequence + 1 /\ siView' = row
    /\ UNCHANGED <<siLimit, siPicture>>

(* stop_at_resource_limit, which nothing takes back. *)
StopAtLimit ==
    /\ siLimited' = TRUE /\ siDecision' = "Rejected" /\ siKeep' = Discarded
    /\ UNCHANGED <<siCanvas, siAnchor, siOffset, siHistory, siDirection, siFailures, siJumped>>

(* A view of a size that no frame may have. *)
Oversize ==
    /\ siPicture = NoPicture /\ StopAtLimit
    /\ UNCHANGED <<siLimit, siSequence, siView, siPicture>>

Seed(row, huge) ==
    /\ siCanvas = <<>> /\ Fits(ViewRows) /\ Fed(row)
    /\ siCanvas' = Rows(row) /\ siAnchor' = 0 /\ siOffset' = 0
    /\ siHistory' = PushHistory(siHistory, row, 0)
    /\ siKeep' = Hold(Remember(siKeep, Keyframe(row, 0, "Seed"), huge), Keyframe(row, 0, "Seed"))
    /\ siDecision' = "Seed"
    /\ UNCHANGED <<siDirection, siFailures, siJumped, siLimited>>

(* Where a tracked view puts a view that overlaps it enough to be matched. *)
Matches(row) == {i \in DOMAIN siHistory : Abs(row - siHistory[i].row) <= Reach}
Found(row, i) == siHistory[i].position + row - siHistory[i].row

(* Hardly moved: neither the canvas nor the reference changes, so that     *)
(* small movements add up.                                                 *)
Stationary(row) ==
    /\ Fed(row)
    /\ \E i \in Matches(row) : Abs(Found(row, i) - siAnchor) < MinShift
    /\ siDecision' = "Stationary" /\ UNCHANGED <<siAnchor, siHistory>>
    /\ UNCHANGED <<siCanvas, siOffset, siKeep, siDirection, siFailures, siJumped, siLimited>>

(* A match, of the newest view or of an older one, that moved: the canvas  *)
(* grows by what is new.  A discontinuous motion ends the offline rebuild  *)
(* unless a fixed region explains it.                                      *)
Accepted(row, i, robust, huge) ==
    LET new == Found(row, i)
        motion == new - siAnchor
        jump == Abs(motion - siOffset) >= MinOverlap
        up == OverTop(new)
    IN  /\ Fed(row) /\ i \in Matches(row) /\ Abs(motion) >= MinShift
        /\ siJumped' \in {siJumped, siJumped \/ jump}
        /\ \/ /\ Fits(Added(new))
              /\ siCanvas' \in {Extended(Rows(row), new, seam) : seam \in Seams(new)}
              /\ siAnchor' = new + up /\ siOffset' = motion
              /\ siHistory' = PushHistory(LiftedAll(siHistory, up), row, new + up)
              /\ NoteMotion(LiftedKeep(siKeep, up), row, new + up, motion,
                            robust \/ i # Len(siHistory), huge)
              /\ siDecision' = IF Added(new) = 0 THEN "Revisit" ELSE "Accepted"
              /\ UNCHANGED siLimited
           \/ /\ ~Fits(Added(new))
              /\ siLimited' = TRUE /\ siDecision' = "Rejected" /\ siKeep' = Discarded
              /\ UNCHANGED <<siCanvas, siAnchor, siOffset, siHistory, siDirection, siFailures>>

(* Nothing in the history matches, or something better is on the canvas:   *)
(* the whole canvas is searched for the view.                              *)
Reanchored(row, position, huge) ==
    /\ Fed(row)
    /\ SubSeq(siCanvas, position + 1, position + ViewRows) = Rows(row)
    /\ Abs(position - siAnchor) >= MinShift
    /\ siAnchor' = position /\ siOffset' = 0 /\ siJumped' = TRUE
    /\ siHistory' = PushHistory(siHistory, row, position)
    /\ NoteMotion(siKeep, row, position, position - siAnchor, TRUE, huge)
    /\ siDecision' = "Reanchored"
    /\ UNCHANGED <<siCanvas, siLimited>>

(* Low confidence: the reference stays, so that a later view can reconnect. *)
Rejected(row, huge) ==
    /\ siCanvas # <<>> /\ Fed(row) /\ NoteFailure(row, huge)
    /\ siDecision' = "Rejected"
    /\ UNCHANGED <<siCanvas, siAnchor, siOffset, siHistory, siJumped, siLimited>>

-----------------------------------------------------------------------------
(* The end of the shot (result). *)

(* An edge of the graph: two keyframes that match, moved or of one view.   *)
Edge(a, b) == a.row = b.row \/ Abs(a.row - b.row) \in MinShift .. Reach

(* The rows of the canvas from the first to the last of some keyframes.    *)
Span(frames, chosen) ==
    LET at == {frames[i].position : i \in chosen \intersect Placed(frames)}
    IN  IF at = {} THEN <<>> ELSE <<Min(at), Max(at) + ViewRows>>

(* shortest_path: from the first keyframe to the last, any between them    *)
(* may be skipped, but not one that alone reaches an end of the canvas.    *)
Paths(frames) ==
    {path \in SUBSET DOMAIN frames :
        /\ {1, Len(frames)} \subseteq path
        /\ \A i, j \in path :
              i < j /\ (i + 1 .. j - 1) \intersect path = {} => Edge(frames[i], frames[j])
        /\ Span(frames, path) = Span(frames, DOMAIN frames)}

(* offline_rebuild: the keyframes still reach both ends of the canvas, and *)
(* all of them together fit.                                               *)
MayRebuild(keep) ==
    /\ ~keep.disabled /\ ~siJumped /\ Len(keep.frames) >= 2
    /\ Len(keep.frames) * ViewRows <= siLimit
    /\ Span(keep.frames, DOMAIN keep.frames) = <<0, Len(siCanvas)>>

Fused(frames, path) ==
    LET rows == {frames[i].row : i \in path}
    IN  [from |-> Min(rows), to |-> Max(rows) + ViewRows, rebuilt |-> TRUE, warned |-> siLimited]

Flattened == [from |-> siCanvas[1], to |-> Last(siCanvas) + 1, rebuilt |-> FALSE,
              warned |-> siLimited \/ siDecision = "Rejected"]

DeliverPicture(huge) ==
    /\ siPicture = NoPicture /\ siCanvas # <<>>
    /\ siKeep' = Promote(siKeep, "Tail", huge)
    /\ \/ /\ MayRebuild(siKeep')
          /\ \E path \in Paths(siKeep'.frames) : siPicture' = Fused(siKeep'.frames, path)
       \/ siPicture' = Flattened
    /\ UNCHANGED <<siLimit, siCanvas, siAnchor, siOffset, siHistory, siDirection, siFailures,
                   siJumped, siLimited, siDecision, siSequence, siView>>

StitchNext ==
    \/ Oversize
    \/ \E huge \in BOOLEAN : DeliverPicture(huge)
    \/ \E row \in 0 .. PageRows - ViewRows, huge \in BOOLEAN :
        \/ Seed(row, huge) \/ Rejected(row, huge)
        \/ \E i \in DOMAIN siHistory, robust \in BOOLEAN : Accepted(row, i, robust, huge)
        \/ \E position \in 0 .. Len(siCanvas) - ViewRows : Reanchored(row, position, huge)
    \/ \E row \in 0 .. PageRows - ViewRows : Stationary(row)

StitchSpec == StitchInit /\ [][StitchNext]_siVars

-----------------------------------------------------------------------------
(* The values of the state; the keyframes stay in order and within bounds. *)
StitchTypeOK ==
    /\ siDirection \in {-1, 0, 1} /\ siFailures \in 0 .. MaxViews
    /\ siSequence \in 0 .. MaxViews /\ siView \in 0 .. PageRows - ViewRows
    /\ siOffset \in -PageRows .. PageRows /\ siAnchor \in 0 .. Len(siCanvas)
    /\ {siJumped, siLimited, siKeep.disabled} \subseteq BOOLEAN
    /\ siDecision \in {"none", "Seed", "Stationary", "Accepted", "Revisit", "Reanchored", "Rejected"}
    /\ Len(siHistory) <= HistoryLen /\ Len(siCanvas) <= siLimit
    /\ Len(siKeep.frames) <= KeyLimit
    /\ \A i \in 1 .. Len(siKeep.frames) - 1 :
          siKeep.frames[i].sequence < siKeep.frames[i + 1].sequence
    /\ siKeep.disabled => siKeep = Discarded

(* What a stored position claims is what the canvas has there.             *)
Lies(view) == SubSeq(siCanvas, view.position + 1, view.position + ViewRows) = Rows(view.row)

(* However views come, are missed and are found again, and however often   *)
(* the canvas grew upward since: it is one unbroken piece of the page, and *)
(* every view that is kept lies where its position says (extend_canvas).   *)
CanvasTrue ==
    /\ \A i \in DOMAIN siCanvas : siCanvas[i] = siCanvas[1] + i - 1
    /\ \A i \in DOMAIN siHistory : Lies(siHistory[i])
    /\ siHistory # <<>> => Last(siHistory).position = siAnchor
    /\ siKeep.pending # NoKeyframe => Lies(siKeep.pending)
    /\ \A i \in DOMAIN siKeep.frames :
          siKeep.frames[i].position # NoPosition => Lies(siKeep.frames[i])

(* The picture has all that was stitched, rebuilt or not, and a picture    *)
(* that is not rebuilt warns when it lacks the last view fed, but for less *)
(* than counts as a movement.                                              *)
NothingCutOff ==
    siPicture # NoPicture =>
        /\ siPicture.from <= siCanvas[1] /\ Last(siCanvas) < siPicture.to
        /\ \/ siPicture.rebuilt \/ siPicture.warned
           \/ /\ siPicture.from < siView + MinShift
              /\ siView + ViewRows < siPicture.to + MinShift

(* The canvas is a true piece of the page, and what is delivered has all  *)
(* of it (stitcher.rs extend_canvas, result).                              *)
StitchSound == CanvasTrue /\ NothingCutOff
=============================================================================

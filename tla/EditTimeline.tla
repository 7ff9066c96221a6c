----------------------------- MODULE EditTimeline -----------------------------
(***************************************************************************)
(* What undo and redo promise: a line of states with the present in it.  A *)
(* change drops the future, undo and redo walk the line, and what does not *)
(* fit any more is forgotten at the far ends only, never next to the       *)
(* present.                                                                *)
(***************************************************************************)
EXTENDS Naturals, Sequences, SequencesExt

CONSTANTS Room,          \* how much history is kept
          Weight(_)      \* what a line of states takes of it

VARIABLES past,      \* states before the present, the nearest last
          now,
          future     \* states that were undone, the nearest last

tlVars == <<past, now, future>>

Fits(p, f) == Len(p) + Len(f) <= Room.steps /\ Weight(p \o f) <= Room.bytes

Nearest(s, n) == SubSeq(s, Len(s) - n + 1, Len(s))

(* Of the line p, f the n states before the present and the m after it     *)
(* fit, and no more of them.                                               *)
Kept(p, f, n, m) ==
    /\ Fits(Nearest(p, n), Nearest(f, m))
    /\ n < Len(p) => ~Fits(Nearest(p, n + 1), f)
    /\ m < Len(f) => n = 0 /\ ~Fits(<<>>, Nearest(f, m + 1))

Settle(p, f) ==
    \E n \in 0 .. Len(p), m \in 0 .. Len(f) :
        Kept(p, f, n, m) /\ past' = Nearest(p, n) /\ future' = Nearest(f, m)

TimelineInit == past = <<>> /\ future = <<>>

Change == now' # now /\ Settle(Append(past, now), <<>>)

Undo == past # <<>> /\ now' = Last(past) /\ Settle(Front(past), Append(future, now))

Redo == future # <<>> /\ now' = Last(future) /\ Settle(Append(past, now), Front(future))

(* A change that was not recorded yet is recorded and undone at once: what *)
(* is kept fitted at both moments.                                         *)
ChangeAndUndo ==
    /\ UNCHANGED now
    /\ \E s \in Range(future'), n \in 1 .. Len(past) + 1 :
        /\ s # now
        /\ Kept(Append(past, now), <<>>, n, 0)
        /\ Settle(Nearest(past, n - 1), <<s>>)

(* A change that was not recorded yet is recorded before the next one. *)
ChangeTwice ==
    \E s \in Range(past'), n \in 0 .. Len(past) + 1 :
        /\ s # now /\ s # now'
        /\ Kept(Append(past, now), <<>>, n, 0)
        /\ Settle(Append(Nearest(Append(past, now), n), s), <<>>)

TimelineNext == Change \/ Undo \/ Redo \/ ChangeAndUndo \/ ChangeTwice

TimelineSpec == TimelineInit /\ [][TimelineNext]_tlVars
=============================================================================

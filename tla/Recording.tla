----------------------------- MODULE Recording ------------------------------
(***************************************************************************)
(* What a long shot promises: the frames that differ from one another are  *)
(* stitched in the order they were taken, none twice, and an image is only *)
(* delivered once every frame taken is in it.  A delivered image is final; *)
(* a cancelled or failed shot delivers nothing.  LongShot implements this. *)
(***************************************************************************)
EXTENDS Sequences, Naturals

CONSTANT Frame

VARIABLES taken,      \* frames taken from the screen
          stitched,   \* frames given to the stitcher
          outcome

vars == <<taken, stitched, outcome>>

Init == taken = <<>> /\ stitched = <<>> /\ outcome = "open"

Take(f) ==
  /\ outcome # "image"
  /\ taken' = Append(taken, f)
  /\ UNCHANGED <<stitched, outcome>>

Stitch ==
  /\ outcome = "open"
  /\ Len(stitched) < Len(taken)
  /\ stitched' = Append(stitched, taken[Len(stitched) + 1])
  /\ UNCHANGED <<taken, outcome>>

Deliver ==
  /\ outcome = "open"
  /\ taken # <<>>
  /\ stitched' = taken
  /\ outcome' = "image"
  /\ UNCHANGED taken

GiveUp ==
  /\ outcome = "open"
  /\ outcome' \in {"cancelled", "failed"}
  /\ UNCHANGED <<taken, stitched>>

Next == Stitch \/ Deliver \/ GiveUp \/ \E f \in Frame : Take(f)

Spec == Init /\ [][Next]_vars
=============================================================================

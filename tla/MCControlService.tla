-------------------------- MODULE MCControlService --------------------------
(* Instances of ControlService for TLC: see the .cfg files.                *)
EXTENDS ControlService, TLC

(* Connection threads are interchangeable; the safety run is reduced by it. *)
Symmetry == Permutations(Worker)
=============================================================================

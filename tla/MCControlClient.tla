--------------------------- MODULE MCControlClient ---------------------------
(* Instances of ControlClient for TLC: see the .cfg file.                  *)
EXTENDS ControlClient
===============================================================================

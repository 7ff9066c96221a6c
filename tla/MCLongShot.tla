------------------------------ MODULE MCLongShot ------------------------------
(* The instance of LongShot for TLC.                                       *)
EXTENDS LongShot
===============================================================================

--------------------------- MODULE MCReleaseStore ---------------------------
(* Instances of ReleaseStore for TLC.                                      *)
EXTENDS ReleaseStore, TLC

Symmetry == Permutations(Release)
=============================================================================

----------------------------- MODULE MCLunTable -----------------------------
(***************************************************************************)
(* Instances of LunTable for TLC.                                          *)
(***************************************************************************)
EXTENDS LunTable, TLC

(* Volumes are interchangeable. *)
VolumeSymmetry == Permutations(Volumes)
=============================================================================

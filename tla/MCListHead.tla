----------------------------- MODULE MCListHead -----------------------------
(***************************************************************************)
(* ListHead for TLC: two lists and enough entries for one to have a first, *)
(* a last and two middle ones.                                             *)
(***************************************************************************)
EXTENDS ListHead
=============================================================================

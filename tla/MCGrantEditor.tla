---------------------------- MODULE MCGrantEditor ----------------------------
(***************************************************************************)
(* Small instances of GrantEditor for TLC.                                 *)
(***************************************************************************)
EXTENDS GrantEditor, TLC

Symmetry == Permutations(Documents)
=============================================================================

----------------------------- MODULE MCPopupTable -----------------------------
(* PopupTable for TLC. *)
EXTENDS PopupTable, TLC

Symmetry == Permutations(Popups)
==============================================================================

---------------------------- MODULE MCCastingModel ----------------------------
(* CastingModel for TLC. *)
EXTENDS CastingModel, TLC

Symmetry == Permutations(Sinks)
==============================================================================

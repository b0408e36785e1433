------------------------- MODULE MCIncidentOverlap -------------------------
(* Two jobs of one monitor in the engine at once, one of their attempts cut *)
(* short: instance for TLC.                                                 *)
EXTENDS IncidentProperties, TLC

Symmetry == Permutations(Workers)
=============================================================================

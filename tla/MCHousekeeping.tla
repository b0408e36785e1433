--------------------------- MODULE MCHousekeeping ---------------------------
\* Housekeeping with interchangeable passes.
EXTENDS Housekeeping, TLC

Symmetry == Permutations(Passes)
=============================================================================

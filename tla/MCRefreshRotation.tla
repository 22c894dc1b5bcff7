------------------------- MODULE MCRefreshRotation -------------------------
(* Refresh rotation for TLC: three calls race over four tokens. *)
EXTENDS RefreshRotation, TLC

Symmetry == Permutations(Call) \cup Permutations(Token)
=============================================================================

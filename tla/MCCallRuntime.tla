--------------------------- MODULE MCCallRuntime ---------------------------
(* One carrier: its calls compete for the same slots. *)
EXTENDS CallRuntime, TLC

OneProvider == [c \in Call |-> CHOOSE p \in Provider : TRUE]
Symmetry == Permutations(Call)
=============================================================================

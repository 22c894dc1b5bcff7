-------------------------- MODULE MCAccountErasure --------------------------
(* One account: sign-ins, rotations and erasures race. *)
EXTENDS AccountErasure, TLC

Symmetry == Permutations(SignIn) \cup Permutations(SignInCode) \cup Permutations(Deletion)
            \cup Permutations(Confirmation)
=============================================================================

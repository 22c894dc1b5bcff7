---------------------------- MODULE MCOtpSignIn ----------------------------
(* One number: a few validations race over two challenges. *)
EXTENDS OtpSignIn, TLC

Symmetry == Permutations(Call) \cup Permutations(Challenge)
=============================================================================

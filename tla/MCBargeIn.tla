----------------------------- MODULE MCBargeIn ------------------------------
(* The instance of BargeIn that TLC explores.                                *)
EXTENDS BargeIn

=============================================================================

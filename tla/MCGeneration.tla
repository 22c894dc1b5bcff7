---------------------------- MODULE MCGeneration ----------------------------
(* The instance of Generation that TLC explores. *)
EXTENDS Generation

CONSTANTS t1, u1, s1

MCTask == {t1, u1}
MCSessionOf == [t \in MCTask |-> s1]

=============================================================================

--------------------------- MODULE MCMediaStream ----------------------------
(* The instance of MediaStream that TLC explores: four frames of a source   *)
(* that may lose, repeat and reorder any of them.                            *)
EXTENDS MediaStream

=============================================================================

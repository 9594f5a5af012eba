---------------------------- MODULE MCJsonStatus ----------------------------
(* Instances of JsonStatus for TLC. *)
EXTENDS JsonStatus

CONSTANTS c1, c2, b1, b2

Con2 == {c1, c2}
Block2 == {b1, b2}
=============================================================================

-------------------------- MODULE MCConnectionList --------------------------
(* Instances of ConnectionList for TLC. *)
EXTENDS ConnectionList

CONSTANTS c1, c2, c3

Conn3 == {c1, c2, c3}
=============================================================================

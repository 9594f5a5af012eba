----------------------------- MODULE MCMainLoop -----------------------------
(* Instances of MainLoop for TLC. *)
EXTENDS MainLoop

CONSTANTS c1, c2, f1, f2

Conn2 == {c1, c2}
\* Two descriptors: one connection can hold both of its sockets, or two
\* connections one each, and then socket() and accept() run into the limit.
Fd2 == {f1, f2}
=============================================================================

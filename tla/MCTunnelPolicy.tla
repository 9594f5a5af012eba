--------------------------- MODULE MCTunnelPolicy ---------------------------
(* An instance of TunnelPolicy for TLC. *)
EXTENDS TunnelPolicy

CONSTANTS c1, c2, s1, s2, p1

MCConn == {c1, c2}
MCSsh == {s1, s2}
\* One process at a time: the fork for a tunnel fails while another tunnel's
\* process runs, or has not been collected.
MCPid == {p1}
Errors == {"EAGAIN", "other"}

\* Two tunnels to choose from, one of them named twice.
MCRoutes == {<<s1, s2, s1>>}
=============================================================================

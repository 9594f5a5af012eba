------------------------- MODULE MCSocksConnection --------------------------
(* Instances of SocksConnection for TLC. *)
EXTENDS SocksConnection

MCRoutes == {<<"direct">>, <<"null">>, <<"ssh1", "ssh2">>, <<"ssh1", "direct">>,
             <<"ssh1", "null">>, <<"ssh1", "ssh2", "direct">>}
=============================================================================

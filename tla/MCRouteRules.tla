---------------------------- MODULE MCRouteRules ----------------------------
(* RouteRules for TLC: addresses of a network bit and a host bit, and all  *)
(* the lists of up to three of a few rules, each with another combination  *)
(* of criteria, rewriting and tunnels.                                     *)
EXTENDS RouteRules, TLC

CONSTANTS h1, h2
Alone(a) == [addr |-> a, form |-> "alone", with |-> None]
Masked(a, m) == [addr |-> a, form |-> "mask", with |-> m]
Prefix(a, n) == [addr |-> a, form |-> "prefix", with |-> n]
All == [patterns |-> {}, port |-> None, network |-> None, map |-> None, to |-> None,
        resolveDNS |-> FALSE, via |-> {}]
SomeRules ==
    {[All EXCEPT !.via = {"direct"}],
     [All EXCEPT !.map = Alone({}), !.to = Alone({1, 2})],
     [All EXCEPT !.network = Prefix({2}, 1), !.to = Prefix({1}, 1), !.via = {"ssh"}],
     [All EXCEPT !.patterns = {{h1, h2}, {h1, {}}}, !.resolveDNS = TRUE],
     [All EXCEPT !.patterns = {{h1, {1}}}, !.port = 80, !.via = {"direct", "ssh"}],
     [All EXCEPT !.network = Masked({1}, {1}), !.port = 22, !.via = {"ssh"}],
     [All EXCEPT !.network = Prefix({}, 0), !.to = Masked({2}, {2})]}
MCRuleLists == UNION {[1 .. n -> SomeRules] : n \in 0 .. 3}
MCDNSAnswers == h1 :> {{}, {1}, Fails} @@ h2 :> {V6}
=============================================================================

----------------------------- MODULE RouteRules -----------------------------
(***************************************************************************)
(* decide_applicable_rule (route_rules_engine.c) walks the proxy's list of *)
(* rules with one connection's destination, which the rules may rewrite on *)
(* the way, and connect_direct or the SOCKS5 client then connect to what   *)
(* has become of it.                                                       *)
(*                                                                         *)
(* An IPv4 address, a network and a mask are sets of bits, so that &, |    *)
(* and the complement are the operations on sets.  A text is a host name   *)
(* or the dotted form of an address, identified with the address; a        *)
(* pattern (is, startsWith, endsWith, contains) is the set of the texts it *)
(* accepts.  A network is written as an address alone, with a mask, or     *)
(* with the length of a prefix, and parsed once, before the walk.          *)
(*                                                                         *)
(* The names here say "walk" where SocksConnection, which models the same  *)
(* thread from its first byte to its last, has a name of its own.          *)
(***************************************************************************)
EXTENDS Naturals, Sequences

CONSTANTS
    Width,        \* the bits of an address: 32; bit 1 is the most significant
    Hosts,        \* host names that are not addresses
    Ports,        \* port numbers other than 0
    RuleLists,    \* the lists of rules a proxy may be configured with, as written
    DNSAnswers,   \* [Host -> what its lookup may give: addresses, Fails, V6]
    Fails, V6,    \* a failing lookup; an IPv6 address as its first answer
    None

Bits == 1 .. Width
Addr == SUBSET Bits
Text == Hosts \cup Addr
NetIPv4 == [addr : Addr, mask : Addr]
Written == [addr : Addr, form : {"alone"}, with : {None}]
           \cup [addr : Addr, form : {"mask"}, with : Addr]
           \cup [addr : Addr, form : {"prefix"}, with : 0 .. Width]

\* A rule as it is written, or as it is stored.
RuleOf(net) ==
        [patterns : SUBSET SUBSET Text,     \* match_is, ..._starts_with, ..._ends_with, ..._contains
         port : {None} \cup Ports,           \* match_port
         network : {None} \cup net,          \* match_ipv4_addr and _mask
         map : {None} \cup net,              \* map_ipv4_addr and _mask
         to : {None} \cup net,               \* to_ipv4_addr and _mask
         resolveDNS : BOOLEAN,
         via : SUBSET {"direct", "ssh"}]     \* tunnel
Rule == RuleOf(NetIPv4)

ASSUME RouteAssumption ==
    /\ Width \in Nat
    /\ RuleLists \subseteq Seq(RuleOf(Written))
    /\ DNSAnswers \in [Hosts -> SUBSET ({Fails, V6} \cup Addr)]
    /\ \A t \in Text : t \notin {None, Fails, V6}
    /\ \A h \in Hosts, a \in Addr : h # a
    /\ None \notin Nat /\ \A n \in NetIPv4 : n # None

Default == 0   \* default_direct

VARIABLES
    written,   \* the lines the rules were read from
    rules,     \* proxy->route_rule_list
    next,      \* the rule the walk is at
    dst,       \* con->dst_host and con->socks_address_type
    origin,    \* con->dst_host_original
    conRoute,  \* con->route: the number of a rule, Default, or None
    at,        \* the walk, or what became of the connection
    target,    \* the host the connection is made to
    seen       \* history: dst as each rule found it

walkVars == <<written, rules, next, dst, origin, conRoute, at, target, seen>>

\* A client names its destination by an IPv4 address or by a name, which may
\* be the dotted form of an address.
Destinations ==
    {[name |-> n, addr |-> None, port |-> p, type |-> "DOMAIN"] : n \in Text, p \in Ports}
    \cup {[name |-> None, addr |-> a, port |-> p, type |-> "IPV4"] : a \in Addr, p \in Ports}

\* route_rule_grab_netv4.  The mask of a prefix is 0xffffffff << (32 - prefix),
\* which C leaves undefined for a prefix of 0: nothing shifted out, or all.
OneLess(n) == {b \in Bits : b < n}          \* mutant: one bit too few
PrefixBits(n) == {b \in Bits : b <= n}
Masks(net) ==
    CASE net.form = "alone"  -> {Bits}
      [] net.form = "mask"   -> {net.with}
      [] net.form = "prefix" -> IF net.with = 0 THEN {{}, Bits} ELSE {PrefixBits(net.with)}
Grabbed(net) ==
    IF net = None THEN {None} ELSE {[addr |-> net.addr, mask |-> m] : m \in Masks(net)}

AsStored(line, n, m, t) == [line EXCEPT !.network = n, !.map = m, !.to = t]
Parses(line) ==
    {AsStored(line, n, m, t) :
        n \in Grabbed(line.network), m \in Grabbed(line.map), t \in Grabbed(line.to)}

WalkInit ==
    /\ written \in RuleLists /\ next = 1
    /\ rules \in {rs \in [DOMAIN written -> UNION {Parses(written[k]) : k \in DOMAIN written}] :
                    \A k \in DOMAIN written : rs[k] \in Parses(written[k])}
    /\ dst \in Destinations /\ origin = dst
    /\ conRoute = None /\ at = "rules" /\ target = None /\ seen = <<>>

-----------------------------------------------------------------------------
\* One rule.

InNetwork(a, net) == a # None /\ a \cap net.mask = net.addr \cap net.mask

TextsMatch(r, d) == \A p \in r.patterns : d.name \in p \/ d.addr \in p
AnyPort(r, d) == TRUE   \* mutant: the port is not compared
PortMatches(r, d) == r.port # None => r.port = d.port

Applies(r, d) ==
    /\ TextsMatch(r, d)
    /\ PortMatches(r, d)
    /\ r.network # None => InNetwork(d.addr, r.network)
    /\ r.map # None => InNetwork(d.addr, r.map)

WholeAddr(a, net) == net.addr   \* mutant: the mask is not applied
\* "to": the bits of its mask are replaced, the name is forgotten.
NewAddr(a, net) == (a \ net.mask) \cup (net.addr \cap net.mask)
TypeKept(r, d) ==   \* mutant: socks_address_type is forgotten
    IF r.to = None \/ d.addr = None THEN d
    ELSE [d EXCEPT !.name = None, !.addr = NewAddr(@, r.to)]
PortLost(r, d) ==   \* mutant: sin_port is not filled in
    IF r.to = None \/ d.addr = None THEN d
    ELSE [d EXCEPT !.name = None, !.addr = NewAddr(@, r.to), !.type = "IPV4", !.port = 0]
Moved(r, d) ==
    IF r.to = None \/ d.addr = None THEN d
    ELSE [d EXCEPT !.name = None, !.addr = NewAddr(@, r.to), !.type = "IPV4"]

\* resolve_dns_for_host_id: a dotted address is its own answer; a failing
\* lookup changes nothing; of an IPv6 answer inet_pton() stores nothing, and
\* the address is whatever was on the stack.
Lookup(n) ==
    IF n \notin Hosts THEN {n}
    ELSE (DNSAnswers[n] \ {V6}) \cup (IF V6 \in DNSAnswers[n] THEN Addr ELSE {})
Resolutions(d) ==
    IF d.name = None THEN {d}
    ELSE {IF a = Fails THEN d ELSE [d EXCEPT !.addr = a] : a \in Lookup(d.name)}

Rewritings(r, d) == IF r.resolveDNS THEN Resolutions(Moved(r, d)) ELSE {Moved(r, d)}

-----------------------------------------------------------------------------
\* The walk.

IsFinal(r) == r.via # {}

RuleDoesNotApply ==
    /\ at = "rules" /\ conRoute = None /\ next <= Len(rules)
    /\ ~Applies(rules[next], dst)
    /\ next' = next + 1 /\ seen' = Append(seen, dst)
    /\ UNCHANGED <<written, rules, dst, origin, conRoute, at, target>>

RuleApplies ==
    /\ at = "rules" /\ conRoute = None /\ next <= Len(rules)
    /\ Applies(rules[next], dst)
    /\ dst' \in Rewritings(rules[next], dst)
    /\ conRoute' = IF IsFinal(rules[next]) THEN next ELSE None
    /\ next' = next + 1 /\ seen' = Append(seen, dst)
    /\ UNCHANGED <<written, rules, origin, at, target>>

\* The list has ended: with a rule, or with default_direct and a result of 0.
EndWalk ==
    /\ at = "rules"
    /\ \/ conRoute # None /\ at' = "connecting" /\ UNCHANGED conRoute
       \/ conRoute = None /\ next > Len(rules) /\ at' = "refused" /\ conRoute' = Default
    /\ UNCHANGED <<written, rules, next, dst, origin, target, seen>>

\* connect_direct: an address is used as it is, a name is converted.
ConnectDirect ==
    /\ at = "connecting" /\ "direct" \in rules[conRoute].via
    /\ dst' \in IF dst.addr = None THEN Resolutions(dst) ELSE {dst}
    /\ target' = dst'.addr
    /\ at' = IF target' = None THEN "refused" ELSE "connected"
    /\ UNCHANGED <<written, rules, next, origin, conRoute, seen>>

\* socks5_client_send_command: the far end is given what the type calls for.
ConnectTunnel ==
    /\ at = "connecting" /\ "ssh" \in rules[conRoute].via
    /\ target' = IF dst.type = "IPV4" THEN dst.addr ELSE dst.name
    /\ at' = "connected"
    /\ UNCHANGED <<written, rules, next, dst, origin, conRoute, seen>>

WalkNext == RuleDoesNotApply \/ RuleApplies \/ EndWalk \/ ConnectDirect \/ ConnectTunnel

WalkSpec == WalkInit /\ [][WalkNext]_walkVars

-----------------------------------------------------------------------------
(* The shape of the state. *)
WalkTypeOK ==
    /\ rules \in Seq(Rule) /\ next \in 1 .. Len(rules) + 1
    /\ dst \in [name : {None} \cup Text, addr : {None} \cup Addr, port : Ports,
                type : {"IPV4", "DOMAIN"}]
    /\ origin \in Destinations
    /\ conRoute \in {None} \cup 0 .. Len(rules)
    /\ at \in {"rules", "connecting", "connected", "refused"}
    /\ target \in {None} \cup Text
    /\ Len(seen) = next - 1

(* socks5_client.c:44-57, service_socks.c:314-323: what is sent to a far   *)
(* end is the address or the name that socks_address_type announces, so    *)
(* after any rewriting by any rules the announced one is there, and no     *)
(* connection is made to nothing.                                          *)
AddressTypeFits ==
    /\ dst.type = "IPV4" => dst.addr # None
    /\ dst.type = "DOMAIN" => dst.name # None
    /\ at = "connected" => target # None

\* The bits that what is written names.  A prefix of 0 means something else to
\* the code, depending on how it was compiled.
Compared(net) ==
    {b \in Bits : \/ net.form = "alone"
                  \/ net.form = "mask" /\ b \in net.with
                  \/ net.form = "prefix" /\ b \in 1 .. net.with}
Usual(net) == net = None \/ net.form # "prefix" \/ net.with # 0

(* route_rules_engine.c:146-148: however many rules rewrite a destination, *)
(* a bit of its address, and of the one that is connected to, that is not  *)
(* the client's or the lookup's is a bit that one of those rules names.    *)
Base == IF origin.addr # None THEN {origin.addr} ELSE Lookup(origin.name) \ {Fails}
HostPartKept ==
    (\A k \in DOMAIN written : Usual(written[k].to)) => \A final \in Addr : final \in {dst.addr, target} =>
        \E a \in Base : \A b \in Bits :
            \/ b \in final <=> b \in a
            \/ \E k \in 1 .. next - 1 : written[k].to # None /\ b \in Compared(written[k].to)

(* readme.md:134-155: the route is the first rule with a tunnel all of     *)
(* whose criteria, as they are written, the destination meets -- the       *)
(* destination as the rules before it have rewritten it.  A prefix says    *)
(* how many of the first bits have to agree.                               *)
Criteria(r) ==
    {[kind |-> "text", value |-> p] : p \in r.patterns}
    \cup (IF r.port = None THEN {} ELSE {[kind |-> "port", value |-> r.port]})
    \cup {[kind |-> "network", value |-> n] : n \in {r.network, r.map} \ {None}}
Meets(d, c) ==
    CASE c.kind = "text" -> {d.name, d.addr} \cap c.value # {}
      [] c.kind = "port" -> d.port = c.value
      [] c.kind = "network" -> d.addr # None /\ \A b \in Compared(c.value) : b \in d.addr <=> b \in c.value.addr
MeetsAll(k) == \A c \in Criteria(written[k]) : Meets(seen[k], c)
FirstMatchDecides ==
    at # "rules" /\ (\A k \in DOMAIN written : Usual(written[k].network) /\ Usual(written[k].map)) =>
        LET matching == {k \in 1 .. Len(rules) : written[k].via # {} /\ k < next /\ MeetsAll(k)}
        IN IF conRoute = Default THEN matching = {} /\ next > Len(rules)
           ELSE matching = {conRoute}
=============================================================================

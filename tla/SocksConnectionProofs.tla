----------------------- MODULE SocksConnectionProofs ------------------------
(***************************************************************************)
(* Proofs about the thread of a SOCKS connection: first SocksConnection,   *)
(* for every set of routes and every number of attempts, then RouteRules,  *)
(* its walk over the rules, for every list of rules, every destination and *)
(* addresses of any width.                                                 *)
(*                                                                         *)
(* The argument: a thread gets to the answer only from an attempt that     *)
(* left a socket or used the null tunnel; a refusal is never left behind   *)
(* by an attempt that did not get past this host's own ports; and as the   *)
(* attempts go round the route, the k-th of them has tried its tunnel.     *)
(* The walk over the rules has its own argument at its head.               *)
(***************************************************************************)
EXTENDS SocksConnection, RouteRules, TLAPS

Handshake == {"version", "auth", "command", "rule"}
Attempting == {"select", "try", "ask", "failed", "respond", "relay"}

\* What holds at each place of the thread.
Untouched == pc \in Handshake => ~out /\ tried = {} /\ tunnel = "none" /\ attempt = 0
Routed == pc \in Attempting => route \in Routes
Holding ==
    /\ pc \in {"try", "respond", "relay", "ask"} => tunnel \in Kinds
    /\ pc = "ask" => out
    /\ pc \in {"respond", "relay"} => out \/ tunnel = "null"
Reaching ==
    /\ pc = "ask" => reached
    /\ pc = "failed" /\ failure = "Refused" => reached
Quiet == pc \in Handshake \cup {"select", "try", "ask", "failed", "respond"} => answer = "none"

\* The attempts begun so far have tried their tunnels.
Begun == IF pc = "select" THEN attempt ELSE attempt + 1
RoundRobin ==
    tried # {} =>
        route \in Routes /\ \A k \in 0 .. Begun - 1 : route[(k % Len(route)) + 1] \in tried
Begins == pc \in {"try", "ask", "failed", "respond", "relay"} => tried # {}
FirstOfAll == pc = "select" /\ tried = {} => attempt = 0
GaveUp ==
    Fruitless => (attempt >= MaxAttempts \/ failure = "Refused") /\ (attempt < MaxAttempts => reached)

IInv == /\ TypeOK /\ Untouched /\ Routed /\ Holding /\ Reaching /\ Quiet
        /\ NoSocketLeft /\ RoundRobin /\ Begins /\ FirstOfAll /\ GaveUp

\* A route's tunnels are numbered from 1, and the attempts go round them.
LEMMA Turns ==
    ASSUME NEW r \in Routes, NEW k \in Nat
    PROVE  Len(r) \in Nat \ {0} /\ r \in [1 .. Len(r) -> Kinds]
           /\ (k % Len(r)) + 1 \in 1 .. Len(r) /\ r[(k % Len(r)) + 1] \in Kinds
<1>1. r \in Seq(Kinds) /\ r # <<>>
  BY RoutesAssumption
<1>2. Len(r) \in Nat \ {0} /\ r \in [1 .. Len(r) -> Kinds]
  BY <1>1
<1>3. (k % Len(r)) + 1 \in 1 .. Len(r)
  BY <1>2
<1> QED
  BY <1>2, <1>3

LEMMA LessTurn ==
    ASSUME NEW n \in Nat \ {0}, NEW i \in 1 .. n
    PROVE  (i - 1) % n = i - 1
OBVIOUS

LEMMA InitEstablishes == Init => IInv
<1> SUFFICES ASSUME Init PROVE IInv OBVIOUS
<1>1. TypeOK
  <2>1. attempt \in 0 .. MaxAttempts
    BY AttemptsAssumption DEF Init
  <2>2. pc \in Places /\ version \in {0, 4, 5} /\ route \in Routes \cup {<<>>, <<"direct">>}
    BY DEF Init, Places
  <2>3. tunnel \in Kinds \cup {"none"} /\ tried \subseteq Kinds /\ out \in BOOLEAN
    BY DEF Init
  <2>4. reached \in BOOLEAN
    BY Zenon DEF Init
  <2>5. failure \in Replies /\ answer \in Answers \cup {"none"}
    BY DEF Init, Garbage
  <2> QED
    BY <2>1, <2>2, <2>3, <2>4, <2>5 DEF TypeOK
<1>2. Untouched /\ Routed /\ Holding /\ Reaching /\ Quiet /\ NoSocketLeft
  BY DEF Init, Untouched, Routed, Holding, Reaching, Quiet, NoSocketLeft, Handshake, Attempting
<1>3. RoundRobin /\ Begins /\ FirstOfAll /\ GaveUp
  BY DEF Init, RoundRobin, Begins, FirstOfAll, GaveUp, Fruitless
<1> QED
  BY <1>1, <1>2, <1>3 DEF IInv

USE DEF Goes

\* Before the first attempt.
LEMMA HandshakeKeepsIInv ==
    ASSUME IInv, (\E v \in {4, 5} : GetVersion(v)) \/ NegotiateAuth \/ GetCommand \/ HandshakeFails
                 \/ (\E r \in Routes : Decide(r)) \/ NoRule
    PROVE  IInv'
<1>1. pc \in Handshake /\ ~out /\ tried = {} /\ tunnel = "none" /\ attempt = 0 /\ answer = "none"
      /\ UNCHANGED <<attempt, tunnel, out, failure, answer, tried, reached>>
  BY DEF IInv, Untouched, Quiet, Handshake, GetVersion, NegotiateAuth, GetCommand, HandshakeFails, Decide, NoRule
<1>2. pc' \in Handshake \cup {"select", "end"} /\ version' \in {0, 4, 5}
      /\ route' \in Routes \cup {<<>>, <<"direct">>} /\ (pc' = "select" => route' \in Routes)
  BY DEF IInv, TypeOK, Handshake, GetVersion, NegotiateAuth, GetCommand, HandshakeFails, Decide, NoRule
<1>3. TypeOK' /\ Untouched' /\ Routed' /\ Holding' /\ Quiet' /\ NoSocketLeft' /\ Reaching'
  BY <1>1, <1>2 DEF IInv, TypeOK, Untouched, Routed, Holding, Quiet, NoSocketLeft, Reaching, Handshake, Attempting, Places
<1>4. RoundRobin' /\ Begins' /\ FirstOfAll' /\ GaveUp'
  BY <1>1, <1>2 DEF RoundRobin, Begun, Begins, FirstOfAll, GaveUp, Fruitless, Handshake
<1> QED
  BY <1>3, <1>4 DEF IInv

LEMMA SelectKeepsIInv == IInv /\ Select => IInv'
<1> SUFFICES ASSUME IInv, Select PROVE IInv' OBVIOUS
<1>1. route \in Routes /\ attempt \in Nat /\ ~out /\ answer = "none"
  BY AttemptsAssumption DEF IInv, TypeOK, Routed, NoSocketLeft, Quiet, Attempting, Select
<1>2. pc = "select" /\ pc' = "try" /\ tunnel' = route[(attempt % Len(route)) + 1] /\ tunnel' \in Kinds
      /\ tried' = tried \cup {tunnel'} /\ failure' \in Replies
      /\ UNCHANGED <<version, route, attempt, out, answer>> /\ reached' = FALSE
  BY <1>1, Turns DEF Select, Index, IInv, TypeOK, Replies
<1>3. RoundRobin'
  <2>1. \A k \in 0 .. attempt - 1 : route[(k % Len(route)) + 1] \in tried
    <3>1. CASE tried = {}
      <4>1. attempt = 0
        BY <1>2, <3>1 DEF IInv, FirstOfAll
      <4> QED
        BY <4>1
    <3>2. CASE tried # {}
      BY <1>1, <1>2, <3>2 DEF IInv, RoundRobin, Begun
    <3> QED
      BY <3>1, <3>2
  <2>2. ASSUME NEW k \in 0 .. attempt PROVE route[(k % Len(route)) + 1] \in tried'
    <3>1. CASE k = attempt
      BY <1>2, <3>1
    <3>2. CASE k # attempt
      <4>1. k \in 0 .. attempt - 1
        BY <1>1, <3>2
      <4> QED
        BY <1>2, <2>1, <4>1
    <3> QED
      BY <3>1, <3>2
  <2>3. Begun' = attempt + 1
    BY <1>2 DEF Begun
  <2>4. 0 .. Begun' - 1 = 0 .. attempt
    BY <1>1, <2>3
  <2> QED
    BY <1>1, <1>2, <2>2, <2>4 DEF RoundRobin
<1>4. TypeOK' /\ Untouched' /\ Routed' /\ Holding' /\ Quiet' /\ NoSocketLeft' /\ Reaching'
  BY <1>1, <1>2 DEF IInv, TypeOK, Untouched, Routed, Holding, Quiet, NoSocketLeft, Reaching, Handshake, Attempting, Places
<1>5. Begins' /\ FirstOfAll' /\ GaveUp'
  BY <1>2 DEF Begins, FirstOfAll, GaveUp, Fruitless
<1> QED
  BY <1>3, <1>4, <1>5 DEF IInv

\* One attempt, and what becomes of it.
LEMMA AttemptKeepsIInv ==
    ASSUME IInv, NullSucceeds \/ DirectFails \/ DirectSucceeds \/ NoProcess \/ ProcessAnswers \/ ExchangeFails
                 \/ ClosedByProcess \/ (\E code \in Replies, readable \in BOOLEAN : Reply(code, readable))
    PROVE  IInv'
<1>1. /\ pc \in {"try", "ask"} /\ pc' \in {"ask", "failed", "respond"}
      /\ out' \in BOOLEAN /\ failure' \in Replies /\ reached' \in BOOLEAN
      /\ UNCHANGED <<version, route, attempt, tunnel, answer, tried>>
  BY DEF IInv, TypeOK, NullSucceeds, DirectFails, DirectSucceeds, NoProcess, ProcessAnswers, ExchangeFails,
     ClosedByProcess, Reply, Replies, Ssh, LocalFailure
<1>2. route \in Routes /\ tunnel \in Kinds /\ answer = "none"
  BY <1>1 DEF IInv, Routed, Holding, Quiet, Attempting
<1>3. (pc' = "respond" => out' \/ tunnel = "null") /\ (pc' = "ask" => out')
  <2>1. pc = "ask" => out
    BY DEF IInv, Holding
  <2> QED
    BY <2>1 DEF NullSucceeds, DirectFails, DirectSucceeds, NoProcess, ProcessAnswers, ExchangeFails,
     ClosedByProcess, Reply
<1>4. Reaching'
  BY <1>1 DEF IInv, Reaching, NullSucceeds, DirectFails, DirectSucceeds, NoProcess, ProcessAnswers, ExchangeFails,
     ClosedByProcess, Reply, Ssh, LocalFailure
<1>5. TypeOK' /\ Holding'
  BY <1>1, <1>2, <1>3 DEF IInv, TypeOK, Holding, Places
<1>7. Untouched' /\ Routed' /\ Quiet' /\ NoSocketLeft'
  BY <1>1, <1>2 DEF Untouched, Routed, Quiet, NoSocketLeft, Handshake, Attempting
<1>6. RoundRobin' /\ Begins' /\ FirstOfAll' /\ GaveUp'
  BY <1>1 DEF IInv, RoundRobin, Begun, Begins, FirstOfAll, GaveUp, Fruitless, Handshake
<1> QED
  BY <1>4, <1>5, <1>7, <1>6 DEF IInv

\* GiveUp looks at the failure and the number of the attempt.
LEMMA AfterFailureKeepsIInv == IInv /\ AfterFailure => IInv'
<1> SUFFICES ASSUME IInv, AfterFailure PROVE IInv' OBVIOUS
<1>1. /\ pc = "failed" /\ pc' \in {"end", "select"} /\ tunnel' = "none" /\ out' = FALSE
      /\ answer' = answer /\ answer = "none" /\ route \in Routes
      /\ UNCHANGED <<version, route, failure, tried, reached>>
  BY DEF IInv, Routed, Quiet, Attempting, AfterFailure, GivenUp, Closed, KeepSilent
<1>2. attempt \in 0 .. MaxAttempts /\ MaxAttempts \in Nat
  BY AttemptsAssumption DEF IInv, TypeOK
<1>3. CASE GiveUp
  <2>1. pc' = "end" /\ attempt' = attempt
    BY <1>3 DEF AfterFailure, GivenUp
  <2>2. TypeOK' /\ Untouched' /\ Routed' /\ Holding' /\ Reaching' /\ Quiet' /\ NoSocketLeft'
    <3>1. TypeOK'
      BY <1>1, <1>2, <2>1 DEF IInv, TypeOK, Places
    <3> QED
      BY <1>1, <2>1, <3>1 DEF Untouched, Routed, Holding, Reaching, Quiet, NoSocketLeft, Handshake, Attempting
  <2>3. RoundRobin' /\ Begins' /\ FirstOfAll'
    BY <1>1, <2>1 DEF IInv, RoundRobin, Begun, Begins, FirstOfAll
  <2>4. GaveUp'
    BY <1>1, <1>2, <1>3, <2>1 DEF IInv, GaveUp, Fruitless, Reaching, GiveUp
  <2> QED
    BY <2>2, <2>3, <2>4 DEF IInv
<1>4. CASE ~GiveUp
  <2>1. pc' = "select" /\ attempt' = attempt + 1 /\ attempt' \in 0 .. MaxAttempts
    BY <1>2, <1>4 DEF AfterFailure, GiveUp
  <2>2. TypeOK' /\ Untouched' /\ Routed' /\ Holding' /\ Reaching' /\ Quiet' /\ NoSocketLeft'
    <3>1. TypeOK'
      BY <1>1, <1>2, <2>1 DEF IInv, TypeOK, Places
    <3> QED
      BY <1>1, <2>1, <3>1 DEF Untouched, Routed, Holding, Reaching, Quiet, NoSocketLeft, Handshake, Attempting
  <2>3. tried # {}
    BY <1>1 DEF IInv, Begins
  <2>4. RoundRobin' /\ Begins' /\ FirstOfAll'
    BY <1>1, <2>1, <2>3 DEF IInv, RoundRobin, Begun, Begins, FirstOfAll
  <2>5. GaveUp'
    BY <2>1 DEF GaveUp, Fruitless
  <2> QED
    BY <2>2, <2>4, <2>5 DEF IInv
<1> QED
  BY <1>3, <1>4

\* The answer, the relay and the end.
LEMMA EndingKeepsIInv ==
    ASSUME IInv, Respond \/ RespondFails \/ RelayEnds \/ Shutdown \/ Exited
    PROVE  IInv'
<1>1. /\ pc \in {"respond", "relay", "end", "exited"} /\ pc' \in {"relay", "end", "exited"}
      /\ UNCHANGED <<version, route, attempt, tunnel, failure, tried, reached>>
      /\ (pc' = "relay" => pc = "respond" /\ out' = out)
      /\ (pc' = "exited" => ~out')
      /\ (pc \in {"end", "exited"} => pc' = "exited")
      /\ (pc' = "end" => pc \in {"respond", "relay"}) /\ out' \in BOOLEAN
      /\ answer' \in Answers \cup {"none"}
  <2>1. /\ pc \in Places /\ out \in BOOLEAN /\ failure \in Replies /\ answer \in Answers \cup {"none"}
        /\ (pc = "exited" => ~out)
    BY DEF IInv, TypeOK, NoSocketLeft
  <2>2. CASE Respond
    <3>1. answer' \in Answers
      BY <2>1, <2>2 DEF Respond, AnswerFor, Answers
    <3> QED
      BY <2>1, <2>2, <3>1 DEF Respond
  <2>3. CASE RespondFails \/ RelayEnds
    BY <2>1, <2>3 DEF RespondFails, RelayEnds
  <2>4. CASE Shutdown
    BY <2>1, <2>4 DEF Shutdown
  <2>5. CASE Exited
    BY <2>1, <2>5 DEF Exited, vars
  <2> QED
    BY <2>2, <2>3, <2>4, <2>5
<1>2. TypeOK' /\ Untouched' /\ Routed' /\ Holding' /\ Reaching' /\ Quiet' /\ NoSocketLeft'
  BY <1>1 DEF IInv, TypeOK, Untouched, Routed, Holding, Reaching, Quiet, NoSocketLeft, Handshake, Attempting, Places
<1>3. RoundRobin' /\ Begins' /\ FirstOfAll'
  BY <1>1 DEF IInv, RoundRobin, Begun, Begins, FirstOfAll
<1>4. GaveUp'
  <2>1. pc \in {"respond", "relay"} => tunnel # "none"
    BY DEF IInv, Holding, Kinds
  <2> QED
    BY <1>1, <2>1 DEF IInv, GaveUp, Fruitless
<1> QED
  BY <1>2, <1>3, <1>4 DEF IInv

LEMMA StepPreserves == IInv /\ [Next]_vars => IInv'
<1> SUFFICES ASSUME IInv, [Next]_vars PROVE IInv' OBVIOUS
<1>1. CASE UNCHANGED vars
  BY <1>1 DEF vars, IInv, TypeOK, Untouched, Routed, Holding, Reaching, Quiet, NoSocketLeft, RoundRobin,
     Begun, FirstOfAll, GaveUp, Fruitless, Begins
<1> QED
  BY <1>1, HandshakeKeepsIInv, SelectKeepsIInv, AttemptKeepsIInv, AfterFailureKeepsIInv, EndingKeepsIInv DEF Next

THEOREM Invariant == Spec => []IInv
BY InitEstablishes, StepPreserves, PTL DEF Spec

\* The state of the thread has the form service_socks.c expects.
THEOREM TypeCorrect == Spec => []TypeOK
<1>1. IInv => TypeOK
  BY DEF IInv
<1> QED
  BY <1>1, Invariant, PTL

\* The client is granted its request only with a socket to relay to, or on the
\* null tunnel (socks_connection.c).
THEOREM GrantsAreHonest == Spec => []GrantIsHonest
<1>1. IInv => GrantIsHonest
  BY DEF IInv, Holding, GrantIsHonest
<1> QED
  BY <1>1, Invariant, PTL

\* No attempt begins and no thread exits with the socket of another attempt
\* (socks_connection.c:158).
THEOREM NoSocketIsLeft == Spec => []NoSocketLeft
<1>1. IInv => NoSocketLeft
  BY DEF IInv
<1> QED
  BY <1>1, Invariant, PTL

\* An ssh process that is not up yet does not end the attempts
\* (socks_connection.c:145).
THEOREM TunnelsAreWaitedFor == Spec => []WaitsForTunnels
<1>1. IInv => WaitsForTunnels
  BY DEF IInv, GaveUp, WaitsForTunnels
<1> QED
  BY <1>1, Invariant, PTL

\* The attempts go round all tunnels of the route before the thread gives up
\* (socks_connection.c:121).
THEOREM AllTunnelsAreTried == Spec => []EveryTunnelTried
<1>1. IInv => EveryTunnelTried
  <2> SUFFICES ASSUME IInv, Fruitless, attempt >= MaxAttempts, Len(route) <= MaxAttempts + 1,
                      NEW i \in DOMAIN route
               PROVE  route[i] \in tried
    BY DEF EveryTunnelTried
  <2>1. route \in Routes /\ \A k \in 0 .. Begun - 1 : route[(k % Len(route)) + 1] \in tried
    BY DEF IInv, RoundRobin, Fruitless
  <2>2. Begun = attempt + 1 /\ attempt \in Nat /\ MaxAttempts \in Nat
    BY AttemptsAssumption DEF Begun, Fruitless, IInv, TypeOK
  <2>3. Len(route) \in Nat \ {0} /\ i \in 1 .. Len(route)
    BY <2>1, Turns
  <2>4. i - 1 \in 0 .. Begun - 1
    BY <2>2, <2>3
  <2>5. (i - 1) % Len(route) = i - 1
    BY <2>3, LessTurn
  <2>6. route[((i - 1) % Len(route)) + 1] \in tried
    BY <2>1, <2>4
  <2>7. (i - 1) + 1 = i
    BY <2>3
  <2> QED
    BY <2>5, <2>6, <2>7
<1> QED
  BY <1>1, Invariant, PTL

\* The thread implements the session its client sees: one answer at most, after
\* a successful attempt, and relayed bytes only after it (service_socks.c:412).
THEOREM SessionIsKept == Spec => ImplementsSession
<1>1. Init => Session!Init
  BY DEF Init, Session!Init, Session!None, Phase
<1>2. IInv /\ [Next]_vars => [Session!Next]_(<<Phase, answer>>)
  <2> SUFFICES ASSUME IInv, [Next]_vars
               PROVE  Session!Next \/ UNCHANGED <<Phase, answer>>
    OBVIOUS
  <2>1. CASE UNCHANGED vars
    BY <2>1 DEF vars, Phase
  <2>2. CASE (\E v \in {4, 5} : GetVersion(v)) \/ NegotiateAuth \/ GetCommand
    BY <2>2 DEF GetVersion, NegotiateAuth, GetCommand, Phase
  <2>3. CASE HandshakeFails \/ NoRule \/ RespondFails \/ RelayEnds
    BY <2>3 DEF HandshakeFails, NoRule, RespondFails, RelayEnds, Phase, Session!Next, Session!Close
  <2>4. CASE \E r \in Routes : Decide(r)
    BY <2>4 DEF Decide, Phase, Session!Next, Session!Connect
  <2>5. CASE Select \/ NullSucceeds \/ DirectFails \/ DirectSucceeds \/ NoProcess \/ ProcessAnswers
             \/ ExchangeFails \/ ClosedByProcess
             \/ (\E code \in Replies, readable \in BOOLEAN : Reply(code, readable))
    BY <2>5 DEF Select, NullSucceeds, DirectFails, DirectSucceeds, NoProcess, ProcessAnswers, ExchangeFails,
       ClosedByProcess, Reply, Phase
  <2>6. CASE AfterFailure
    BY <2>6 DEF AfterFailure, GivenUp, KeepSilent, Phase, Session!Next, Session!Close
  <2>7. CASE Respond
    <3>1. answer = "none" /\ answer' \in Answers
      BY <2>7 DEF Respond, IInv, Quiet, TypeOK, AnswerFor, Answers
    <3> QED
      BY <2>7, <3>1 DEF Respond, Phase, Session!Next, Session!Answer, Session!None
  <2>8. CASE Shutdown \/ Exited
    BY <2>8 DEF Shutdown, Exited, vars, Phase
  <2> QED
    BY <2>1, <2>2, <2>3, <2>4, <2>5, <2>6, <2>7, <2>8 DEF Next
<1> QED
  BY <1>1, <1>2, Invariant, PTL DEF Spec, ImplementsSession, Session!Spec

-----------------------------------------------------------------------------
(***************************************************************************)
(* The walk over the rules (RouteRules).                                   *)
(*                                                                         *)
(* The argument: con->route names the one rule behind the walk that        *)
(* applied and has a tunnel (Passed); what a stored rule compares is what  *)
(* its line names (CriteriaAsWritten), for any network but a prefix of 0;  *)
(* and each bit of an address is the client's, or the lookup's, or is      *)
(* named by the "to" of a rule behind the walk (BitsExplained).            *)
(***************************************************************************)
Host == [name : {None} \cup Text, addr : {None} \cup Addr, port : Ports, type : {"IPV4", "DOMAIN"}]

WalkTypes ==
    /\ written \in Seq(RuleOf(Written)) /\ rules \in Seq(Rule) /\ Len(rules) = Len(written)
    /\ next \in 1 .. Len(rules) + 1
    /\ dst \in Host /\ origin \in Destinations
    /\ conRoute \in {None} \cup 0 .. Len(rules)
    /\ at \in {"rules", "connecting", "connected", "refused"}
    /\ target \in {None} \cup Text
    /\ seen \in Seq(Host) /\ Len(seen) = next - 1

Stored == \A k \in 1 .. Len(rules) : rules[k] \in Parses(written[k])

\* A name is the client's until it is forgotten.
NameIsClients == dst.name # None => dst.name = origin.name

\* The rules behind the walk: the route is the one that applied and has a tunnel.
Matched(k) == IsFinal(rules[k]) /\ Applies(rules[k], seen[k])
Passed ==
    /\ \A k \in 1 .. next - 1 : Matched(k) <=> conRoute = k
    /\ conRoute \in 1 .. Len(rules) => conRoute < next
    /\ conRoute = Default => next > Len(rules) /\ at = "refused"
    /\ at # "rules" => conRoute # None

\* Where the bits of an address come from, after the first n rules of ws.
Explained(final, base, ws, n) ==
    \E a \in base : \A b \in Bits :
        \/ b \in final <=> b \in a
        \/ \E k \in 1 .. n : ws[k].to # None /\ b \in Compared(ws[k].to)
BitsExplained ==
    (\A k \in DOMAIN written : Usual(written[k].to)) =>
        /\ dst.addr # None => Explained(dst.addr, Base, written, next - 1)
        /\ target \in Addr => Explained(target, Base, written, next - 1)

NoTargetYet == at \in {"rules", "connecting"} => target = None

WalkInv == WalkTypes /\ NoTargetYet /\ Stored /\ NameIsClients /\ AddressTypeFits /\ Passed /\ BitsExplained

-----------------------------------------------------------------------------
\* route_rule_grab_netv4: the mask that is stored compares the bits that the
\* written network names, unless it is a prefix of 0.
LEMMA GrabKeepsNetwork ==
    ASSUME NEW net \in {None} \cup Written, NEW g \in Grabbed(net)
    PROVE  /\ g \in {None} \cup NetIPv4
           /\ g = None <=> net = None
           /\ net # None => g.addr = net.addr
           /\ net # None /\ Usual(net) => g.mask = Compared(net)
<1>1. CASE net = None
  BY <1>1 DEF Grabbed
<1>2. CASE net # None
  <2>1. PICK m \in Masks(net) : g = [addr |-> net.addr, mask |-> m]
    BY <1>2 DEF Grabbed
  <2>2. net \in Written /\ net.addr \in Addr
    BY <1>2 DEF Written
  <2>3. CASE net.form = "alone"
    <3>1. m = Bits /\ Compared(net) = Bits
      BY <2>3, <2>1 DEF Masks, Compared
    <3> QED
      BY <3>1, <2>1, <2>2, <1>2, RouteAssumption DEF NetIPv4, Addr
  <2>4. CASE net.form = "mask"
    <3>1. m = net.with /\ net.with \in Addr
      BY <2>4, <2>1, <2>2 DEF Masks, Written
    <3>2. Compared(net) = net.with
      BY <3>1, <2>4 DEF Compared, Addr
    <3> QED
      BY <3>1, <3>2, <2>1, <2>2, <1>2, RouteAssumption DEF NetIPv4, Addr
  <2>5. CASE net.form = "prefix"
    <3>1. net.with \in 0 .. Width /\ Width \in Nat
      BY <2>5, <2>2, RouteAssumption DEF Written
    <3>2. m \in Addr
      BY <2>5, <2>1, <3>1 DEF Masks, PrefixBits, Addr
    <3>3. Usual(net) => m = Compared(net)
      <4>1. CASE net.with = 0
        BY <4>1, <2>5, <1>2 DEF Usual
      <4>2. CASE net.with # 0
        <5>1. m = PrefixBits(net.with)
          BY <4>2, <2>5, <2>1 DEF Masks
        <5>2. PrefixBits(net.with) = Compared(net)
          BY <3>1, <2>5 DEF PrefixBits, Compared, Bits
        <5> QED
          BY <5>1, <5>2
      <4> QED
        BY <4>1, <4>2
    <3> QED
      BY <3>2, <3>3, <2>1, <2>2, <1>2, RouteAssumption DEF NetIPv4
  <2> QED
    BY <2>2, <2>3, <2>4, <2>5 DEF Written
<1> QED
  BY <1>1, <1>2

\* parse_route_rule_spec: what is stored is what is written but for the networks.
LEMMA ParseKeepsRule ==
    ASSUME NEW line \in RuleOf(Written), NEW r \in Parses(line)
    PROVE  /\ r \in Rule
           /\ r.patterns = line.patterns /\ r.port = line.port /\ r.via = line.via
           /\ r.network \in Grabbed(line.network) /\ r.map \in Grabbed(line.map) /\ r.to \in Grabbed(line.to)
<1>1. PICK n \in Grabbed(line.network), m \in Grabbed(line.map), t \in Grabbed(line.to) :
          r = AsStored(line, n, m, t)
  BY DEF Parses
<1>2. line.network \in {None} \cup Written /\ line.map \in {None} \cup Written /\ line.to \in {None} \cup Written
  BY DEF RuleOf
<1>3. n \in {None} \cup NetIPv4 /\ m \in {None} \cup NetIPv4 /\ t \in {None} \cup NetIPv4
  BY <1>2, GrabKeepsNetwork
<1>4. r \in Rule
  BY <1>1, <1>3 DEF Rule, RuleOf, AsStored
<1>5. /\ r.patterns = line.patterns /\ r.port = line.port /\ r.via = line.via
      /\ r.network = n /\ r.map = m /\ r.to = t
  BY <1>1 DEF RuleOf, AsStored
<1> QED
  BY <1>1, <1>4, <1>5

\* What a rule's criteria mean to the one who wrote them.
LEMMA NetworkAsWritten ==
    ASSUME NEW net \in Written, net # None, Usual(net), NEW g \in Grabbed(net), NEW a \in {None} \cup Addr
    PROVE  InNetwork(a, g) <=>
               a # None /\ \A b \in Compared(net) : b \in a <=> b \in net.addr
<1>1. g.addr = net.addr /\ g.mask = Compared(net) /\ net.addr \in Addr
  BY GrabKeepsNetwork DEF Written
<1>2. a # None => (a \cap g.mask = g.addr \cap g.mask
                   <=> \A b \in Compared(net) : b \in a <=> b \in net.addr)
  BY <1>1 DEF Addr
<1> QED
  BY <1>2 DEF InNetwork

-----------------------------------------------------------------------------
LEMMA CriteriaAsWritten ==
    ASSUME NEW line \in RuleOf(Written), NEW r \in Parses(line), NEW d \in Host,
           Usual(line.network), Usual(line.map)
    PROVE  Applies(r, d) <=> \A c \in Criteria(line) : Meets(d, c)
<1>0. /\ r.patterns = line.patterns /\ r.port = line.port
      /\ r.network \in Grabbed(line.network) /\ r.map \in Grabbed(line.map)
      /\ line.network \in {None} \cup Written /\ line.map \in {None} \cup Written
      /\ d.addr \in {None} \cup Addr
  BY ParseKeepsRule DEF RuleOf, Host
<1>1. r.network = None <=> line.network = None
  BY <1>0, GrabKeepsNetwork
<1>2. r.map = None <=> line.map = None
  BY <1>0, GrabKeepsNetwork
<1> DEFINE Agrees(n) == d.addr # None /\ \A b \in Compared(n) : b \in d.addr <=> b \in n.addr
<1>3. line.network # None => (InNetwork(d.addr, r.network) <=> Agrees(line.network))
  BY <1>0, NetworkAsWritten
<1>4. line.map # None => (InNetwork(d.addr, r.map) <=> Agrees(line.map))
  BY <1>0, NetworkAsWritten
<1> DEFINE Texts == {[kind |-> "text", value |-> p] : p \in line.patterns}
           PortOnly == IF line.port = None THEN {} ELSE {[kind |-> "port", value |-> line.port]}
           Nets == {[kind |-> "network", value |-> n] : n \in {line.network, line.map} \ {None}}
<1>5. Criteria(line) = Texts \cup PortOnly \cup Nets
  BY DEF Criteria
<1>6. (\A c \in Texts : Meets(d, c)) <=> TextsMatch(r, d)
  <2>1. \A p \in line.patterns : Meets(d, [kind |-> "text", value |-> p]) <=> (d.name \in p \/ d.addr \in p)
    BY DEF Meets
  <2> QED
    BY <2>1, <1>0 DEF TextsMatch
<1>7. (\A c \in PortOnly : Meets(d, c)) <=> PortMatches(r, d)
  <2>1. Meets(d, [kind |-> "port", value |-> line.port]) <=> d.port = line.port
    BY DEF Meets
  <2> QED
    BY <2>1, <1>0 DEF PortMatches
<1>8. (\A c \in Nets : Meets(d, c)) <=> \A n \in {line.network, line.map} \ {None} : Agrees(n)
  <2>1. \A n : Meets(d, [kind |-> "network", value |-> n]) <=> Agrees(n)
    BY DEF Meets
  <2> HIDE DEF Agrees
  <2> QED
    BY <2>1
<1> HIDE DEF Agrees, Texts, PortOnly, Nets
<1>9. (\A n \in {line.network, line.map} \ {None} : Agrees(n))
      <=> /\ r.network # None => InNetwork(d.addr, r.network)
          /\ r.map # None => InNetwork(d.addr, r.map)
  BY <1>1, <1>2, <1>3, <1>4
<1> QED
  BY <1>5, <1>6, <1>7, <1>8, <1>9 DEF Applies

-----------------------------------------------------------------------------
\* What rewriting and resolving make of a destination.
Fits(d) == (d.type = "IPV4" => d.addr # None) /\ (d.type = "DOMAIN" => d.name # None)

LEMMA LookupGivesAddress ==
    ASSUME NEW n \in Text, NEW a \in Lookup(n), a # Fails
    PROVE  a \in Addr /\ a # None
<1>1. a \in Addr
  <2>1. CASE n \in Hosts
    BY <2>1, RouteAssumption DEF Lookup
  <2>2. CASE n \notin Hosts
    BY <2>2 DEF Lookup, Text
  <2> QED
    BY <2>1, <2>2
<1> QED
  BY <1>1, RouteAssumption DEF Text

LEMMA MoveKeepsFit ==
    ASSUME NEW d \in Host, Fits(d), NEW r \in Rule
    PROVE  /\ Moved(r, d) \in Host /\ Fits(Moved(r, d)) /\ Moved(r, d).name \in {None, d.name}
           /\ \/ Moved(r, d) = d
              \/ d.addr # None /\ r.to # None /\ Moved(r, d).addr = NewAddr(d.addr, r.to)
<1>1. CASE r.to = None \/ d.addr = None
  BY <1>1 DEF Moved
<1>2. CASE r.to # None /\ d.addr # None
  <2>1. r.to \in NetIPv4 /\ d.addr \in Addr
    BY <1>2 DEF Rule, RuleOf, Host
  <2>2. NewAddr(d.addr, r.to) \in Addr
    BY <2>1 DEF NewAddr, NetIPv4, Addr
  <2>3. NewAddr(d.addr, r.to) # None
    BY <2>2, RouteAssumption DEF Text
  <2>4. Moved(r, d) = [d EXCEPT !.name = None, !.addr = NewAddr(d.addr, r.to), !.type = "IPV4"]
    BY <1>2 DEF Moved, Host
  <2> QED
    BY <2>2, <2>3, <2>4, <1>2 DEF Host, Fits
<1> QED
  BY <1>1, <1>2

LEMMA ResolutionKeepsFit ==
    ASSUME NEW d \in Host, Fits(d), NEW e \in Resolutions(d)
    PROVE  /\ e \in Host /\ Fits(e) /\ e.name = d.name
           /\ \/ e.addr = d.addr
              \/ d.name # None /\ e.addr \in Lookup(d.name) \ {Fails}
<1>1. CASE d.name = None
  BY <1>1 DEF Resolutions
<1>2. CASE d.name # None
  <2>1. d.name \in Text
    BY <1>2 DEF Host
  <2>2. PICK a \in Lookup(d.name) : e = IF a = Fails THEN d ELSE [d EXCEPT !.addr = a]
    BY <1>2 DEF Resolutions
  <2>3. CASE a = Fails
    BY <2>2, <2>3
  <2>4. CASE a # Fails
    <3>1. a \in Addr /\ a # None
      BY <2>1, <2>4, LookupGivesAddress
    <3> QED
      BY <2>2, <2>4, <1>2, <3>1 DEF Host, Fits
  <2> QED
    BY <2>3, <2>4
<1> QED
  BY <1>1, <1>2

LEMMA RewritingKeepsFit ==
    ASSUME NEW d \in Host, Fits(d), NEW r \in Rule, NEW e \in Rewritings(r, d)
    PROVE  /\ e \in Host /\ Fits(e) /\ e.name \in {None, d.name}
           /\ \/ e.addr = d.addr
              \/ d.addr # None /\ r.to # None /\ e.addr = NewAddr(d.addr, r.to)
              \/ d.name # None /\ e.addr \in Lookup(d.name) \ {Fails}
<1>1. /\ Moved(r, d) \in Host /\ Fits(Moved(r, d)) /\ Moved(r, d).name \in {None, d.name}
      /\ \/ Moved(r, d) = d
         \/ d.addr # None /\ r.to # None /\ Moved(r, d).addr = NewAddr(d.addr, r.to)
  BY MoveKeepsFit
<1>2. CASE e = Moved(r, d)
  BY <1>1, <1>2
<1>3. CASE e \in Resolutions(Moved(r, d))
  <2>1. /\ e \in Host /\ Fits(e) /\ e.name = Moved(r, d).name
        /\ \/ e.addr = Moved(r, d).addr
           \/ Moved(r, d).name # None /\ e.addr \in Lookup(Moved(r, d).name) \ {Fails}
    BY <1>1, <1>3, ResolutionKeepsFit
  <2> QED
    BY <1>1, <2>1
<1> QED
  BY <1>2, <1>3 DEF Rewritings

LEMMA MoreRulesExplain ==
    ASSUME NEW final, NEW base, NEW ws, NEW n \in Nat, NEW m \in Nat, n <= m,
           Explained(final, base, ws, n)
    PROVE  Explained(final, base, ws, m)
BY DEF Explained

\* The bits that "to" replaces are explained by its rule, the others as before.
LEMMA MoveIsExplained ==
    ASSUME NEW a \in Addr, NEW base, NEW ws, NEW n \in Nat \ {0},
           NEW t \in Grabbed(ws[n].to), ws[n].to \in {None} \cup Written, t # None, Usual(ws[n].to),
           Explained(a, base, ws, n - 1)
    PROVE  Explained(NewAddr(a, t), base, ws, n)
<1>1. ws[n].to # None /\ t.mask = Compared(ws[n].to)
  BY GrabKeepsNetwork
<1>2. PICK o \in base : \A b \in Bits :
          (b \in a <=> b \in o) \/ \E k \in 1 .. n - 1 : ws[k].to # None /\ b \in Compared(ws[k].to)
  BY DEF Explained
<1>3. ASSUME NEW b \in Bits
      PROVE  (b \in NewAddr(a, t) <=> b \in o) \/ \E k \in 1 .. n : ws[k].to # None /\ b \in Compared(ws[k].to)
  <2>1. CASE b \in t.mask
    BY <2>1, <1>1
  <2>2. CASE b \notin t.mask
    BY <2>2, <1>2 DEF NewAddr
  <2> QED
    BY <2>1, <2>2
<1> QED
  BY <1>3 DEF Explained

-----------------------------------------------------------------------------
LEMMA WalkInitEstablishes == WalkInit => WalkInv
<1> SUFFICES ASSUME WalkInit PROVE WalkInv OBVIOUS
<1>1. written \in Seq(RuleOf(Written)) /\ DOMAIN written = 1 .. Len(written) /\ Len(written) \in Nat
  BY RouteAssumption DEF WalkInit
<1>2. DOMAIN rules = DOMAIN written /\ \A k \in DOMAIN written : rules[k] \in Parses(written[k])
  BY DEF WalkInit
<1>3. \A k \in 1 .. Len(written) : rules[k] \in Rule
  BY <1>1, <1>2, ParseKeepsRule
<1>4. rules \in [1 .. Len(written) -> Rule]
  <2>1. rules = [k \in DOMAIN written |-> rules[k]]
    BY DEF WalkInit
  <2> QED
    BY <2>1, <1>1, <1>3
<1>5. rules \in Seq(Rule) /\ Len(rules) = Len(written)
  BY <1>1, <1>4
<1>6. dst \in Destinations /\ origin = dst /\ dst \in Host /\ Fits(dst)
  BY RouteAssumption DEF WalkInit, Destinations, Host, Fits, Text
<1>7. WalkTypes
  <2>1. seen \in Seq(Host) /\ Len(seen) = 0
    BY DEF WalkInit
  <2> QED
    BY <1>1, <1>5, <1>6, <2>1 DEF WalkInit, WalkTypes
<1>8. Stored
  BY <1>1, <1>2, <1>5 DEF Stored
<1>9. NameIsClients /\ AddressTypeFits
  BY <1>6 DEF NameIsClients, AddressTypeFits, Fits, WalkInit
<1>10. Passed
  BY RouteAssumption, <1>5, <1>1 DEF Passed, WalkInit, Default
<1>11. BitsExplained
  <2>1. target \notin Addr
    BY RouteAssumption DEF WalkInit, Text
  <2>2. dst.addr # None => Base = {dst.addr}
    BY <1>6 DEF Base
  <2> QED
    BY <2>1, <2>2 DEF BitsExplained, Explained
<1> QED
  BY <1>7, <1>8, <1>9, <1>10, <1>11 DEF WalkInv, WalkInit, NoTargetYet

\* What the walk leaves alone as it goes on to the next rule.
LEMMA NextRule ==
    ASSUME WalkInv, RuleDoesNotApply \/ RuleApplies
    PROVE  /\ next \in 1 .. Len(rules) /\ next' = next + 1 /\ at = "rules" /\ at' = at /\ conRoute = None
           /\ UNCHANGED <<written, rules, origin, target>>
           /\ seen' \in Seq(Host) /\ Len(seen') = next
           /\ \A k \in 1 .. next - 1 : seen'[k] = seen[k]
           /\ seen'[next] = dst
           /\ rules[next] \in Rule /\ rules[next] \in Parses(written[next])
           /\ written[next] \in RuleOf(Written) /\ target \notin Addr
<1>1. next \in 1 .. Len(rules) /\ next' = next + 1 /\ at = "rules" /\ at' = at /\ conRoute = None
      /\ UNCHANGED <<written, rules, origin, target>> /\ seen' = Append(seen, dst)
  BY DEF RuleDoesNotApply, RuleApplies, WalkInv, WalkTypes
<1>2. seen \in Seq(Host) /\ dst \in Host /\ Len(seen) = next - 1
  BY DEF WalkInv, WalkTypes
<1>3. seen' \in Seq(Host) /\ Len(seen') = next /\ seen'[next] = dst
      /\ \A k \in 1 .. next - 1 : seen'[k] = seen[k]
  BY <1>1, <1>2
<1>4. rules[next] \in Rule /\ rules[next] \in Parses(written[next]) /\ written[next] \in RuleOf(Written)
  BY <1>1 DEF WalkInv, WalkTypes, Stored
<1>5. target \notin Addr
  BY <1>1, RouteAssumption DEF WalkInv, NoTargetYet, Text
<1> QED
  BY <1>1, <1>3, <1>4, <1>5

LEMMA RuleDoesNotApplyKeepsWalkInv == WalkInv /\ RuleDoesNotApply => WalkInv'
<1> SUFFICES ASSUME WalkInv, RuleDoesNotApply PROVE WalkInv' OBVIOUS
<1>1. /\ next \in 1 .. Len(rules) /\ next' = next + 1 /\ at = "rules" /\ at' = at /\ conRoute = None
      /\ UNCHANGED <<written, rules, origin, target>>
      /\ seen' \in Seq(Host) /\ Len(seen') = next
      /\ \A k \in 1 .. next - 1 : seen'[k] = seen[k]
      /\ seen'[next] = dst /\ target \notin Addr
  BY NextRule
<1>2. UNCHANGED <<dst, conRoute>> /\ ~Applies(rules[next], dst)
  BY DEF RuleDoesNotApply
<1>3. next \in Nat \ {0} /\ Len(rules) \in Nat
  BY <1>1 DEF WalkInv, WalkTypes
<1>4. WalkTypes'
  BY <1>1, <1>2, <1>3 DEF WalkInv, WalkTypes
<1>7. NoTargetYet' /\ Stored' /\ NameIsClients' /\ AddressTypeFits'
  BY <1>1, <1>2 DEF WalkInv, NoTargetYet, Stored, NameIsClients, AddressTypeFits
<1>5. Passed'
  <2>1. \A k \in 1 .. next' - 1 : Matched(k)' <=> conRoute' = k
    <3>1. ASSUME NEW k \in 1 .. next - 1 PROVE Matched(k)' <=> conRoute' = k
      BY <3>1, <1>1, <1>2, <1>3 DEF WalkInv, Passed, Matched
    <3>2. ASSUME NEW k \in {next} PROVE ~Matched(k)' /\ conRoute' # k
      BY <1>1, <1>2, <1>3, RouteAssumption DEF Matched
    <3> QED
      BY <3>1, <3>2, <1>1, <1>3
  <2>2. conRoute' = None /\ None \notin Nat
    BY <1>1, <1>2, RouteAssumption
  <2> QED
    BY <2>1, <2>2, <1>1 DEF Passed, Default
<1>6. BitsExplained'
  <2> SUFFICES ASSUME \A k \in DOMAIN written : Usual(written[k].to), dst.addr # None
               PROVE  Explained(dst.addr, Base, written, next)
    BY <1>1, <1>2, <1>3 DEF BitsExplained, Base
  <2> QED
    BY <1>3, MoreRulesExplain DEF WalkInv, BitsExplained
<1> QED
  BY <1>4, <1>5, <1>6, <1>7 DEF WalkInv

LEMMA RuleAppliesKeepsWalkInv == WalkInv /\ RuleApplies => WalkInv'
<1> SUFFICES ASSUME WalkInv, RuleApplies PROVE WalkInv' OBVIOUS
<1> DEFINE r == rules[next]
<1>1. /\ next \in 1 .. Len(rules) /\ next' = next + 1 /\ at = "rules" /\ at' = at /\ conRoute = None
      /\ UNCHANGED <<written, rules, origin, target>>
      /\ seen' \in Seq(Host) /\ Len(seen') = next
      /\ \A k \in 1 .. next - 1 : seen'[k] = seen[k]
      /\ seen'[next] = dst /\ target \notin Addr
      /\ r \in Rule /\ r \in Parses(written[next]) /\ written[next] \in RuleOf(Written)
  BY NextRule
<1>2. Applies(r, dst) /\ dst' \in Rewritings(r, dst) /\ conRoute' = IF IsFinal(r) THEN next ELSE None
  BY DEF RuleApplies
<1>3. next \in Nat \ {0} /\ Len(rules) \in Nat /\ dst \in Host /\ Fits(dst) /\ None \notin Nat
  BY <1>1, RouteAssumption DEF WalkInv, WalkTypes, AddressTypeFits, Fits
<1>4. /\ dst' \in Host /\ Fits(dst') /\ dst'.name \in {None, dst.name}
      /\ \/ dst'.addr = dst.addr
         \/ dst.addr # None /\ r.to # None /\ dst'.addr = NewAddr(dst.addr, r.to)
         \/ dst.name # None /\ dst'.addr \in Lookup(dst.name) \ {Fails}
  BY <1>1, <1>2, <1>3, RewritingKeepsFit
<1> HIDE DEF r
<1>5. WalkTypes'
  BY <1>1, <1>2, <1>3, <1>4 DEF WalkInv, WalkTypes
<1>6. NoTargetYet' /\ Stored' /\ NameIsClients' /\ AddressTypeFits'
  BY <1>1, <1>4 DEF WalkInv, NoTargetYet, Stored, NameIsClients, AddressTypeFits, Fits
<1>7. Passed'
  <2>1. \A k \in 1 .. next' - 1 : Matched(k)' <=> conRoute' = k
    <3>1. ASSUME NEW k \in 1 .. next - 1 PROVE Matched(k)' <=> conRoute' = k
      <4>1. ~Matched(k)
        BY <1>1, <1>3 DEF WalkInv, Passed
      <4>2. ~Matched(k)'
        BY <3>1, <4>1, <1>1 DEF Matched
      <4>3. conRoute' # k
        BY <1>2, <1>3
      <4> QED
        BY <4>2, <4>3
    <3>2. ASSUME NEW k \in {next} PROVE Matched(k)' <=> conRoute' = k
      BY <1>1, <1>2, <1>3 DEF Matched, r
    <3> QED
      BY <3>1, <3>2, <1>1, <1>3
  <2> QED
    BY <2>1, <1>1, <1>2, <1>3 DEF Passed, Default
<1>8. BitsExplained'
  <2> SUFFICES ASSUME \A k \in DOMAIN written : Usual(written[k].to), dst'.addr # None
               PROVE  Explained(dst'.addr, Base, written, next)
    BY <1>1, <1>3 DEF BitsExplained, Base
  <2>1. CASE dst'.addr = dst.addr
    BY <2>1, <1>3, MoreRulesExplain DEF WalkInv, BitsExplained
  <2>2. CASE dst.addr # None /\ r.to # None /\ dst'.addr = NewAddr(dst.addr, r.to)
    <3>1. dst.addr \in Addr /\ Explained(dst.addr, Base, written, next - 1)
      BY <2>2, <1>3 DEF WalkInv, BitsExplained, Host
    <3>2. r.to \in Grabbed(written[next].to) /\ written[next].to \in {None} \cup Written
      BY <1>1, ParseKeepsRule DEF RuleOf
    <3>3. Usual(written[next].to)
      BY <1>1 DEF WalkInv, WalkTypes
    <3> QED
      BY <2>2, <3>1, <3>2, <3>3, <1>3, MoveIsExplained
  <2>3. CASE dst.name # None /\ dst'.addr \in Lookup(dst.name) \ {Fails}
    <3>1. origin.name = dst.name /\ origin \in Destinations
      BY <2>3 DEF WalkInv, NameIsClients, WalkTypes
    <3>2. origin.addr = None
      BY <3>1, <2>3 DEF Destinations
    <3>3. dst'.addr \in Base
      BY <3>1, <3>2, <2>3 DEF Base
    <3> QED
      BY <3>3 DEF Explained
  <2> QED
    BY <1>4, <2>1, <2>2, <2>3
<1> QED
  BY <1>5, <1>6, <1>7, <1>8 DEF WalkInv

LEMMA EndWalkKeepsWalkInv == WalkInv /\ EndWalk => WalkInv'
<1> SUFFICES ASSUME WalkInv, EndWalk PROVE WalkInv' OBVIOUS
<1>1. UNCHANGED <<written, rules, next, dst, origin, target, seen>> /\ at = "rules"
      /\ at' \in {"connecting", "refused"} /\ (at' = "connecting" => conRoute # None /\ conRoute' = conRoute)
      /\ (at' = "refused" => conRoute = None /\ next > Len(rules) /\ conRoute' = Default)
  BY DEF EndWalk
<1>2. next \in Nat \ {0} /\ Len(rules) \in Nat /\ None \notin Nat /\ next \in 1 .. Len(rules) + 1
  BY RouteAssumption DEF WalkInv, WalkTypes
<1>3. WalkTypes'
  BY <1>1, <1>2 DEF WalkInv, WalkTypes, Default
<1>6. NoTargetYet' /\ Stored' /\ NameIsClients' /\ AddressTypeFits'
  BY <1>1 DEF WalkInv, NoTargetYet, Stored, NameIsClients, AddressTypeFits
<1>4. Passed'
  <2>1. CASE at' = "connecting"
    BY <2>1, <1>1, <1>2 DEF WalkInv, WalkTypes, Passed, Matched, Default
  <2>2. CASE at' = "refused"
    BY <2>2, <1>1, <1>2 DEF WalkInv, WalkTypes, Passed, Matched, Default
  <2> QED
    BY <1>1, <2>1, <2>2
<1>5. BitsExplained'
  BY <1>1 DEF WalkInv, BitsExplained, Base
<1> QED
  BY <1>3, <1>4, <1>5, <1>6 DEF WalkInv

\* Neither of the two ways to connect changes what the walk has left.
LEMMA ConnectingKeepsPassed ==
    ASSUME WalkInv, at = "connecting", at' \in {"connected", "refused"},
           UNCHANGED <<written, rules, next, origin, conRoute, seen>>
    PROVE  Passed' /\ Stored' /\ conRoute \in 1 .. Len(rules) /\ next \in Nat \ {0}
<1>1. conRoute \in 0 .. Len(rules) /\ conRoute # Default /\ next \in Nat \ {0} /\ Len(rules) \in Nat
  BY DEF WalkInv, WalkTypes, Passed
<1> QED
  BY <1>1 DEF WalkInv, Stored, Passed, Matched, Default

LEMMA ConnectDirectKeepsWalkInv == WalkInv /\ ConnectDirect => WalkInv'
<1> SUFFICES ASSUME WalkInv, ConnectDirect PROVE WalkInv' OBVIOUS
<1>1. /\ at = "connecting" /\ UNCHANGED <<written, rules, next, origin, conRoute, seen>>
      /\ dst' \in (IF dst.addr = None THEN Resolutions(dst) ELSE {dst})
      /\ target' = dst'.addr /\ at' = IF target' = None THEN "refused" ELSE "connected"
  BY DEF ConnectDirect
<1>2. dst \in Host /\ Fits(dst)
  BY DEF WalkInv, WalkTypes, AddressTypeFits, Fits
<1>3. /\ dst' \in Host /\ Fits(dst') /\ dst'.name = dst.name
      /\ (dst'.addr = dst.addr \/ (dst.name # None /\ dst'.addr \in Lookup(dst.name) \ {Fails}))
  BY <1>1, <1>2, ResolutionKeepsFit
<1>4. Passed' /\ Stored'
  BY <1>1, ConnectingKeepsPassed
<1>5. WalkTypes' /\ NoTargetYet' /\ NameIsClients' /\ AddressTypeFits'
  BY <1>1, <1>3 DEF WalkInv, WalkTypes, NoTargetYet, NameIsClients, AddressTypeFits, Fits, Host, Text
<1>6. BitsExplained'
  <2> SUFFICES ASSUME \A k \in DOMAIN written : Usual(written[k].to), dst'.addr # None
               PROVE  Explained(dst'.addr, Base, written, next - 1)
    BY <1>1, RouteAssumption DEF BitsExplained, Base, Text
  <2>1. CASE dst'.addr = dst.addr
    BY <2>1 DEF WalkInv, BitsExplained
  <2>2. CASE dst.name # None /\ dst'.addr \in Lookup(dst.name) \ {Fails}
    <3>1. origin.name = dst.name /\ origin \in Destinations
      BY <2>2 DEF WalkInv, NameIsClients, WalkTypes
    <3>2. origin.addr = None
      BY <3>1, <2>2 DEF Destinations
    <3>3. dst'.addr \in Base
      BY <3>1, <3>2, <2>2 DEF Base
    <3> QED
      BY <3>3 DEF Explained
  <2> QED
    BY <1>3, <2>1, <2>2
<1> QED
  BY <1>4, <1>5, <1>6 DEF WalkInv

LEMMA ConnectTunnelKeepsWalkInv == WalkInv /\ ConnectTunnel => WalkInv'
<1> SUFFICES ASSUME WalkInv, ConnectTunnel PROVE WalkInv' OBVIOUS
<1>1. /\ at = "connecting" /\ at' = "connected"
      /\ UNCHANGED <<written, rules, next, dst, origin, conRoute, seen>>
      /\ target' = IF dst.type = "IPV4" THEN dst.addr ELSE dst.name
  BY DEF ConnectTunnel
<1>2. dst \in Host /\ Fits(dst)
  BY DEF WalkInv, WalkTypes, AddressTypeFits, Fits
<1>3. Passed' /\ Stored'
  BY <1>1, ConnectingKeepsPassed
<1>4. target' # None /\ target' \in Text
  BY <1>1, <1>2, RouteAssumption DEF Host, Fits, Text
<1>5. WalkTypes' /\ NoTargetYet' /\ NameIsClients' /\ AddressTypeFits'
  BY <1>1, <1>2, <1>4 DEF WalkInv, WalkTypes, NoTargetYet, NameIsClients, AddressTypeFits, Fits
<1>6. BitsExplained'
  <2> SUFFICES ASSUME \A k \in DOMAIN written : Usual(written[k].to), target' \in Addr
               PROVE  Explained(target', Base, written, next - 1)
    BY <1>1 DEF WalkInv, BitsExplained, Base
  <2>1. CASE dst.type = "IPV4"
    BY <2>1, <1>1, <1>4 DEF WalkInv, BitsExplained
  <2>2. CASE dst.type = "DOMAIN"
    <3>1. target' = origin.name /\ origin.name # None /\ origin \in Destinations
      BY <2>2, <1>1, <1>4 DEF WalkInv, NameIsClients, WalkTypes
    <3>2. origin.addr = None /\ origin.name \notin Hosts
      BY <3>1, RouteAssumption DEF Destinations
    <3>3. target' \in Base
      BY <3>1, <3>2, RouteAssumption DEF Base, Lookup, Text
    <3> QED
      BY <3>3 DEF Explained
  <2> QED
    BY <1>2, <2>1, <2>2 DEF Host
<1> QED
  BY <1>3, <1>5, <1>6 DEF WalkInv

LEMMA WalkInductive == WalkSpec => []WalkInv
<1>1. WalkInv /\ [WalkNext]_walkVars => WalkInv'
  <2> SUFFICES ASSUME WalkInv, [WalkNext]_walkVars PROVE WalkInv' OBVIOUS
  <2>1. CASE RuleDoesNotApply
    BY <2>1, RuleDoesNotApplyKeepsWalkInv
  <2>2. CASE RuleApplies
    BY <2>2, RuleAppliesKeepsWalkInv
  <2>3. CASE EndWalk
    BY <2>3, EndWalkKeepsWalkInv
  <2>4. CASE ConnectDirect
    BY <2>4, ConnectDirectKeepsWalkInv
  <2>5. CASE ConnectTunnel
    BY <2>5, ConnectTunnelKeepsWalkInv
  <2>6. CASE UNCHANGED walkVars
    BY <2>6 DEF walkVars, WalkInv, WalkTypes, NoTargetYet, Stored, NameIsClients, AddressTypeFits, Passed, Matched,
                BitsExplained, Base
  <2> QED
    BY <2>1, <2>2, <2>3, <2>4, <2>5, <2>6 DEF WalkNext
<1> QED
  BY <1>1, WalkInitEstablishes, PTL DEF WalkSpec

(* route_rule.c:148-186, route_rules_engine.c:53-230: the stored rules,   *)
(* the place in the list and the destination have their types throughout.  *)
THEOREM WalkTypeCorrect == WalkSpec => []WalkTypeOK
<1>1. WalkInv => WalkTypeOK
  BY DEF WalkInv, WalkTypes, WalkTypeOK, Host
<1> QED
  BY <1>1, WalkInductive, PTL

(* route_rules_engine.c:144-188: however the rules of a list rewrite and   *)
(* resolve the destination, socks_address_type announces what is there,    *)
(* and no connection is made to nothing.                                   *)
THEOREM AddressTypeAlwaysFits == WalkSpec => []AddressTypeFits
<1>1. WalkInv => AddressTypeFits
  BY DEF WalkInv
<1> QED
  BY <1>1, WalkInductive, PTL

(* route_rules_engine.c:146-148: for addresses of any width and every list *)
(* of rules, no bit of a destination changes that no passed rule names in  *)
(* the network behind its "to".                                            *)
THEOREM HostPartIsKept == WalkSpec => []HostPartKept
<1>1. WalkInv => HostPartKept
  <2> SUFFICES ASSUME WalkInv, \A k \in DOMAIN written : Usual(written[k].to),
                      NEW final \in Addr, final \in {dst.addr, target}
               PROVE  Explained(final, Base, written, next - 1)
    BY DEF HostPartKept, Explained
  <2>1. CASE final = dst.addr
    <3>1. dst.addr # None
      BY <2>1, RouteAssumption DEF Text
    <3> QED
      BY <3>1, <2>1 DEF WalkInv, BitsExplained
  <2>2. CASE final = target
    BY <2>2 DEF WalkInv, BitsExplained
  <2> QED
    BY <2>1, <2>2
<1> QED
  BY <1>1, WalkInductive, PTL

(* readme.md:134-155: for every list of rules and every destination, the   *)
(* route is the first rule with a tunnel whose criteria, as written, the   *)
(* destination met when the walk came to it; with no such rule, none.      *)
THEOREM FirstMatchAlwaysDecides == WalkSpec => []FirstMatchDecides
<1>1. WalkInv => FirstMatchDecides
  <2> SUFFICES ASSUME WalkInv, at # "rules",
                      \A k \in DOMAIN written : Usual(written[k].network) /\ Usual(written[k].map)
               PROVE  LET matching == {k \in 1 .. Len(rules) : written[k].via # {} /\ k < next /\ MeetsAll(k)}
                      IN IF conRoute = Default THEN matching = {} /\ next > Len(rules)
                         ELSE matching = {conRoute}
    BY DEF FirstMatchDecides
  <2>1. /\ written \in Seq(RuleOf(Written)) /\ Len(rules) = Len(written) /\ Len(rules) \in Nat
        /\ next \in 1 .. Len(rules) + 1 /\ seen \in Seq(Host) /\ Len(seen) = next - 1
        /\ conRoute \in 0 .. Len(rules)
    BY DEF WalkInv, WalkTypes, Passed
  <2>2. ASSUME NEW k \in 1 .. next - 1
        PROVE  (written[k].via # {} /\ MeetsAll(k)) <=> conRoute = k
    <3>1. /\ written[k] \in RuleOf(Written) /\ rules[k] \in Parses(written[k]) /\ seen[k] \in Host
          /\ Usual(written[k].network) /\ Usual(written[k].map)
      BY <2>1 DEF WalkInv, Stored
    <3>2. Applies(rules[k], seen[k]) <=> MeetsAll(k)
      BY <3>1, CriteriaAsWritten DEF MeetsAll
    <3>3. rules[k].via = written[k].via
      BY <3>1, ParseKeepsRule
    <3> QED
      BY <3>2, <3>3 DEF WalkInv, Passed, Matched, IsFinal
  <2>3. conRoute # Default => conRoute \in 1 .. next - 1
    BY <2>1 DEF WalkInv, Passed, Default
  <2> QED
    BY <2>1, <2>2, <2>3 DEF WalkInv, Passed, Default
<1> QED
  BY <1>1, WalkInductive, PTL

(* socks_connection.c:125: a connection is only made along a rule that     *)
(* names a tunnel, so the remainder by the number of tunnels is defined.   *)
(* SocksConnection assumes as much of its routes (RoutesAssumption).       *)
THEOREM RouteHasTunnel == WalkSpec => [](at \in {"connecting", "connected"} => rules[conRoute].via # {})
<1>1. WalkInv => (at \in {"connecting", "connected"} => rules[conRoute].via # {})
  BY DEF WalkInv, WalkTypes, Passed, Matched, IsFinal, Default
<1> QED
  BY <1>1, WalkInductive, PTL
=============================================================================

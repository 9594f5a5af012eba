-------------------------- MODULE SocksConnection ---------------------------
(***************************************************************************)
(* One thread of the SOCKS service (service_socks.c): the handshake with   *)
(* the client, the loop over the route's tunnels (socks_connection.c), the *)
(* client side of SOCKS5 spoken to an ssh process (socks5_client.c), and   *)
(* the answer to the client.                                               *)
(*                                                                         *)
(* The thread learns how an attempt went in two ways: the function's       *)
(* result, and failure_type, which the attempt leaves behind.  They are    *)
(* independent in the code, and so are they here: a reply of the ssh       *)
(* process that says "succeeded" with an address the code cannot read is a *)
(* failed attempt that leaves Succeeded behind, and the null tunnel        *)
(* succeeds without touching failure_type.                                 *)
(***************************************************************************)
EXTENDS Naturals, Sequences, FiniteSets

CONSTANTS
    Routes,          \* the tunnel lists of the route rules
    MaxAttempts      \* the last connect_attempt of socks_connect: 100

Kinds == {"direct", "null", "ssh1", "ssh2"}
Ssh == {"ssh1", "ssh2"}

ASSUME RoutesAssumption == Routes \subseteq Seq(Kinds) \ {<<>>}
ASSUME AttemptsAssumption == MaxAttempts \in Nat

\* Values of failure_type: the replies of SOCKS5 the code tells apart, and what
\* an uninitialised int may hold.
Replies == {"Succeeded", "ServerFailure", "Refused", "AddressType", "Other"}
Garbage == Replies

\* What the client may be told: SOCKS5's reply codes, SOCKS4's two codes.
Answers == Replies \cup {"Granted4", "Rejected4"}

VARIABLES
    pc,             \* where the thread is
    version,        \* con->socks_version (0: not known)
    route,          \* con->route's tunnels (<<>>: not decided)
    attempt,        \* connect_attempt
    tunnel,         \* con->tunnel, or "none"
    out,            \* whether con->fd_out is open
    failure,        \* failure_type
    answer,         \* what socks_respond wrote, or "none"
    tried,          \* history: the tunnels that were tried
    reached         \* history: the last attempt got past this host's ports

vars == <<pc, version, route, attempt, tunnel, out, failure, answer, tried, reached>>

Init ==
    /\ pc = "version" /\ version = 0 /\ route = <<>> /\ attempt = 0
    /\ tunnel = "none" /\ out = FALSE /\ answer = "none"
    /\ tried = {} /\ reached = FALSE
    /\ failure \in Garbage

Goes(from, to) == pc = from /\ pc' = to

-----------------------------------------------------------------------------
\* The handshake.

GetVersion(v) ==
    /\ Goes("version", IF v = 5 THEN "auth" ELSE "command")
    /\ version' = v
    /\ UNCHANGED <<route, attempt, tunnel, out, failure, answer, tried, reached>>

\* Any number of methods is read; the choice is always "none required".
NegotiateAuth ==
    /\ Goes("auth", "command")
    /\ UNCHANGED <<version, route, attempt, tunnel, out, failure, answer, tried, reached>>

GetCommand ==
    /\ Goes("command", "rule")
    /\ UNCHANGED <<version, route, attempt, tunnel, out, failure, answer, tried, reached>>

\* A version, a command or an address type that is not supported, a client
\* that closes: the connection is shut down.  Of these only the version has a
\* reply, the choice of no method, which is not an answer to a command.
HandshakeFails ==
    /\ pc \in {"version", "auth", "command"} /\ pc' = "end"
    /\ UNCHANGED <<version, route, attempt, tunnel, out, failure, answer, tried, reached>>

Decide(r) ==
    /\ Goes("rule", "select")
    /\ route' = r
    /\ UNCHANGED <<version, attempt, tunnel, out, failure, answer, tried, reached>>

NoRule ==
    /\ Goes("rule", "end")
    /\ route' = <<"direct">>
    /\ UNCHANGED <<version, attempt, tunnel, out, failure, answer, tried, reached>>

-----------------------------------------------------------------------------
\* socks_connect.

FirstOnly == 0                           \* mutant: always the first tunnel
Index == attempt % Len(route)

\* The top of the loop.  connect_direct and connect_via_ssh_socks5 begin by
\* assuming a server failure; connect_null does not.
Select ==
    /\ Goes("select", "try")
    /\ tunnel' = route[Index + 1]
    /\ tried' = tried \cup {tunnel'} /\ reached' = FALSE
    /\ failure' = IF tunnel' = "null" THEN failure ELSE "ServerFailure"
    /\ UNCHANGED <<version, route, attempt, out, answer>>

NullSucceeds ==
    /\ tunnel = "null" /\ Goes("try", "respond")
    /\ UNCHANGED <<version, route, attempt, tunnel, out, failure, answer, tried, reached>>

\* connect_direct: no usable address, or socket() or connect() fails; the
\* socket that could not be connected is closed.
DirectFails ==
    /\ tunnel = "direct" /\ Goes("try", "failed")
    /\ failure' \in {"ServerFailure", "AddressType", "Refused"}
    /\ reached' = TRUE
    /\ UNCHANGED <<version, route, attempt, tunnel, out, answer, tried>>

DirectSucceeds ==
    /\ tunnel = "direct" /\ Goes("try", "respond")
    /\ out' = TRUE /\ failure' = "Succeeded"
    /\ UNCHANGED <<version, route, attempt, tunnel, answer, tried, reached>>

\* connect_to_ssh_socks5_proxy.  A process that is not up refuses the
\* connection: this is not the refusal of the destination.
LocalRefused == "Refused"                \* mutant: taken for the destination's
LocalFailure == "ServerFailure"

NoProcess ==
    /\ tunnel \in Ssh /\ Goes("try", "failed")
    /\ failure' = LocalFailure
    /\ UNCHANGED <<version, route, attempt, tunnel, out, answer, tried, reached>>

ProcessAnswers ==
    /\ tunnel \in Ssh /\ Goes("try", "ask")
    /\ out' = TRUE /\ reached' = TRUE
    /\ UNCHANGED <<version, route, attempt, tunnel, failure, answer, tried>>

\* Authentication or the command cannot be exchanged, or the reply is cut
\* short by an error or has another version.
ExchangeFails ==
    /\ Goes("ask", "failed")
    /\ UNCHANGED <<version, route, attempt, tunnel, out, failure, answer, tried, reached>>

\* The process closes instead of replying.
ClosedByProcess ==
    /\ Goes("ask", "failed")
    /\ failure' = "Refused"
    /\ UNCHANGED <<version, route, attempt, tunnel, out, answer, tried, reached>>

\* The attempt's result: not what the reply says alone, but whether all of it
\* could be read, too.
Succeeds(code, readable) == readable /\ code = "Succeeded"

Reply(code, readable) ==
    /\ Goes("ask", IF Succeeds(code, readable) THEN "respond" ELSE "failed")
    /\ failure' = code
    /\ UNCHANGED <<version, route, attempt, tunnel, out, answer, tried, reached>>

\* After a failed attempt: con->tunnel is cleared, the socket is closed, and
\* a refusal or the last attempt ends the loop.
KeptOpen == out                          \* mutant: the socket of the attempt stays open
Closed == FALSE
OneMore == failure = "Refused" \/ attempt > MaxAttempts   \* mutant: off by one
GiveUp == failure = "Refused" \/ attempt >= MaxAttempts
Judged ==                                \* mutant: failure_type decides
    IF failure = "Succeeded" THEN "respond" ELSE "end"
GivenUp == "end"
TellFailure == failure                   \* mutant: every failed attempt is reported
KeepSilent == answer

AfterFailure ==
    /\ Goes("failed", IF GiveUp THEN GivenUp ELSE "select")
    /\ tunnel' = "none" /\ out' = Closed
    /\ attempt' = IF GiveUp THEN attempt ELSE attempt + 1
    /\ answer' = KeepSilent
    /\ UNCHANGED <<version, route, failure, tried, reached>>

-----------------------------------------------------------------------------
\* The answer.

AnswerFor == IF version = 4
             THEN IF failure = "Succeeded" THEN "Granted4" ELSE "Rejected4"
             ELSE failure

Respond ==
    /\ Goes("respond", "relay")
    /\ answer' = AnswerFor
    /\ UNCHANGED <<version, route, attempt, tunnel, out, failure, tried, reached>>

RespondFails ==
    /\ Goes("respond", "end")
    /\ UNCHANGED <<version, route, attempt, tunnel, out, failure, answer, tried, reached>>

\* The shuttle, or the null connection's reads, are over.
RelayEnds ==
    /\ Goes("relay", "end")
    /\ UNCHANGED <<version, route, attempt, tunnel, out, failure, answer, tried, reached>>

\* service_thread_shutdown.
Shutdown ==
    /\ Goes("end", "exited")
    /\ out' = FALSE
    /\ UNCHANGED <<version, route, attempt, tunnel, failure, answer, tried, reached>>

Exited == pc = "exited" /\ UNCHANGED vars

Next ==
    \/ (\E v \in {4, 5} : GetVersion(v)) \/ NegotiateAuth \/ GetCommand \/ HandshakeFails
    \/ (\E r \in Routes : Decide(r)) \/ NoRule
    \/ Select \/ NullSucceeds \/ DirectFails \/ DirectSucceeds
    \/ NoProcess \/ ProcessAnswers \/ ExchangeFails \/ ClosedByProcess
    \/ (\E code \in Replies, readable \in BOOLEAN : Reply(code, readable))
    \/ AfterFailure \/ Respond \/ RespondFails \/ RelayEnds \/ Shutdown \/ Exited

Spec == Init /\ [][Next]_vars

-----------------------------------------------------------------------------
Places == {"version", "auth", "command", "rule", "select", "try", "ask", "failed",
           "respond", "relay", "end", "exited"}

TypeOK ==
    /\ pc \in Places /\ version \in {0, 4, 5}
    /\ route \in Routes \cup {<<>>, <<"direct">>}
    /\ attempt \in 0..MaxAttempts
    /\ tunnel \in Kinds \cup {"none"} /\ tried \subseteq Kinds
    /\ out \in BOOLEAN /\ reached \in BOOLEAN
    /\ failure \in Replies /\ answer \in Answers \cup {"none"}

(***************************************************************************)
(* A client is granted its request only while the socket of the attempt    *)
(* that succeeded is open (or it is routed to the null tunnel): not by     *)
(* what an earlier, failed attempt left in failure_type.                   *)
(***************************************************************************)
GrantIsHonest ==
    pc = "relay" /\ answer \in {"Succeeded", "Granted4"} => out \/ tunnel = "null"

(***************************************************************************)
(* con->fd_out is overwritten by the next attempt, so no attempt begins,   *)
(* and no thread exits, with a socket in it.                               *)
(***************************************************************************)
NoSocketLeft == pc \in {"select", "try", "exited"} => ~out

\* socks_connect has given up.
Fruitless == pc \in {"end", "exited"} /\ tried # {} /\ tunnel = "none"

(***************************************************************************)
(* socks_connect gives up early only on the word of somebody beyond this   *)
(* host's own ports: while the ssh process of a tunnel is not up yet, the  *)
(* connection keeps trying -- that is what the retries are for.            *)
(***************************************************************************)
WaitsForTunnels == Fruitless /\ attempt < MaxAttempts => reached

(***************************************************************************)
(* Before it gives up for good it has tried every tunnel of the route.     *)
(***************************************************************************)
EveryTunnelTried ==
    Fruitless /\ attempt >= MaxAttempts /\ failure # "Refused" /\ Len(route) <= MaxAttempts + 1
        => {route[i] : i \in DOMAIN route} \subseteq tried

(***************************************************************************)
(* The thread implements the session its client sees: answered once at     *)
(* most, after a success, and before any relayed byte.                     *)
(***************************************************************************)
Phase ==
    CASE pc \in {"version", "auth", "command", "rule"}          -> "greeting"
      [] pc \in {"select", "try", "ask", "failed", "respond"}   -> "connecting"
      [] pc = "relay"                                           -> "relaying"
      [] OTHER                                                  -> "closed"
Session == INSTANCE SocksSession WITH phase <- Phase
ImplementsSession == Session!Spec
=============================================================================

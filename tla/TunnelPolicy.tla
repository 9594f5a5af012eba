---------------------------- MODULE TunnelPolicy ----------------------------
(***************************************************************************)
(* Who starts an ssh process, and when: the mark-and-sweep of ssh_policy.c *)
(* against the connection threads that are looking for a tunnel            *)
(* (socks_connect in socks_connection.c) and the processes themselves.     *)
(*                                                                         *)
(* A connection thread never starts a process.  It tries the tunnels of    *)
(* its route in turn, up to MaxAttempts + 1 times, and leaves in con->route*)
(* and con->tunnel what the main thread needs to know.  On each turn of    *)
(* its loop the main thread clears the marks, marks the tunnels that the   *)
(* listed connections want -- reading each connection under its own lock,  *)
(* one after the other -- and then visits every tunnel: it collects a      *)
(* child that has exited and starts one that is marked and not running.    *)
(*                                                                         *)
(* What a fork or a pthread_create that fails leaves in the main thread's  *)
(* errno decides whether the loop of poll() is ever left again (see        *)
(* MainLoop); so errno is here as well, "other" for all but EAGAIN.        *)
(***************************************************************************)
EXTENDS Integers, Sequences, FiniteSets

CONSTANTS
    Conn,          \* connection objects
    Ssh,           \* tunnels that are an ssh process
    Direct, Null,  \* the two built-in tunnels, which need no process
    Routes,        \* the tunnel lists of the route rules
    Pid,           \* process ids
    None,          \* -1 as a pid, NULL as a tunnel
    MaxAttempts,   \* the last connect_attempt of socks_connect
    Throttle,      \* seconds between two starts of a tunnel
    ForkErrors     \* errno after a fork or a pthread_create that fails

Tunnel == Ssh \cup {Direct, Null}
Tunnels(r) == {r[i] : i \in DOMAIN r}

ASSUME NoneAssumption == None \notin Tunnel \cup Pid
ASSUME DistinctAssumption == Direct # Null /\ {Direct, Null} \cap Ssh = {}
ASSUME RoutesAssumption == Routes \subseteq Seq(Tunnel) \ {<<>>}
ASSUME ErrnoAssumption == ForkErrors \subseteq {"EAGAIN", "other"}
ASSUME BoundsAssumption == MaxAttempts \in Nat /\ Throttle \in Nat

VARIABLES
    state,              \* [Conn -> where its thread is; "free": not on the list]
    route, tunnel,      \* con->route (<<>> is NULL) and con->tunnel
    attempt,            \* connect_attempt
    pid, since,         \* ssh->pid, seconds since ssh->start_time (up to Throttle)
    mark, count,        \* ssh->mark, ssh->connection_count
    stage, conns, tuns, \* the main thread: what it does, and is still to visit
    errno,              \*   and its errno
    alive, zombie,      \* the kernel: running processes, and exited ones not waited for
    childOf,            \*   the tunnel a process was started for
    listening,          \*   the processes whose SOCKS port is open
    sinceStart          \* history: seconds since a process was last started

conVars == <<state, route, tunnel, attempt>>
sshVars == <<pid, since, mark, count>>
mainVars == <<stage, conns, tuns, errno>>
kernel == <<alive, zombie, childOf, listening>>
vars == <<conVars, sshVars, mainVars, kernel, sinceStart>>

Listed == {c \in Conn : state[c] # "free"}

Init ==
    /\ state = [c \in Conn |-> "free"]
    /\ route = [c \in Conn |-> <<>>] /\ tunnel = [c \in Conn |-> None]
    /\ attempt = [c \in Conn |-> 0]
    /\ pid = [t \in Ssh |-> None] /\ since = [t \in Ssh |-> Throttle]
    /\ mark = [t \in Ssh |-> 0] /\ count = [t \in Ssh |-> 0]
    /\ stage = "poll" /\ errno = "other" /\ conns = {} /\ tuns = {}
    /\ alive = {} /\ zombie = {} /\ listening = {}
    /\ childOf = [p \in Pid |-> None]
    /\ sinceStart = [t \in Ssh |-> Throttle]

-----------------------------------------------------------------------------
\* Connection threads.

Goes(c, from, to) == state[c] = from /\ state' = [state EXCEPT ![c] = to]
OnlyCon == UNCHANGED <<sshVars, mainVars, kernel, sinceStart>>

\* decide_applicable_rule found a rule with tunnels.
Decide(c, r) ==
    /\ Goes(c, "new", "select")
    /\ route' = [route EXCEPT ![c] = r]
    /\ UNCHANGED <<tunnel, attempt>> /\ OnlyCon

\* It found none: con->route is default_direct, and the handler gives up.
NoRule(c) ==
    /\ Goes(c, "new", "gone")
    /\ route' = [route EXCEPT ![c] = <<Direct>>]
    /\ UNCHANGED <<tunnel, attempt>> /\ OnlyCon

\* The handshake fails before a route is decided.
HandshakeFails(c) ==
    /\ Goes(c, "new", "gone")
    /\ UNCHANGED <<route, tunnel, attempt>> /\ OnlyCon

\* The top of the loop: con->tunnel is the next tunnel of the route.
SetTunnel(c) ==
    /\ Goes(c, "select", "try")
    /\ tunnel' = [tunnel EXCEPT ![c] = route[c][(attempt[c] % Len(route[c])) + 1]]
    /\ UNCHANGED <<route, attempt>> /\ OnlyCon

\* An ssh tunnel answers only while its process is up and listening.
Reachable(t) == t \in Ssh => \E p \in alive \cap listening : childOf[p] = t

\* Its port accepts, or the host does: the request is on its way.
Ask(c) ==
    /\ Reachable(tunnel[c])
    /\ Goes(c, "try", "asked")
    /\ UNCHANGED <<route, tunnel, attempt>> /\ OnlyCon

Connect(c) ==
    /\ Goes(c, "asked", "connected")
    /\ UNCHANGED <<route, tunnel, attempt>> /\ OnlyCon

\* "Connection refused": the far end says so, or an ssh process that dies
\* before it has answered.  No other tunnel is tried.
Refused(c) ==
    /\ tunnel[c] # Null
    /\ Goes(c, "asked", "gone")
    /\ tunnel' = [tunnel EXCEPT ![c] = None]
    /\ UNCHANGED <<route, attempt>> /\ OnlyCon

\* Any other failure, a tunnel that is not up yet among them.
LastPlusOne(c) == attempt[c] > MaxAttempts   \* mutant: off by one
LastAttempt(c) == attempt[c] >= MaxAttempts
Retry(c) ==
    /\ tunnel[c] # Null
    /\ \E from \in {"try", "asked"} : Goes(c, from, IF LastAttempt(c) THEN "gone" ELSE "select")
    /\ tunnel' = [tunnel EXCEPT ![c] = None]
    /\ attempt' = [attempt EXCEPT ![c] = IF LastAttempt(c) THEN @ ELSE @ + 1]
    /\ UNCHANGED route /\ OnlyCon

\* The shuttle is done; the object keeps route and tunnel while it loiters.
Finish(c) ==
    /\ Goes(c, "connected", "gone")
    /\ UNCHANGED <<route, tunnel, attempt>> /\ OnlyCon

Thread(c) ==
    \/ \E r \in Routes : Decide(c, r)
    \/ NoRule(c) \/ HandshakeFails(c)
    \/ SetTunnel(c) \/ Ask(c) \/ Connect(c) \/ Refused(c) \/ Retry(c) \/ Finish(c)

-----------------------------------------------------------------------------
\* The processes, and the clock.

ChildListens(p) ==
    /\ p \in alive \ listening
    /\ listening' = listening \cup {p}
    /\ UNCHANGED <<conVars, sshVars, mainVars, alive, zombie, childOf, sinceStart>>

ChildExits(p) ==
    /\ p \in alive
    /\ alive' = alive \ {p} /\ zombie' = zombie \cup {p} /\ listening' = listening \ {p}
    /\ UNCHANGED <<conVars, sshVars, mainVars, childOf, sinceStart>>

Older(seconds) == [t \in Ssh |-> IF seconds[t] < Throttle THEN seconds[t] + 1 ELSE Throttle]
Tick ==
    /\ \E t \in Ssh : since[t] < Throttle
    /\ since' = Older(since) /\ sinceStart' = Older(sinceStart)
    /\ UNCHANGED <<conVars, pid, mark, count, mainVars, kernel>>

-----------------------------------------------------------------------------
\* The main thread.

\* do poll() while (errno == EAGAIN).
Poll ==
    /\ stage = "poll" /\ errno # "EAGAIN"
    /\ stage' = "idle"
    /\ UNCHANGED <<conVars, sshVars, conns, tuns, errno, kernel, sinceStart>>
PollFails ==
    /\ stage = "poll" /\ "EAGAIN" \in ForkErrors
    /\ errno' = "EAGAIN"
    /\ UNCHANGED <<conVars, sshVars, stage, conns, tuns, kernel, sinceStart>>

\* The list changes only between poll() and check_ssh_tunnels.
Accept(c) ==
    /\ stage = "idle" /\ Goes(c, "free", "new")
    /\ UNCHANGED <<route, tunnel, attempt>> /\ OnlyCon

\* launch_thread could not create the thread.
LaunchFails(c) ==
    /\ stage = "idle" /\ Goes(c, "free", "gone")
    /\ errno' \in ForkErrors
    /\ UNCHANGED <<route, tunnel, attempt, sshVars, stage, conns, tuns, kernel, sinceStart>>

Cleanup(c) ==
    /\ stage = "idle" /\ Goes(c, "gone", "free")
    /\ route' = [route EXCEPT ![c] = <<>>] /\ tunnel' = [tunnel EXCEPT ![c] = None]
    /\ attempt' = [attempt EXCEPT ![c] = 0]
    /\ OnlyCon

MarksKept == UNCHANGED <<mark, count>>   \* mutant: the marks are never cleared
MarksCleared == mark' = [t \in Ssh |-> 0] /\ count' = [t \in Ssh |-> 0]

StartMarking ==
    /\ stage = "idle" /\ stage' = "mark"
    /\ MarksCleared
    /\ conns' = Listed
    /\ UNCHANGED <<conVars, pid, since, tuns, errno, kernel, sinceStart>>

\* How often one connection marks t, given its route and its tunnel.  A route
\* may name a tunnel in several places.
InPlaces(c, t) == {i \in DOMAIN route[c] : route[c][i] = t}
OnlyCurrent(c, t) ==                     \* mutant: unconnected routes are not marked
    IF tunnel[c] = t THEN 1 ELSE 0
Wanted(c, t) ==
    CASE route[c] = <<>>                       -> 0
      [] route[c] # <<>> /\ tunnel[c] # None   -> IF tunnel[c] = t THEN 1 ELSE 0
      [] OTHER                                 -> Cardinality(InPlaces(c, t))

Mark(c) ==
    /\ stage = "mark" /\ c \in conns
    /\ conns' = conns \ {c}
    /\ mark' = [t \in Ssh |-> mark[t] + Wanted(c, t)]
    /\ count' = [t \in Ssh |-> IF route[c] # <<>> /\ tunnel[c] = t THEN count[t] + 1 ELSE count[t]]
    /\ UNCHANGED <<conVars, pid, since, stage, tuns, errno, kernel, sinceStart>>

StartChecking ==
    /\ stage = "mark" /\ conns = {}
    /\ stage' = "check" /\ tuns' = Ssh
    /\ UNCHANGED <<conVars, sshVars, conns, errno, kernel, sinceStart>>

\* check_ssh_tunnel.  waitpid(WNOHANG) tells whether the child still runs,
\* and collects it if it does not.
AssumedDead(t) == FALSE                  \* mutant: the result of waitpid is ignored
Running(t) == pid[t] \in alive
Collected(t) == pid[t] \in zombie
ZombiesAfter(t) == zombie \ {pid[t]}

ToStart(t) == ~Running(t) /\ mark[t] > 0 /\ since[t] >= Throttle

Visit(t) ==
    /\ stage = "check" /\ t \in tuns
    /\ tuns' = tuns \ {t}
    /\ zombie' = ZombiesAfter(t)
    /\ UNCHANGED <<conVars, mark, count, stage, conns>>

LeaveAlone(t) ==
    /\ Visit(t) /\ ~ToStart(t)
    /\ pid' = IF Collected(t) THEN [pid EXCEPT ![t] = None] ELSE pid
    /\ UNCHANGED <<since, errno, alive, childOf, listening, sinceStart>>

SinceKept(t) == since                    \* mutant: start_time is not set
SinceAfterStart(t) == [since EXCEPT ![t] = 0]

Start(t, p) ==
    /\ Visit(t) /\ ToStart(t)
    /\ p \notin alive \cup ZombiesAfter(t)
    /\ pid' = [pid EXCEPT ![t] = p]
    /\ alive' = alive \cup {p} /\ childOf' = [childOf EXCEPT ![p] = t]
    /\ since' = SinceAfterStart(t) /\ sinceStart' = [sinceStart EXCEPT ![t] = 0]
    /\ UNCHANGED <<errno, listening>>

\* ssh->pid = fork() is -1; start_time keeps its value.
ForkFails(t) ==
    /\ Visit(t) /\ ToStart(t)
    /\ pid' = [pid EXCEPT ![t] = None] /\ errno' \in ForkErrors
    /\ UNCHANGED <<since, alive, childOf, listening, sinceStart>>

\* On the way back to poll() log files may be renamed that do not exist.
EndChecking ==
    /\ stage = "check" /\ tuns = {}
    /\ stage' = "poll" /\ errno' \in {errno, "other"}
    /\ UNCHANGED <<conVars, sshVars, conns, tuns, kernel, sinceStart>>

MainThread ==
    \/ Poll \/ PollFails
    \/ StartMarking \/ (\E c \in Conn : Mark(c))
    \/ StartChecking \/ EndChecking
    \/ \E t \in Ssh : LeaveAlone(t) \/ ForkFails(t) \/ \E p \in Pid : Start(t, p)

Next ==
    \/ MainThread \/ Tick
    \/ \E c \in Conn : Thread(c) \/ Accept(c) \/ LaunchFails(c) \/ Cleanup(c)
    \/ \E p \in Pid : ChildListens(p) \/ ChildExits(p)

Spec == Init /\ [][Next]_vars

(***************************************************************************)
(* poll() has a timeout, so the main loop goes round -- unless it is       *)
(* Caught, where it has no step to take; time passes, and a fork that is   *)
(* tried again and again succeeds at last.  Nothing is assumed of the      *)
(* connection threads, of the processes or of the clients.                 *)
(***************************************************************************)
FairSpec ==
    /\ Spec /\ WF_vars(MainThread) /\ WF_vars(Tick)
    /\ \A t \in Ssh : SF_vars(\E p \in Pid : Start(t, p))

-----------------------------------------------------------------------------
States == {"free", "new", "select", "try", "asked", "connected", "gone"}

TypeOK ==
    /\ state \in [Conn -> States]
    /\ route \in [Conn -> Routes \cup {<<>>, <<Direct>>}]
    /\ tunnel \in [Conn -> Tunnel \cup {None}]
    /\ attempt \in [Conn -> 0..MaxAttempts]
    /\ pid \in [Ssh -> Pid \cup {None}] /\ since \in [Ssh -> 0..Throttle]
    /\ mark \in [Ssh -> Nat] /\ count \in [Ssh -> Nat]
    /\ stage \in {"poll", "idle", "mark", "check"} /\ errno \in {"EAGAIN", "other"}
    /\ conns \subseteq Conn /\ tuns \subseteq Ssh
    /\ alive \subseteq Pid /\ zombie \subseteq Pid /\ listening \subseteq alive
    /\ childOf \in [Pid -> Ssh \cup {None}]
    /\ sinceStart \in [Ssh -> 0..Throttle]

(***************************************************************************)
(* No process is forgotten: every child that runs or waits to be collected *)
(* is the one its tunnel records, so a tunnel never has two processes that *)
(* fight for its port, and every child is collected in the end.            *)
(***************************************************************************)
NoChildForgotten == \A p \in alive \cup zombie : childOf[p] \in Ssh /\ pid[childOf[p]] = p

(***************************************************************************)
(* Marks are evidence.  While tunnels are being checked -- and connections *)
(* go on changing their minds -- a tunnel has at most one mark for every   *)
(* place it has in the route of a connection on the list: no process is    *)
(* started for nobody.  connection_count, which the status page shows, is  *)
(* at most that.                                                           *)
(***************************************************************************)
NoExcessMarks ==
    stage = "check" =>
        \A t \in tuns : /\ mark[t] <= Cardinality(UNION {{c} \X InPlaces(c, t) : c \in Listed})
                        /\ count[t] <= mark[t]

(***************************************************************************)
(* check_ssh_tunnel throttles: two processes of a tunnel are started at    *)
(* least Throttle seconds apart, however often the first one dies.         *)
(***************************************************************************)
ThrottleStep == \A t \in Ssh, p \in Pid : Start(t, p) => sinceStart[t] >= Throttle
Throttled == [][ThrottleStep]_vars

(***************************************************************************)
(* A connection that is looking for a way through a route of ssh tunnels   *)
(* only, for as long as it does not give up, gets a process: whichever of  *)
(* its tunnels the marking thread happens to see it try, and however often *)
(* forks fail -- unless the main thread is caught in poll(), by a fork, a  *)
(* pthread_create or a poll() that has failed with EAGAIN                  *)
(* (server.c:286-288).                                                     *)
(***************************************************************************)
Looking(c) == state[c] \in {"select", "try", "asked"} /\ Tunnels(route[c]) \subseteq Ssh
HasProcess(c) == \E t \in Tunnels(route[c]) \cap Ssh : pid[t] \in alive
Caught == stage = "poll" /\ errno = "EAGAIN"
ProcessIsStarted == \A c \in Conn : Looking(c) ~> (HasProcess(c) \/ ~Looking(c) \/ Caught)
=============================================================================

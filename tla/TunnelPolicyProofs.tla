------------------------- MODULE TunnelPolicyProofs -------------------------
(***************************************************************************)
(* What is proved of TunnelPolicy, for every set of connections, tunnels,  *)
(* routes and process ids.  IInv adds to the properties the facts they     *)
(* rest on: a thread that tries tunnels has a route with tunnels in it,    *)
(* and ssh->start_time is the time of the last start.                      *)
(*                                                                         *)
(* TunnelPolicy takes the route of a connection that no rule matches for   *)
(* granted.  The last part proves of DefaultRoute, which models how it     *)
(* comes about, when this is right.                                        *)
(***************************************************************************)
EXTENDS TunnelPolicy, FiniteSetTheorems, TLAPS

\* A thread that tries tunnels has a route.
Routed == \A c \in Conn : state[c] \in {"select", "try", "asked"} => route[c] \in Routes

\* A process that has exited does not run.
Disjoint == alive \cap zombie = {}

\* ssh->start_time tells when the process was started.
SinceAgrees == since = sinceStart

IInv == TypeOK /\ Routed /\ Disjoint /\ NoChildForgotten /\ SinceAgrees

\* The connections' part of TypeOK and the rest of it.
ConType ==
    /\ state \in [Conn -> States]
    /\ route \in [Conn -> Routes \cup {<<>>, <<Direct>>}]
    /\ tunnel \in [Conn -> Tunnel \cup {None}]
    /\ attempt \in [Conn -> 0..MaxAttempts]
    /\ Routed
SshType ==
    /\ pid \in [Ssh -> Pid \cup {None}] /\ since \in [Ssh -> 0..Throttle]
    /\ mark \in [Ssh -> Nat] /\ count \in [Ssh -> Nat]
MainType ==
    /\ stage \in {"poll", "idle", "mark", "check"} /\ errno \in {"EAGAIN", "other"}
    /\ conns \subseteq Conn /\ tuns \subseteq Ssh
KernelType ==
    /\ alive \subseteq Pid /\ zombie \subseteq Pid /\ listening \subseteq alive
    /\ childOf \in [Pid -> Ssh \cup {None}]
    /\ sinceStart \in [Ssh -> 0..Throttle]
    /\ Disjoint

LEMMA Parts ==
    IInv <=> ConType /\ SshType /\ MainType /\ KernelType /\ NoChildForgotten /\ SinceAgrees
BY DEF IInv, TypeOK, Disjoint, ConType, SshType, MainType, KernelType

LEMMA PartsAfter ==
    ConType' /\ SshType' /\ MainType' /\ KernelType' /\ NoChildForgotten' /\ SinceAgrees'
        => IInv'
BY DEF IInv, TypeOK, Disjoint, ConType, SshType, MainType, KernelType

USE DEF conVars, sshVars, mainVars, kernel, vars, OnlyCon

\* The next tunnel of a route, as SetTunnel picks it, is a tunnel.
LEMMA NextTunnel ==
    ASSUME NEW r \in Routes, NEW n \in Nat
    PROVE  r[(n % Len(r)) + 1] \in Tunnel
<1>1. r \in Seq(Tunnel) /\ r # <<>>
  BY RoutesAssumption
<1>2. Len(r) \in Nat \ {0} /\ r \in [1..Len(r) -> Tunnel]
  BY <1>1
<1>3. (n % Len(r)) + 1 \in 1..Len(r)
  BY <1>2
<1> QED
  BY <1>2, <1>3

LEMMA TurnInRoute ==
    ASSUME NEW r \in Routes, NEW n \in Nat
    PROVE  (n % Len(r)) + 1 \in DOMAIN r
<1>1. r \in Seq(Tunnel) /\ r # <<>>
  BY RoutesAssumption
<1>2. Len(r) \in Nat \ {0} /\ DOMAIN r = 1 .. Len(r)
  BY <1>1
<1> QED
  BY <1>2

\* Before the first turn of the main loop.
LEMMA InitEstablishes == Init => IInv
<1> SUFFICES ASSUME Init PROVE IInv
  OBVIOUS
<1> USE BoundsAssumption DEF Init
<1>1. ConType
  BY DEF ConType, Routed, States
<1>2. SshType /\ MainType /\ KernelType
  BY DEF SshType, MainType, KernelType, Disjoint
<1>3. NoChildForgotten /\ SinceAgrees
  BY DEF NoChildForgotten, SinceAgrees
<1> QED
  BY <1>1, <1>2, <1>3, Parts

\* A step that changes only the connections' own fields, and errno.
LEMMA OnlyConPreserves ==
    ASSUME IInv, UNCHANGED <<sshVars, stage, conns, tuns, kernel, sinceStart>>, ConType',
           errno' \in ForkErrors \cup {errno}
    PROVE  IInv'
<1>1. SshType' /\ MainType' /\ KernelType'
  BY Parts, ErrnoAssumption DEF SshType, MainType, KernelType, Disjoint
<1>2. NoChildForgotten' /\ SinceAgrees'
  BY Parts DEF NoChildForgotten, SinceAgrees
<1> QED
  BY <1>1, <1>2, PartsAfter

\* A step of a connection thread, or of the main thread that lists and unlists it.
LEMMA ThreadPreserves ==
    ASSUME IInv, NEW c \in Conn, Thread(c) \/ Accept(c) \/ Cleanup(c)
    PROVE  IInv'
<1> SUFFICES ConType' /\ OnlyCon
  BY OnlyConPreserves
<1> USE Parts DEF ConType, Goes
<1>1. ASSUME NEW r \in Routes, Decide(c, r) PROVE ConType' /\ OnlyCon
  BY <1>1 DEF Decide, Routed, States
<1>2. CASE NoRule(c)
  BY <1>2 DEF NoRule, Routed, States
<1>3. CASE HandshakeFails(c) \/ Accept(c)
  BY <1>3 DEF HandshakeFails, Accept, Routed, States
<1>4. CASE SetTunnel(c)
  <2>1. route[c] \in Routes /\ attempt[c] \in Nat
    BY <1>4, BoundsAssumption DEF SetTunnel, Routed
  <2>2. route[c][(attempt[c] % Len(route[c])) + 1] \in Tunnel
    BY <2>1, NextTunnel
  <2>3. tunnel' \in [Conn -> Tunnel \cup {None}]
    BY <1>4, <2>2 DEF SetTunnel
  <2> QED
    BY <1>4, <2>3 DEF SetTunnel, Routed, States
<1>5. CASE Ask(c) \/ Connect(c) \/ Finish(c)
  BY <1>5 DEF Ask, Connect, Finish, Routed, States
<1>6. CASE Refused(c)
  BY <1>6 DEF Refused, Routed, States
<1>7. CASE Retry(c)
  <2>1. PICK from \in {"try", "asked"} :
            Goes(c, from, IF LastAttempt(c) THEN "gone" ELSE "select")
    BY <1>7 DEF Retry
  <2>2. attempt' \in [Conn -> 0..MaxAttempts]
    BY <1>7, BoundsAssumption DEF Retry, LastAttempt
  <2>3. state' \in [Conn -> States] /\ tunnel' \in [Conn -> Tunnel \cup {None}]
    BY <1>7, <2>1 DEF Retry, States
  <2>4. Routed'
    BY <1>7, <2>1 DEF Retry, Routed
  <2> QED
    BY <1>7, <2>2, <2>3, <2>4 DEF Retry
<1>8. CASE Cleanup(c)
  BY <1>8, BoundsAssumption DEF Cleanup, Routed, States
<1> QED
  BY <1>1, <1>2, <1>3, <1>4, <1>5, <1>6, <1>7, <1>8 DEF Thread

LEMMA LaunchFailurePreserves ==
    ASSUME IInv, NEW c \in Conn, LaunchFails(c)
    PROVE  IInv'
<1>1. ConType'
  BY Parts DEF LaunchFails, ConType, Goes, Routed, States
<1> QED
  BY <1>1, OnlyConPreserves DEF LaunchFails

\* A step of a process, and of the clock.
LEMMA KernelPreserves ==
    ASSUME IInv, Tick \/ \E p \in Pid : ChildListens(p) \/ ChildExits(p)
    PROVE  IInv'
<1> USE Parts, PartsAfter
<1>1. ConType'
  BY DEF ConType, Routed, Tick, ChildListens, ChildExits
<1>2. CASE Tick
  <2>1. Older(since) \in [Ssh -> 0..Throttle] /\ Older(sinceStart) \in [Ssh -> 0..Throttle]
    BY BoundsAssumption DEF Older, SshType, KernelType
  <2> QED
    BY <1>1, <1>2, <2>1
    DEF Tick, SshType, MainType, KernelType, Disjoint, NoChildForgotten, SinceAgrees
<1>3. ASSUME NEW p \in Pid, ChildListens(p) \/ ChildExits(p) PROVE IInv'
  <2>1. SshType' /\ MainType' /\ KernelType' /\ SinceAgrees'
    BY <1>3 DEF ChildListens, ChildExits, SshType, MainType, KernelType, Disjoint, SinceAgrees
  <2>2. alive' \cup zombie' = alive \cup zombie /\ UNCHANGED <<pid, childOf>>
    BY <1>3 DEF ChildListens, ChildExits
  <2>3. NoChildForgotten'
    BY <2>2 DEF NoChildForgotten
  <2> QED
    BY <1>1, <2>1, <2>3
<1> QED
  BY <1>2, <1>3

\* The places of a tunnel in one route are finitely many.
LEMMA PlacesAreFinite ==
    ASSUME NEW r \in Seq(Tunnel), NEW t, NEW P, P = {i \in DOMAIN r : r[i] = t}
    PROVE  IsFiniteSet(P)
<1>1. P \subseteq 1 .. Len(r) /\ 1 \in Int /\ Len(r) \in Int
  OBVIOUS
<1>2. IsFiniteSet(1 .. Len(r))
  BY <1>1, FS_Interval
<1> QED
  BY <1>1, <1>2, FS_Subset

LEMMA RoutesAreSequences ==
    ASSUME NEW r \in Routes \cup {<<>>, <<Direct>>}
    PROVE  r \in Seq(Tunnel)
<1>1. Direct \in Tunnel
  BY DEF Tunnel
<1>2. <<>> \in Seq(Tunnel) /\ <<Direct>> \in Seq(Tunnel)
  BY <1>1
<1> QED
  BY <1>2, RoutesAssumption

LEMMA PlacesOfRoute ==
    ASSUME IInv, NEW c \in Conn, NEW t
    PROVE  /\ IsFiniteSet({c} \X InPlaces(c, t))
           /\ Cardinality({c} \X InPlaces(c, t)) = Cardinality(InPlaces(c, t))
           /\ Cardinality(InPlaces(c, t)) \in Nat
           /\ (InPlaces(c, t) # {} => Cardinality(InPlaces(c, t)) >= 1)
<1>1. route[c] \in Seq(Tunnel)
  BY Parts, RoutesAreSequences DEF ConType
<1>2. IsFiniteSet(InPlaces(c, t))
  BY <1>1, PlacesAreFinite DEF InPlaces
<1>3. Cardinality(InPlaces(c, t)) \in Nat /\ (Cardinality(InPlaces(c, t)) = 0 <=> InPlaces(c, t) = {})
  BY <1>2, FS_CardinalityType, FS_EmptySet
<1>4. IsFiniteSet({c}) /\ Cardinality({c}) = 1
  BY FS_Singleton
<1>5. IsFiniteSet({c} \X InPlaces(c, t))
      /\ Cardinality({c} \X InPlaces(c, t)) = Cardinality({c}) * Cardinality(InPlaces(c, t))
  BY <1>2, <1>4, FS_Product
<1>6. \A n \in Nat : 1 * n = n
  OBVIOUS
<1> QED
  BY <1>3, <1>4, <1>5, <1>6

\* Clearing and setting marks.
LEMMA MarkingPreserves ==
    ASSUME IInv,
           Poll \/ PollFails \/ StartMarking \/ StartChecking \/ EndChecking \/ \E c \in Conn : Mark(c)
    PROVE  IInv'
<1> USE Parts, PartsAfter
<1>1. UNCHANGED <<conVars, pid, since, kernel, sinceStart>>
  BY DEF Poll, PollFails, StartMarking, StartChecking, EndChecking, Mark
<1>2. ConType' /\ KernelType' /\ NoChildForgotten' /\ SinceAgrees'
  BY <1>1 DEF ConType, Routed, KernelType, Disjoint, NoChildForgotten, SinceAgrees
<1>3. MainType'
  BY DEF MainType, Listed, Poll, PollFails, StartMarking, StartChecking, EndChecking, Mark
<1>4. mark' \in [Ssh -> Nat] /\ count' \in [Ssh -> Nat]
  <2>1. CASE Poll \/ PollFails \/ StartMarking \/ StartChecking \/ EndChecking
    BY <2>1 DEF SshType, MarksCleared, Poll, PollFails, StartMarking, StartChecking, EndChecking
  <2>2. ASSUME NEW c \in Conn, Mark(c) PROVE mark' \in [Ssh -> Nat] /\ count' \in [Ssh -> Nat]
    <3>1. \A t \in Ssh : mark[t] \in Nat /\ count[t] \in Nat
      BY DEF SshType
    <3>2. \A t \in Ssh : Wanted(c, t) \in Nat
      BY PlacesOfRoute DEF Wanted
    <3> QED
      BY <2>2, <3>1, <3>2 DEF Mark
  <2> QED
    BY <2>1, <2>2
<1> QED
  BY <1>1, <1>2, <1>3, <1>4 DEF SshType

\* check_ssh_tunnel.  The child that pid[t] names is running or collected when
\* the field is overwritten, so no other child of t is lost with it.
LEMMA VisitPreserves ==
    ASSUME IInv, NEW t \in Ssh,
           LeaveAlone(t) \/ ForkFails(t)
    PROVE  IInv'
<1> USE Parts, PartsAfter DEF Visit, ZombiesAfter
<1>1. ConType' /\ MainType'
  BY ErrnoAssumption DEF ConType, Routed, MainType, LeaveAlone, ForkFails
<1>2. SshType' /\ KernelType' /\ SinceAgrees'
  BY DEF SshType, KernelType, Disjoint, SinceAgrees, LeaveAlone, ForkFails
<1>3. alive' = alive /\ zombie' = zombie \ {pid[t]} /\ childOf' = childOf
  BY DEF LeaveAlone, ForkFails
<1>4. pid' = pid \/ (pid' = [pid EXCEPT ![t] = None] /\ pid[t] \notin alive)
  <2>1. CASE ForkFails(t)
    BY <2>1 DEF ForkFails, ToStart, Running
  <2>2. CASE LeaveAlone(t)
    BY <2>2 DEF LeaveAlone, Collected, KernelType, Disjoint
  <2> QED
    BY <2>1, <2>2
<1>5. NoChildForgotten'
  BY <1>3, <1>4 DEF NoChildForgotten, SshType
<1> QED
  BY <1>1, <1>2, <1>5

LEMMA StartPreserves ==
    ASSUME IInv, NEW t \in Ssh, NEW p \in Pid, Start(t, p)
    PROVE  IInv'
<1> USE Parts, PartsAfter DEF Visit, ZombiesAfter
<1>1. ConType' /\ MainType'
  BY DEF ConType, Routed, MainType, Start
<1>2. since' \in [Ssh -> 0..Throttle] /\ since' = sinceStart'
  BY BoundsAssumption DEF Start, SinceAfterStart, SshType, SinceAgrees
<1>3. SshType' /\ KernelType' /\ SinceAgrees'
  BY <1>2 DEF Start, SshType, KernelType, Disjoint, SinceAgrees
<1>4. pid[t] \notin alive /\ p \notin alive \cup (zombie \ {pid[t]})
  BY DEF Start, ToStart, Running
<1>5. ASSUME NEW q \in alive' \cup zombie'
      PROVE  childOf'[q] \in Ssh /\ pid'[childOf'[q]] = q
  <2>1. CASE q = p
    BY <1>3, <2>1 DEF Start, SshType, KernelType
  <2>2. CASE q # p
    <3>1. q \in alive \cup (zombie \ {pid[t]})
      BY <1>3, <1>5, <2>2 DEF Start
    <3>2. childOf[q] \in Ssh /\ pid[childOf[q]] = q /\ q # pid[t]
      BY <3>1, <1>4 DEF NoChildForgotten
    <3> QED
      BY <1>3, <2>2, <3>2 DEF Start, SshType, KernelType
  <2> QED
    BY <2>1, <2>2
<1>6. NoChildForgotten'
  BY <1>5 DEF NoChildForgotten
<1> QED
  BY <1>1, <1>3, <1>6

-----------------------------------------------------------------------------
LEMMA NextPreserves == IInv /\ [Next]_vars => IInv'
<1> SUFFICES ASSUME IInv, [Next]_vars PROVE IInv'
  OBVIOUS
<1>1. CASE UNCHANGED vars
  BY <1>1, Parts, PartsAfter
  DEF ConType, Routed, SshType, MainType, KernelType, Disjoint, NoChildForgotten, SinceAgrees
<1>2. CASE MainThread
  BY <1>2, MarkingPreserves, VisitPreserves, StartPreserves DEF MainThread
<1>3. CASE Tick \/ \E p \in Pid : ChildListens(p) \/ ChildExits(p)
  BY <1>3, KernelPreserves
<1>4. CASE \E c \in Conn : Thread(c) \/ Accept(c) \/ LaunchFails(c) \/ Cleanup(c)
  BY <1>4, ThreadPreserves, LaunchFailurePreserves
<1> QED
  BY <1>1, <1>2, <1>3, <1>4 DEF Next

LEMMA Invariance == Spec => []IInv
<1>1. Init => IInv
  BY InitEstablishes
<1>2. IInv /\ [Next]_vars => IInv'
  BY NextPreserves
<1> QED
  BY <1>1, <1>2, PTL DEF Spec

\* Types are preserved by every step of ssh_policy.c and of socks_connect.
THEOREM TypeCorrect == Spec => []TypeOK
<1>1. IInv => TypeOK
  BY DEF IInv
<1> QED
  BY <1>1, Invariance, PTL

\* check_ssh_tunnel never overwrites the pid of a child that runs or waits.
THEOREM NoChildIsForgotten == Spec => []NoChildForgotten
<1>1. IInv => NoChildForgotten
  BY DEF IInv
<1> QED
  BY <1>1, Invariance, PTL

\* The rate throttling of check_ssh_tunnel holds for every tunnel.
THEOREM StartsAreThrottled == Spec => Throttled
<1>1. IInv /\ [Next]_vars => [ThrottleStep]_vars
  BY DEF IInv, SinceAgrees, ThrottleStep, Start, ToStart
<1> QED
  BY <1>1, Invariance, PTL DEF Spec, Throttled

-----------------------------------------------------------------------------
\* What a mark stands for: a place of the tunnel in the route of a connection
\* that has been visited and still is on the list.
Evidence(t) == UNION {{c} \X InPlaces(c, t) : c \in Listed \ conns}

OwnTunnel ==
    \A c \in Conn : /\ state[c] \in {"free", "new"} => route[c] = <<>> /\ tunnel[c] = None
                    /\ tunnel[c] # None => tunnel[c] \in Tunnels(route[c])
Backed(t) ==
    /\ IsFiniteSet(Evidence(t)) /\ mark[t] <= Cardinality(Evidence(t))
    /\ count[t] <= mark[t]
Counts == stage \in {"mark", "check"} => \A t \in Ssh : Backed(t)
AllVisited == stage = "check" => conns = {}
Marked == OwnTunnel /\ Counts /\ AllVisited

\* A route that is decided adds evidence, and takes none away.
LEMMA EvidenceGrows ==
    ASSUME IInv, NEW t \in Ssh, Backed(t), UNCHANGED <<mark, count>>, NEW D, IsFiniteSet(D),
           Evidence(t)' = Evidence(t) \cup D
    PROVE  Backed(t)'
<1>1. mark[t] \in Nat
  BY Parts DEF SshType
<1>2. IsFiniteSet(Evidence(t)')
  BY FS_Union DEF Backed
<1>3. Cardinality(Evidence(t)) <= Cardinality(Evidence(t)') /\ Cardinality(Evidence(t)') \in Nat
      /\ Cardinality(Evidence(t)) \in Nat
  BY <1>2, FS_Subset, FS_CardinalityType DEF Backed
<1> QED
  BY <1>1, <1>2, <1>3 DEF Backed

LEMMA OwnTunnelKept == IInv /\ Marked /\ [Next]_vars => OwnTunnel'
<1> SUFFICES ASSUME IInv, Marked, [Next]_vars PROVE OwnTunnel' OBVIOUS
<1> USE DEF OwnTunnel
<1>1. OwnTunnel /\ ConType
  BY Parts DEF Marked
<1>2. CASE UNCHANGED conVars
  BY <1>1, <1>2
<1>3. ASSUME NEW c \in Conn, NoRule(c) \/ \E r \in Routes : Decide(c, r) PROVE OwnTunnel'
  BY <1>1, <1>3 DEF Decide, NoRule, Goes, ConType
<1>4. ASSUME NEW c \in Conn, SetTunnel(c) PROVE OwnTunnel'
  <2>1. route[c] \in Routes /\ attempt[c] \in Nat
    BY <1>1, <1>4, BoundsAssumption DEF SetTunnel, Goes, ConType, Routed
  <2>2. route[c][(attempt[c] % Len(route[c])) + 1] \in Tunnels(route[c])
    <3>1. (attempt[c] % Len(route[c])) + 1 \in DOMAIN route[c]
      BY <2>1, TurnInRoute
    <3> QED
      BY <3>1 DEF Tunnels
  <2> QED
    BY <1>1, <1>4, <2>2 DEF SetTunnel, Goes, ConType
<1>5. ASSUME NEW c \in Conn,
             HandshakeFails(c) \/ Ask(c) \/ Connect(c) \/ Finish(c) \/ Refused(c) \/ Accept(c)
             \/ LaunchFails(c) \/ Cleanup(c)
      PROVE  OwnTunnel'
  BY <1>1, <1>5 DEF HandshakeFails, Ask, Connect, Finish, Refused, Accept, LaunchFails, Cleanup, Goes, ConType
<1>6. ASSUME NEW c \in Conn, Retry(c) PROVE OwnTunnel'
  <2>1. PICK from \in {"try", "asked"} : Goes(c, from, IF LastAttempt(c) THEN "gone" ELSE "select")
    BY <1>6 DEF Retry
  <2> QED
    BY <1>1, <1>6, <2>1 DEF Retry, Goes, ConType
<1>7. CASE MainThread \/ Tick \/ \E p \in Pid : ChildListens(p) \/ ChildExits(p)
  BY <1>2, <1>7 DEF MainThread, Poll, PollFails, StartMarking, Mark, StartChecking, EndChecking, LeaveAlone, ForkFails, Start, Visit,
     Tick, ChildListens, ChildExits
<1> QED
  BY <1>2, <1>3, <1>4, <1>5, <1>6, <1>7 DEF Next, Thread

\* A connection's marks are backed by the connection itself.
LEMMA MarkKeepsCounts ==
    ASSUME IInv, Marked, NEW c \in Conn, Mark(c), NEW t \in Ssh
    PROVE  Backed(t)'
<1> DEFINE D == {c} \X InPlaces(c, t)
           n == Cardinality(InPlaces(c, t))
<1>1. mark[t] \in Nat /\ count[t] \in Nat /\ Backed(t)
  BY Parts DEF Marked, Counts, Mark, SshType
<1>2. /\ mark'[t] = mark[t] + Wanted(c, t)
      /\ count'[t] = (IF route[c] # <<>> /\ tunnel[c] = t THEN count[t] + 1 ELSE count[t])
  BY DEF Mark
<1>3. IsFiniteSet(D) /\ Cardinality(D) = n /\ n \in Nat /\ (InPlaces(c, t) # {} => n >= 1)
  BY PlacesOfRoute
<1>4. tunnel[c] = t => InPlaces(c, t) # {}
  BY NoneAssumption DEF Marked, OwnTunnel, InPlaces, Tunnels, Tunnel
<1>5. Wanted(c, t) \in Nat /\ Wanted(c, t) <= n
      /\ (route[c] # <<>> /\ tunnel[c] = t => Wanted(c, t) = 1)
  BY <1>3, <1>4, NoneAssumption DEF Wanted, Tunnel
<1>6. Evidence(t)' = Evidence(t) \cup D /\ Evidence(t) \cap D = {}
  <2>1. CASE state[c] = "free"
    <3>1. InPlaces(c, t) = {}
      BY <2>1 DEF Marked, OwnTunnel, InPlaces
    <3>2. D = {}
      BY <3>1
    <3>3. (Listed \ conns)' = Listed \ conns
      BY <2>1 DEF Listed, Mark
    <3>4. Evidence(t)' = Evidence(t)
      BY <3>3 DEF Evidence, InPlaces, Mark
    <3> QED
      BY <3>2, <3>4
  <2>2. CASE state[c] # "free"
    <3>1. (Listed \ conns)' = (Listed \ conns) \cup {c} /\ c \notin Listed \ conns
      BY <2>2 DEF Listed, Mark
    <3>2. \A d : InPlaces(d, t)' = InPlaces(d, t)
      BY DEF InPlaces, Mark
    <3> QED
      BY <3>1, <3>2 DEF Evidence
  <2> QED
    BY <2>1, <2>2
<1>7. /\ IsFiniteSet(Evidence(t)') /\ Cardinality(Evidence(t)) \in Nat
      /\ Cardinality(Evidence(t)') = Cardinality(Evidence(t)) + n
  <2>1. IsFiniteSet(Evidence(t)) /\ Cardinality(Evidence(t)) \in Nat
    BY <1>1, FS_CardinalityType DEF Backed
  <2>2. IsFiniteSet(Evidence(t) \cup D)
        /\ Cardinality(Evidence(t) \cup D) = Cardinality(Evidence(t)) + Cardinality(D) - Cardinality(Evidence(t) \cap D)
    BY <1>3, <2>1, FS_Union
  <2>3. Cardinality(Evidence(t) \cap D) = 0
    BY <1>6, FS_EmptySet
  <2> QED
    BY <1>3, <1>6, <2>1, <2>2, <2>3
<1>8. mark'[t] <= Cardinality(Evidence(t)') /\ count'[t] <= mark'[t]
  BY <1>1, <1>2, <1>3, <1>5, <1>7 DEF Backed
<1> QED
  BY <1>7, <1>8 DEF Backed

LEMMA MarkedKept == IInv /\ Marked /\ [Next]_vars => Marked'
<1> SUFFICES ASSUME IInv, Marked, [Next]_vars PROVE Marked' OBVIOUS
<1>1. OwnTunnel'
  BY OwnTunnelKept
<1>2. AllVisited' /\ Counts'
  <2>1. ASSUME NEW c \in Conn, Thread(c) PROVE AllVisited' /\ Counts'
    <3>1. OnlyCon /\ state[c] # "free" /\ state'[c] # "free"
          /\ state' = [state EXCEPT ![c] = state'[c]]
          /\ (route' = route \/ (state[c] = "new" /\ \A d \in Conn \ {c} : route'[d] = route[d]))
      BY <2>1, Parts DEF Thread, Decide, NoRule, HandshakeFails, SetTunnel, Ask, Connect, Refused, Retry, Finish,
         Goes, ConType
    <3>2. (Listed \ conns)' = Listed \ conns
      BY <3>1, Parts DEF Listed, ConType
    <3>3. ASSUME NEW t \in Ssh, Backed(t) PROVE Backed(t)'
      <4> DEFINE D == IF c \in Listed \ conns THEN {c} \X InPlaces(c, t)' ELSE {}
      <4>1. IsFiniteSet(D)
        <5>1. route'[c] \in Routes \cup {<<>>, <<Direct>>}
          BY <2>1, ThreadPreserves DEF IInv, TypeOK
        <5>2. IsFiniteSet(InPlaces(c, t)')
          BY <5>1, RoutesAreSequences, PlacesAreFinite DEF InPlaces
        <5>3. IsFiniteSet({c} \X InPlaces(c, t)')
          BY <5>2, FS_Singleton, FS_Product
        <5> QED
          BY <5>3, FS_EmptySet
      <4>2. Evidence(t)' = Evidence(t) \cup D
        <5>1. \A d \in Conn \ {c} : InPlaces(d, t)' = InPlaces(d, t)
          BY <3>1 DEF InPlaces
        <5>2. InPlaces(c, t) \subseteq InPlaces(c, t)'
          BY <3>1 DEF Marked, OwnTunnel, InPlaces
        <5>3. Listed \subseteq Conn
          BY DEF Listed
        <5> QED
          BY <3>2, <5>1, <5>2, <5>3 DEF Evidence
      <4> QED
        BY <3>1, <3>3, <4>1, <4>2, EvidenceGrows
    <3> QED
      BY <3>1, <3>3 DEF Marked, AllVisited, Counts
  <2>2. CASE UNCHANGED vars \/ Tick \/ \E p \in Pid : ChildListens(p) \/ ChildExits(p)
    <3>1. UNCHANGED <<state, route, conns, stage, mark, count>>
      BY <2>2 DEF Tick, ChildListens, ChildExits
    <3>2. \A t \in Ssh : Backed(t)' <=> Backed(t)
      BY <3>1 DEF Evidence, Listed, InPlaces, Backed
    <3> QED
      BY <3>1, <3>2 DEF Marked, AllVisited, Counts
  <2>3. ASSUME NEW c \in Conn, Accept(c) \/ LaunchFails(c) \/ Cleanup(c) PROVE AllVisited' /\ Counts'
    BY <2>3 DEF Accept, LaunchFails, Cleanup, AllVisited, Counts
  <2>4. CASE StartMarking
    <3>1. \A t \in Ssh : Evidence(t)' = {} /\ mark'[t] = 0 /\ count'[t] = 0
      BY <2>4 DEF Evidence, Listed, StartMarking, MarksCleared
    <3>2. IsFiniteSet({}) /\ Cardinality({}) = 0
      BY FS_EmptySet
    <3>3. \A t \in Ssh : Backed(t)'
      BY <3>1, <3>2 DEF Backed
    <3> QED
      BY <2>4, <3>3 DEF AllVisited, Counts, StartMarking
  <2>5. ASSUME NEW c \in Conn, Mark(c) PROVE AllVisited' /\ Counts'
    BY <2>5, MarkKeepsCounts DEF AllVisited, Counts, Mark
  <2>6. CASE \/ Poll \/ PollFails \/ StartChecking \/ EndChecking
             \/ \E t \in Ssh : LeaveAlone(t) \/ ForkFails(t) \/ \E p \in Pid : Start(t, p)
    <3>1. UNCHANGED <<state, route, conns, mark, count>> /\ (stage' \in {"mark", "check"} => stage \in {"mark", "check"})
          /\ (stage' = "check" => stage = "check" \/ conns = {})
      BY <2>6 DEF Poll, PollFails, StartChecking, EndChecking, LeaveAlone, ForkFails, Start, Visit
    <3>2. \A t \in Ssh : Backed(t)' <=> Backed(t)
      BY <3>1 DEF Evidence, Listed, InPlaces, Backed
    <3> QED
      BY <3>1, <3>2 DEF Marked, AllVisited, Counts
  <2> QED
    BY <2>1, <2>2, <2>3, <2>4, <2>5, <2>6 DEF Next, MainThread
<1> QED
  BY <1>1, <1>2 DEF Marked

\* No tunnel has more marks than places in the routes of listed connections,
\* although these change their tunnels while they are marked (ssh_policy.c:181).
THEOREM MarksAreEvidence == Spec => []NoExcessMarks
<1>1. Init => Marked
  BY DEF Init, Marked, OwnTunnel, Counts, AllVisited
<1>2. IInv /\ Marked => NoExcessMarks
  <2> SUFFICES ASSUME IInv, Marked, stage = "check", NEW t \in tuns
               PROVE  /\ mark[t] <= Cardinality(UNION {{c} \X InPlaces(c, t) : c \in Listed})
                      /\ count[t] <= mark[t]
    BY DEF NoExcessMarks
  <2>1. Evidence(t) = UNION {{c} \X InPlaces(c, t) : c \in Listed} /\ t \in Ssh
    BY Parts DEF Evidence, Marked, AllVisited, MainType
  <2> QED
    BY <2>1 DEF Marked, Counts, Backed
<1> QED
  BY <1>1, <1>2, MarkedKept, Invariance, PTL DEF Spec

-----------------------------------------------------------------------------
\* The default route.  The number of a rule is 1 or more, and 0 is NULL.

CONSTANT MaxWalks
VARIABLES default, made, ruleTunnel, at, conRoute, list, index, walks, crashed

Race == INSTANCE DefaultRoute WITH
            Con <- Conn, None <- 0, tunnel <- ruleTunnel, route <- conRoute, i <- index

RaceTypes ==
    /\ made \in Nat /\ default \in 0 .. made /\ index \in Nat
    /\ ruleTunnel \in [1 .. made -> {"null", "direct"} \X {"null", "garbage"}]
    /\ at \in [Conn -> {"test", "create", "direct", "end", "take", "done"}]
    /\ conRoute \in [Conn -> 0 .. made] /\ list \in 0 .. made
    /\ \A c \in Conn : at[c] \in {"direct", "end", "take", "done"} => default # 0

\* Each half of the published list is there, or is still to be written by a
\* thread that will write it to what is published.
Owed ==
    default # 0 =>
        /\ ruleTunnel[default][1] = "direct" \/ \E c \in Conn : at[c] = "direct"
        /\ ruleTunnel[default][2] = "null" \/ \E c \in Conn : at[c] \in {"direct", "end"}

RaceInv == RaceTypes /\ Owed

LEMMA RaceInit == Race!Init => RaceInv
BY DEF Race!Init, RaceInv, RaceTypes, Owed

LEMMA CreateKeeps == ASSUME RaceInv, NEW c \in Conn, Race!Create(c) PROVE RaceInv'
<1> USE DEF RaceInv
<1>1. PICK t \in Race!NewRule :
         ruleTunnel' = [r \in 1 .. made + 1 |-> IF r = made + 1 THEN t ELSE ruleTunnel[r]]
  BY DEF Race!Create
<1>2. t \in {"null", "direct"} \X {"null", "garbage"}
  BY DEF Race!NewRule
<1>3. /\ made' = made + 1 /\ default' = made + 1 /\ at' = [at EXCEPT ![c] = "direct"]
      /\ UNCHANGED <<conRoute, list, index>>
  BY DEF Race!Create, Race!main
<1>4. ruleTunnel' \in [1 .. made + 1 -> {"null", "direct"} \X {"null", "garbage"}]
  BY <1>1, <1>2 DEF RaceTypes
<1>5. RaceTypes'
  BY <1>3, <1>4 DEF RaceTypes
<1>6. at'[c] = "direct"
  BY <1>3 DEF RaceTypes
<1> QED
  BY <1>5, <1>6 DEF Owed

\* What an assignment to one half of a list leaves of the other.
Pairs == {"null", "direct"} \X {"null", "garbage"}

LEMMA HalfIsSet ==
    ASSUME NEW p \in Pairs
    PROVE  /\ [p EXCEPT ![1] = "direct"] = <<"direct", p[2]>> /\ <<"direct", p[2]>> \in Pairs
           /\ [p EXCEPT ![2] = "null"] = <<p[1], "null">> /\ <<p[1], "null">> \in Pairs
<1>1. PICK x \in {"null", "direct"}, y \in {"null", "garbage"} : p = <<x, y>>
  BY DEF Pairs
<1>2. [<<x, y>> EXCEPT ![1] = "direct"] = <<"direct", y>>
  OBVIOUS
<1>3. [<<x, y>> EXCEPT ![2] = "null"] = <<x, "null">>
  OBVIOUS
<1>4. p[1] = x /\ p[2] = y
  BY <1>1
<1>5. <<"direct", y>> \in Pairs /\ <<x, "null">> \in Pairs
  BY DEF Pairs
<1> QED
  BY <1>1, <1>2, <1>3, <1>4, <1>5

LEMMA SetDirectKeeps == ASSUME RaceInv, NEW c \in Conn, Race!SetDirect(c) PROVE RaceInv'
<1> USE DEF RaceInv
<1>1. /\ at[c] = "direct" /\ default \in 1 .. made
      /\ ruleTunnel' = [ruleTunnel EXCEPT ![default][1] = "direct"] /\ at' = [at EXCEPT ![c] = "end"]
      /\ UNCHANGED <<default, made, conRoute, list, index>>
  BY DEF Race!SetDirect, Race!main, RaceTypes
<1>2. /\ ruleTunnel[default] \in {"null", "direct"} \X {"null", "garbage"}
      /\ ruleTunnel' = [ruleTunnel EXCEPT ![default] = <<"direct", ruleTunnel[default][2]>>]
  <2>1. ruleTunnel[default] \in Pairs
    BY <1>1 DEF RaceTypes, Pairs
  <2>2. [ruleTunnel[default] EXCEPT ![1] = "direct"] = <<"direct", ruleTunnel[default][2]>>
    BY <2>1, HalfIsSet
  <2>3. ruleTunnel' = [ruleTunnel EXCEPT ![default] = [ruleTunnel[default] EXCEPT ![1] = "direct"]]
    BY <1>1
  <2> QED
    BY <2>1, <2>2, <2>3 DEF Pairs
<1>3. ruleTunnel' \in [1 .. made -> {"null", "direct"} \X {"null", "garbage"}]
  <2>1. <<"direct", ruleTunnel[default][2]>> \in Pairs
    BY <1>2, HalfIsSet DEF Pairs
  <2>2. ruleTunnel \in [1 .. made -> Pairs]
    BY DEF RaceTypes, Pairs
  <2> QED
    BY <1>2, <2>1, <2>2 DEF Pairs
<1>4. ruleTunnel'[default] = <<"direct", ruleTunnel[default][2]>>
  BY <1>1, <1>2 DEF RaceTypes
<1>5. RaceTypes'
  BY <1>1, <1>3 DEF RaceTypes
<1>6. at'[c] = "end"
  BY <1>1 DEF RaceTypes
<1> QED
  BY <1>1, <1>4, <1>5, <1>6 DEF Owed

LEMMA SetEndKeeps == ASSUME RaceInv, NEW c \in Conn, Race!SetEnd(c) PROVE RaceInv'
<1> USE DEF RaceInv
<1>1. /\ at[c] = "end" /\ default \in 1 .. made
      /\ ruleTunnel' = [ruleTunnel EXCEPT ![default][2] = "null"] /\ at' = [at EXCEPT ![c] = "take"]
      /\ UNCHANGED <<default, made, conRoute, list, index>>
  BY DEF Race!SetEnd, Race!main, RaceTypes
<1>2. /\ ruleTunnel[default] \in {"null", "direct"} \X {"null", "garbage"}
      /\ ruleTunnel' = [ruleTunnel EXCEPT ![default] = <<ruleTunnel[default][1], "null">>]
  <2>1. ruleTunnel[default] \in Pairs
    BY <1>1 DEF RaceTypes, Pairs
  <2>2. [ruleTunnel[default] EXCEPT ![2] = "null"] = <<ruleTunnel[default][1], "null">>
    BY <2>1, HalfIsSet
  <2>3. ruleTunnel' = [ruleTunnel EXCEPT ![default] = [ruleTunnel[default] EXCEPT ![2] = "null"]]
    BY <1>1
  <2> QED
    BY <2>1, <2>2, <2>3 DEF Pairs
<1>3. ruleTunnel' \in [1 .. made -> {"null", "direct"} \X {"null", "garbage"}]
  <2>1. <<ruleTunnel[default][1], "null">> \in Pairs
    BY <1>2, HalfIsSet DEF Pairs
  <2>2. ruleTunnel \in [1 .. made -> Pairs]
    BY DEF RaceTypes, Pairs
  <2> QED
    BY <1>2, <2>1, <2>2 DEF Pairs
<1>4. ruleTunnel'[default] = <<ruleTunnel[default][1], "null">>
  BY <1>1, <1>2 DEF RaceTypes
<1>5. RaceTypes'
  BY <1>1, <1>3 DEF RaceTypes
<1>6. \A d \in Conn : at[d] = "direct" => at'[d] = "direct"
  BY <1>1 DEF RaceTypes
<1> QED
  BY <1>1, <1>4, <1>5, <1>6 DEF Owed

LEMMA RaceStep == RaceInv /\ [Race!Next]_(Race!vars) => RaceInv'
<1> SUFFICES ASSUME RaceInv, [Race!Next]_(Race!vars) PROVE RaceInv'
  OBVIOUS
<1> USE DEF RaceInv
<1>1. ASSUME NEW c \in Conn, Race!Test(c) PROVE RaceInv'
  <2>1. UNCHANGED <<default, made, ruleTunnel, conRoute, list, index>> /\ at[c] = "test"
        /\ at' = [at EXCEPT ![c] = IF default = 0 THEN "create" ELSE "take"]
    BY <1>1 DEF Race!Test, Race!main
  <2>2. RaceTypes'
    BY <2>1 DEF RaceTypes
  <2>3. \A d \in Conn : at[d] \in {"direct", "end"} => at'[d] = at[d]
    BY <2>1 DEF RaceTypes
  <2> QED
    BY <2>1, <2>2, <2>3 DEF Owed
<1>2. ASSUME NEW c \in Conn, Race!Take(c) PROVE RaceInv'
  <2>1. UNCHANGED <<default, made, ruleTunnel, list, index>> /\ at[c] = "take"
        /\ at' = [at EXCEPT ![c] = "done"] /\ conRoute' = [conRoute EXCEPT ![c] = default]
    BY <1>2 DEF Race!Take, Race!main
  <2>2. RaceTypes'
    BY <2>1 DEF RaceTypes
  <2>3. \A d \in Conn : at[d] \in {"direct", "end"} => at'[d] = at[d]
    BY <2>1 DEF RaceTypes
  <2> QED
    BY <2>1, <2>2, <2>3 DEF Owed
<1>3. CASE Race!Step \/ (\E c \in Conn : Race!StartWalk(c)) \/ UNCHANGED Race!vars
  <2>1. UNCHANGED <<default, made, ruleTunnel, at, conRoute>>
    BY <1>3 DEF Race!Step, Race!StartWalk, Race!vars
  <2>2. list' \in 0 .. made /\ index' \in Nat
    BY <1>3 DEF Race!Step, Race!StartWalk, Race!vars, RaceTypes
  <2> QED
    BY <2>1, <2>2 DEF RaceTypes, Owed
<1> QED
  BY <1>1, <1>2, <1>3, CreateKeeps, SetDirectKeeps, SetEndKeeps DEF Race!Next, Race!Thread

(* route_rules_engine.c:212-217: however many threads create the default   *)
(* route at once, and whosever rule they fill in, what stays published has *)
(* both its entries as soon as nobody is between publishing and filling    *)
(* in.                                                                     *)
THEOREM DefaultRouteIsCompleted == Race!Spec => []Race!PublishedIsComplete
<1>1. RaceInv => Race!PublishedIsComplete
  <2> SUFFICES ASSUME RaceInv, default # 0, \A c \in Conn : at[c] \notin {"direct", "end"}
               PROVE  ruleTunnel[default] = <<"direct", "null">>
    BY DEF Race!PublishedIsComplete, Race!Complete
  <2>1. ruleTunnel[default] \in {"null", "direct"} \X {"null", "garbage"}
    BY DEF RaceInv, RaceTypes
  <2> QED
    BY <2>1 DEF RaceInv, Owed
<1> QED
  BY <1>1, RaceInit, RaceStep, PTL DEF Race!Spec

\* With one thread at a time, nobody takes a route that is not complete.
TakenIsComplete ==
    /\ (\E c \in Conn : at[c] \in {"create", "direct", "end"}) \/ default = 0 =>
           list = 0 /\ \A c \in Conn : conRoute[c] = 0
    /\ \A c \in Conn : at[c] = "create" => default = 0
    /\ \A c \in Conn : conRoute[c] \in {0, default}
    /\ list \in {0, default} /\ (list # 0 => index \in {1, 2}) /\ ~crashed

LEMMA SerialStep ==
    ASSUME RaceInv, TakenIsComplete, Race!OneAtATime, Race!OneAtATime', [Race!Next]_(Race!vars)
    PROVE  TakenIsComplete'
<1> USE DEF TakenIsComplete
<1>0. RaceTypes
  BY DEF RaceInv
<1>1. ASSUME NEW c \in Conn, Race!Test(c) PROVE TakenIsComplete'
  <2>1. UNCHANGED <<default, made, ruleTunnel, conRoute, list, index, crashed>> /\ at[c] = "test"
        /\ at' = [at EXCEPT ![c] = IF default = 0 THEN "create" ELSE "take"]
        /\ at'[c] = (IF default = 0 THEN "create" ELSE "take")
    BY <1>0, <1>1 DEF Race!Test, Race!main, RaceTypes, Race!Next, Race!vars
  <2>2. \A d \in Conn \ {c} : at'[d] = at[d] /\ at'[d] \notin {"create", "direct", "end", "take"}
    BY <1>0, <2>1 DEF Race!OneAtATime, RaceTypes
  <2> QED
    BY <2>1, <2>2
<1>2. ASSUME NEW c \in Conn, Race!Create(c) PROVE TakenIsComplete'
  <2>1. UNCHANGED <<conRoute, list, index, crashed>> /\ at[c] = "create" /\ default = 0
        /\ at' = [at EXCEPT ![c] = "direct"]
    BY <1>2 DEF Race!Create, Race!main, Race!Next
  <2>2. \A d \in Conn : at'[d] # "create"
    BY <1>0, <2>1 DEF Race!OneAtATime, RaceTypes
  <2> QED
    BY <2>1, <2>2
<1>3. ASSUME NEW c \in Conn, Race!SetDirect(c) \/ Race!SetEnd(c) PROVE TakenIsComplete'
  <2>1. UNCHANGED <<default, conRoute, list, index, crashed>> /\ at[c] \in {"direct", "end"}
        /\ at' \in {[at EXCEPT ![c] = "end"], [at EXCEPT ![c] = "take"]}
    BY <1>3 DEF Race!SetDirect, Race!SetEnd, Race!main
  <2>2. default # 0 /\ \A d \in Conn : at'[d] # "create"
    BY <1>0, <2>1 DEF Race!OneAtATime, RaceTypes
  <2> QED
    BY <2>1, <2>2
<1>4. ASSUME NEW c \in Conn, Race!Take(c) PROVE TakenIsComplete'
  <2>1. UNCHANGED <<default, list, index, crashed>> /\ at[c] = "take"
        /\ at' = [at EXCEPT ![c] = "done"] /\ conRoute' = [conRoute EXCEPT ![c] = default]
    BY <1>4 DEF Race!Take, Race!main
  <2>2. default # 0 /\ \A d \in Conn : at'[d] \notin {"create", "direct", "end"}
    BY <1>0, <2>1 DEF Race!OneAtATime, RaceTypes
  <2> QED
    BY <1>0, <2>1, <2>2 DEF RaceTypes
<1>5. ASSUME NEW c \in Conn, Race!StartWalk(c) PROVE TakenIsComplete'
  BY <1>5 DEF Race!StartWalk
<1>6. CASE Race!Step
  <2>1. list # 0 /\ list = default /\ index \in {1, 2}
        /\ \A c \in Conn : at[c] \notin {"direct", "end"}
    BY <1>6 DEF Race!Step
  <2>2. ruleTunnel[list] = <<"direct", "null">>
    <3>1. ruleTunnel[default] \in {"null", "direct"} \X {"null", "garbage"}
      BY <1>0, <2>1 DEF RaceTypes
    <3> QED
      BY <2>1, <3>1 DEF RaceInv, Owed
  <2>3. /\ UNCHANGED <<default, at, conRoute>> /\ ~crashed'
        /\ list' = 0 \/ (index # 2 /\ index' = index + 1 /\ list' = list)
    <3>1. ruleTunnel[list][index] # "garbage" /\ (index = 2 => ruleTunnel[list][index] = "null")
      <4>1. <<"direct", "null">>[1] = "direct" /\ <<"direct", "null">>[2] = "null"
        OBVIOUS
      <4>2. CASE index = 1
        BY <2>2, <4>1, <4>2
      <4>3. CASE index = 2
        BY <2>2, <4>1, <4>3
      <4> QED
        BY <2>1, <4>2, <4>3
    <3> QED
      BY <1>6, <2>1, <3>1 DEF Race!Step
  <2> QED
    BY <2>1, <2>3
<1>7. CASE UNCHANGED Race!vars
  BY <1>7 DEF Race!vars
<1> QED
  BY <1>1, <1>2, <1>3, <1>4, <1>5, <1>6, <1>7 DEF Race!Next, Race!Thread

(* ssh_policy.c:200, "all of this route's tunnels": if threads decided on  *)
(* their rules one at a time, which is what the missing lock would do, the *)
(* main thread would walk tunnels only, whenever it comes by.              *)
THEOREM SerialDecisionsAreSafe == Race!Spec /\ []Race!OneAtATime => []Race!WalksTunnelsOnly
<1>1. Race!Init => TakenIsComplete
  BY DEF Race!Init, TakenIsComplete
<1>2. TakenIsComplete => Race!WalksTunnelsOnly
  BY DEF TakenIsComplete, Race!WalksTunnelsOnly
<1> QED
  BY <1>1, <1>2, RaceInit, RaceStep, SerialStep, PTL DEF Race!Spec
=============================================================================

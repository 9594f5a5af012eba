---------------------------- MODULE DefaultRoute ----------------------------
(***************************************************************************)
(* The route of the connections no rule matches: default_direct, one       *)
(* route_rule that the first thread to need it allocates and publishes     *)
(* before it fills in its list of tunnels (route_rules_engine.c:212-217),  *)
(* without a lock, while other threads do the same and the main thread     *)
(* walks the lists of the routes in use (ssh_policy.c:187-204).            *)
(*                                                                         *)
(* new_route_rule sets tunnel[0] only; what follows it in fresh memory may *)
(* be anything.  A list ends at its first NULL.                            *)
(***************************************************************************)
EXTENDS Naturals

CONSTANTS
    Con,       \* the connections no rule matches, each with its thread
    MaxWalks,  \* walks of the main thread (bound of the model)
    None

VARIABLES
    default,   \* default_direct: None, or the number of an allocated rule
    made,      \* rules allocated
    tunnel,    \* [rule -> <<tunnel[0], tunnel[1]>>]
    at,        \* [Con -> where its thread is in decide_applicable_rule]
    route,     \* [Con -> con->route]
    list, i,   \* the main thread: the rule whose list it walks, and its index
    walks, crashed

vars == <<default, made, tunnel, at, route, list, i, walks, crashed>>
main == <<list, i, walks, crashed>>

Init ==
    /\ default = None /\ made = 0 /\ tunnel = <<>>
    /\ at = [c \in Con |-> "test"] /\ route = [c \in Con |-> None]
    /\ list = None /\ i = 0 /\ walks = 0 /\ crashed = FALSE

-----------------------------------------------------------------------------
\* A connection's thread.  default_direct is read again by every statement.

Test(c) ==
    /\ at[c] = "test"
    /\ at' = [at EXCEPT ![c] = IF default = None THEN "create" ELSE "take"]
    /\ UNCHANGED <<default, made, tunnel, route, main>>

NewRule == {<<"null", x>> : x \in {"null", "garbage"}}

Create(c) ==
    /\ at[c] = "create"
    /\ made' = made + 1 /\ default' = made + 1
    /\ \E t \in NewRule :
           tunnel' = [r \in 1 .. made + 1 |-> IF r = made + 1 THEN t ELSE tunnel[r]]
    /\ at' = [at EXCEPT ![c] = "direct"]
    /\ UNCHANGED <<route, main>>

SetDirect(c) ==
    /\ at[c] = "direct"
    /\ tunnel' = [tunnel EXCEPT ![default][1] = "direct"]
    /\ at' = [at EXCEPT ![c] = "end"]
    /\ UNCHANGED <<default, made, route, main>>

SetEnd(c) ==
    /\ at[c] = "end"
    /\ tunnel' = [tunnel EXCEPT ![default][2] = "null"]
    /\ at' = [at EXCEPT ![c] = "take"]
    /\ UNCHANGED <<default, made, route, main>>

Take(c) ==
    /\ at[c] = "take"
    /\ route' = [route EXCEPT ![c] = default]
    /\ at' = [at EXCEPT ![c] = "done"]
    /\ UNCHANGED <<default, made, tunnel, main>>

Thread(c) == Test(c) \/ Create(c) \/ SetDirect(c) \/ SetEnd(c) \/ Take(c)

-----------------------------------------------------------------------------
\* The main thread: check_ssh_tunnels, for a connection without a tunnel.

StartWalk(c) ==
    /\ list = None /\ walks < MaxWalks /\ route[c] # None
    /\ list' = route[c] /\ i' = 1 /\ walks' = walks + 1
    /\ UNCHANGED <<default, made, tunnel, at, route, crashed>>

\* list[i]->mark++ of a pointer that was never set.  The list has its end
\* behind the garbage, or not: the walk is followed no further.
Step ==
    /\ list # None
    /\ crashed' = (tunnel[list][i] = "garbage")
    /\ IF i = 2 \/ tunnel[list][i] = "null"
       THEN list' = None /\ i' = 0
       ELSE i' = i + 1 /\ UNCHANGED list
    /\ UNCHANGED <<default, made, tunnel, at, route, walks>>

Next == ~crashed /\ ((\E c \in Con : Thread(c) \/ StartWalk(c)) \/ Step)

Spec == Init /\ [][Next]_vars

-----------------------------------------------------------------------------
(* ssh_policy.c:200: "Let's look at all of this route's tunnels and mark   *)
(* them as required" -- the walk reads the route's tunnels and no more.    *)
WalksTunnelsOnly == ~crashed

(***************************************************************************)
(* route_rules_engine.c:212-217: what is published ends up complete, also  *)
(* when several threads have published a rule and filled in each other's.  *)
(***************************************************************************)
Complete == <<"direct", "null">>
PublishedIsComplete ==
    default # None /\ (\A c \in Con : at[c] \notin {"direct", "end"}) => tunnel[default] = Complete

\* What a lock around decide_applicable_rule would give.
OneAtATime ==
    \A c, d \in Con : {at[c], at[d]} \subseteq {"create", "direct", "end", "take"} => c = d
=============================================================================

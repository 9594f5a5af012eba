--------------------------- MODULE ConnectionPool ---------------------------
(***************************************************************************)
(* What the connection list of a proxy instance promises to the rest of    *)
(* the program: a set of connection objects.  A connection joins it when   *)
(* it is accepted, becomes reclaimable once its thread has exited and the  *)
(* loiter time is over, and leaves it only then -- and eventually.         *)
(* How the list is linked and walked is the subject of ConnectionList, how *)
(* threads come to an end that of MainLoop.  Both implement this           *)
(* specification, and meet in it.                                          *)
(***************************************************************************)

CONSTANT Conn          \* connection objects, by address

VARIABLES
    members,           \* the connections of the pool
    reclaimable        \* the members whose thread is gone and whose loiter time is over

vars == <<members, reclaimable>>

TypeOK == reclaimable \subseteq members /\ members \subseteq Conn

Init == members = {} /\ reclaimable = {}

\* A connection without a thread, as none could be started, is dead at once.
Join(c) ==
    /\ c \notin members
    /\ members' = members \cup {c}
    /\ reclaimable' \in {reclaimable, reclaimable \cup {c}}

\* A second may pass for several connections.
Expire ==
    /\ reclaimable \subseteq reclaimable' /\ reclaimable' \subseteq members
    /\ UNCHANGED members

Reclaim(c) ==
    /\ c \in reclaimable
    /\ members' = members \ {c}
    /\ reclaimable' = reclaimable \ {c}

Next == Expire \/ \E c \in Conn : Join(c) \/ Reclaim(c)

Safety == Init /\ [][Next]_vars
Spec == Safety /\ \A c \in Conn : WF_vars(Reclaim(c))
=============================================================================

--------------------------- MODULE ConnectionList ---------------------------
(***************************************************************************)
(* The doubly linked list of client connections of one proxy instance      *)
(* (client_connection.c) and the loop that reclaims the dead ones          *)
(* (cleanup_connections in server.c), at the level of the pointers.        *)
(*                                                                         *)
(* The main thread is the only one that links, walks and frees.  The       *)
(* connection threads act at any moment between two of its steps: a thread *)
(* sets thread_has_exited and, four seconds later, its connection is       *)
(* reclaimable.  "aged" is the set of connections for which                *)
(*     thread_has_exited && time(NULL) - end_time > LOITER                 *)
(* holds at this moment, "due" those for which it held when the loop read  *)
(* the clock: cleanup_connections reads it once, before its first          *)
(* iteration, and an exit after that has an end_time that is too recent.   *)
(***************************************************************************)
EXTENDS Integers

CONSTANTS
    Conn,          \* addresses malloc may return for a client_connection
    NULL,          \* the null pointer
    MaxId          \* bound: connections accepted in one behaviour

ASSUME NullAssumption == NULL \notin Conn
ASSUME MaxIdAssumption == MaxId \in Nat

VARIABLES
    heap,          \* the objects allocated and not freed
    next, prev,    \* the link fields
    id,            \* the id field, from id_pool
    id_pool,       \* the last id handed out
    head,          \* proxy->client_connection_list
    aged,          \* the connections that are reclaimable now
    pc,            \* "idle", or "sweep" inside cleanup_connections
    due,           \* the connections reclaimable at the loop's "now"
    pool, cur, nxt \* the loop's parameter and its locals cur and next

links == <<heap, next, prev, id, id_pool>>
sweepVars == <<pc, due, pool, cur, nxt>>
vars == <<links, head, aged, sweepVars>>

Ref == Conn \cup {NULL}

Init ==
    /\ heap = {} /\ aged = {} /\ due = {}
    /\ next = [c \in Conn |-> NULL] /\ prev = [c \in Conn |-> NULL]
    /\ id = [c \in Conn |-> 0] /\ id_pool = 0
    /\ head = NULL /\ pool = NULL /\ cur = NULL /\ nxt = NULL
    /\ pc = "idle"

\* insert_client_connection: the back link of the old head, if there is one.
LinkUnguarded(c) ==     \* mutant: head->prev is written without a test of head
    [x \in Conn \cup {head} |-> IF x = c THEN NULL
                              ELSE IF x = head THEN c ELSE prev[x]]
LinkedPrev(c) ==
    [x \in Conn |-> IF x = c THEN NULL
                    ELSE IF x = head THEN c ELSE prev[x]]

(***************************************************************************)
(* accept_connection followed by insert_client_connection: a fresh object  *)
(* becomes the head of the list.                                           *)
(***************************************************************************)
Insert(c) ==
    /\ pc = "idle" /\ c \notin heap /\ id_pool < MaxId
    /\ heap' = heap \cup {c}
    /\ id_pool' = id_pool + 1
    /\ id' = [id EXCEPT ![c] = id_pool + 1]
    /\ next' = [next EXCEPT ![c] = head]
    /\ prev' = LinkedPrev(c)
    /\ head' = c
    /\ UNCHANGED <<aged, sweepVars>>

(***************************************************************************)
(* A connection thread has exited and its loiter time is over, or          *)
(* launch_thread could not start it (thread_has_exited = 1, end_time = 0). *)
(***************************************************************************)
Age(c) ==
    /\ c \in heap \ aged
    /\ aged' = aged \cup {c}
    /\ UNCHANGED <<links, head, sweepVars>>

StartSweep ==
    /\ pc = "idle"
    /\ pc' = "sweep" /\ due' = aged
    /\ pool' = head /\ cur' = head
    /\ nxt' = IF head = NULL THEN NULL ELSE next[head]
    /\ UNCHANGED <<links, head, aged>>

\* remove_client_connection: the link fields after c is unlinked.
UnlinkedNext(c) ==
    [x \in Conn |-> IF x = c THEN NULL
                    ELSE IF x = prev[c] THEN next[c] ELSE next[x]]
PrevForgotten(c) ==     \* mutant: the successor keeps its back link
    [prev EXCEPT ![c] = NULL]
UnlinkedPrev(c) ==
    [x \in Conn |-> IF x = c THEN NULL
                    ELSE IF x = next[c] THEN prev[c] ELSE prev[x]]

PoolAfterFree == IF pool = cur THEN nxt ELSE pool

FreeCur ==
    /\ pool' = PoolAfterFree
    /\ next' = UnlinkedNext(cur) /\ prev' = UnlinkedPrev(cur)
    /\ heap' = heap \ {cur} /\ aged' = aged \ {cur}
    /\ UNCHANGED <<id, id_pool>>

KeepCur == UNCHANGED <<pool, links, aged>>

NoLoiter == TRUE        \* mutant: every connection is freed at once
CurIsDue == cur \in due

ReadAfterUnlink ==      \* mutant: cur->next is read when cur is gone from the list
    IF CurIsDue THEN NULL ELSE nxt
NextCur == nxt

\* One iteration of the loop; its last lines step to the saved next.
Visit ==
    /\ pc = "sweep" /\ cur # NULL
    /\ IF CurIsDue THEN FreeCur ELSE KeepCur
    /\ cur' = NextCur
    /\ nxt' = IF nxt = NULL THEN nxt ELSE next'[nxt]
    /\ UNCHANGED <<head, pc, due>>

EndSweep ==
    /\ pc = "sweep" /\ cur = NULL
    /\ head' = pool /\ pc' = "idle"
    /\ UNCHANGED <<links, aged, due, pool, cur, nxt>>

MainThread == StartSweep \/ Visit \/ EndSweep
Next == MainThread \/ \E c \in Conn : Insert(c) \/ Age(c)

Spec == Init /\ [][Next]_vars

\* The main loop wakes up at least every 1200 ms and never stops sweeping.
FairSpec == Spec /\ WF_vars(MainThread)

-----------------------------------------------------------------------------
TypeOK ==
    /\ heap \subseteq Conn /\ aged \subseteq heap /\ due \subseteq Conn
    /\ next \in [Conn -> Ref] /\ prev \in [Conn -> Ref]
    /\ id_pool \in 0..MaxId /\ id \in [Conn -> 0..MaxId]
    /\ head \in Ref /\ pool \in Ref /\ cur \in Ref /\ nxt \in Ref
    /\ pc \in {"idle", "sweep"}

\* The pointer that leads to the first object: the loop keeps it in "pool"
\* and the list head is stale until cleanup_connections has returned.
Top == IF pc = "sweep" THEN pool ELSE head

\* Ids are unique, and the newest object is the one Top points to.
UniqueIds ==
    /\ \A c \in heap : id[c] \in 1..id_pool
    /\ \A c, d \in heap : id[c] = id[d] => c = d

TopIsNewest ==
    IF heap = {} THEN Top = NULL
    ELSE Top \in heap /\ \A c \in heap : id[c] <= id[Top]

\* next leads to the object with the next smaller id, and to NULL only from
\* the oldest: following it from Top meets every object once, newest first.
NextIsOlder ==
    \A c \in heap :
        IF next[c] = NULL THEN \A d \in heap : id[c] <= id[d]
        ELSE /\ next[c] \in heap /\ id[next[c]] < id[c]
             /\ \A d \in heap : id[d] < id[c] => id[d] <= id[next[c]]

PrevInvertsNext ==
    \A c \in heap :
        /\ next[c] # NULL => prev[next[c]] = c
        /\ prev[c] # NULL => prev[c] \in heap /\ next[prev[c]] = c
        /\ prev[c] = NULL <=> c = Top

(***************************************************************************)
(* The links describe the whole heap: every allocated connection is on the *)
(* list exactly once, newest first, in both directions.  A connection that *)
(* insert_client_connection, remove_client_connection or the head update   *)
(* of cleanup_connections lost would never be reclaimed and would vanish   *)
(* from the tunnels' mark phase and from the status page.                  *)
(***************************************************************************)
ListIsHeap == TopIsNewest /\ NextIsOlder /\ PrevInvertsNext

(***************************************************************************)
(* No freed object is reached: the loop's cur and saved next, and the      *)
(* pointer the list will start from, are null or allocated.                *)
(***************************************************************************)
NoDangling == {cur, nxt, Top} \subseteq heap \cup {NULL}

(***************************************************************************)
(* A sweep skips nobody: when cleanup_connections returns, no connection   *)
(* that was reclaimable when it read the clock is still allocated.         *)
(***************************************************************************)
SweptAll == EndSweep => heap \cap due = {}
SweepIsComplete == [][SweptAll]_vars

\* The loop's locals: saved next is cur's, and what is due lies ahead.
SweepInv ==
    pc = "sweep" =>
        /\ cur # NULL => cur \in heap /\ nxt = next[cur]
        /\ cur = NULL => nxt = NULL
        /\ \A c \in heap \cap due : cur # NULL /\ id[c] <= id[cur]

\* What was due at the loop's "now" stays so until it is freed.
DueIsAged == pc = "sweep" => heap \cap due \subseteq aged

IInv == TypeOK /\ UniqueIds /\ ListIsHeap /\ SweepInv /\ DueIsAged
             /\ (pc = "idle" => cur = NULL /\ nxt = NULL)

(***************************************************************************)
(* The list implements the set of connections that ConnectionPool          *)
(* describes: only reclaimable connections are freed, and all are.         *)
(***************************************************************************)
Pool == INSTANCE ConnectionPool WITH members <- heap, reclaimable <- aged
ImplementsPool == Pool!Spec
=============================================================================

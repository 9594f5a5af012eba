------------------------ MODULE ConnectionListProofs ------------------------
(***************************************************************************)
(* Proofs about ConnectionList, for every set of addresses and every       *)
(* number of accepted connections.                                         *)
(*                                                                         *)
(* The argument never speaks of paths through the list.  Ids are handed    *)
(* out in increasing order and the newest object goes to the front, so the *)
(* list is the heap sorted by id: "next[c] is the object with the largest  *)
(* id below c's" is a first-order statement about single links, and it is  *)
(* inductive together with its mirror image for prev.  What is due lies    *)
(* ahead of the loop: its id is at most cur's.                             *)
(***************************************************************************)
EXTENDS ConnectionList, TLAPS

\* The initial state: an empty list and an idle main loop.
LEMMA InitEstablishes == Init => IInv
<1> SUFFICES ASSUME Init PROVE IInv
  OBVIOUS
<1> USE DEF Init
<1>1. TypeOK
  BY MaxIdAssumption DEF TypeOK, Ref
<1>2. UniqueIds /\ SweepInv /\ DueIsAged /\ (pc = "idle" => cur = NULL /\ nxt = NULL)
  BY DEF UniqueIds, SweepInv, DueIsAged
<1>3. ListIsHeap
  BY DEF ListIsHeap, TopIsNewest, NextIsOlder, PrevInvertsNext, Top
<1>4. QED
  BY <1>1, <1>2, <1>3 DEF IInv

\* accept_connection and insert_client_connection put a fresh object, with
\* the largest id of all, in front of the list.
LEMMA InsertPreserves ==
  ASSUME NEW c \in Conn, IInv, Insert(c)
  PROVE  IInv'
<1> USE NullAssumption, MaxIdAssumption DEF IInv, Insert, LinkedPrev, Ref
<1>1. TypeOK'
  BY DEF TypeOK, sweepVars
<1>2. UniqueIds'
  BY DEF TypeOK, UniqueIds
<1>3. Top' = c /\ Top = head /\ pc' = "idle"
  BY DEF Top, sweepVars
<1>4. \A d \in heap : id'[d] = id[d] /\ id[d] < id'[c] /\ next'[d] = next[d]
  BY DEF TypeOK, UniqueIds
<1>5. TopIsNewest'
  BY <1>3, <1>4 DEF TopIsNewest, TypeOK
<1>6. NextIsOlder'
  <2> SUFFICES ASSUME NEW d \in heap'
               PROVE  IF next'[d] = NULL THEN \A e \in heap' : id'[d] <= id'[e]
                      ELSE /\ next'[d] \in heap' /\ id'[next'[d]] < id'[d]
                           /\ \A e \in heap' : id'[e] < id'[d] => id'[e] <= id'[next'[d]]
    BY DEF NextIsOlder
  <2>1. CASE d = c
    BY <2>1, <1>3, <1>4 DEF ListIsHeap, TopIsNewest, TypeOK
  <2>2. CASE d # c
    BY <2>2, <1>4 DEF ListIsHeap, NextIsOlder, TypeOK, UniqueIds
  <2>3. QED
    BY <2>1, <2>2
<1>7. PrevInvertsNext'
  <2>1. next'[c] = head /\ prev'[c] = NULL
    BY DEF TypeOK
  <2>2. \A d \in heap : prev'[d] = IF d = head THEN c ELSE prev[d]
    BY DEF TypeOK
  <2>3. head # NULL => head \in heap
    BY <1>3 DEF ListIsHeap, TopIsNewest
  <2>4. \A d \in heap : next[d] # NULL => next[d] \in heap /\ next[d] # head
    BY <1>3 DEF ListIsHeap, NextIsOlder, PrevInvertsNext, TopIsNewest, TypeOK
  <2>5. QED
    BY <1>3, <1>4, <2>1, <2>2, <2>3, <2>4 DEF ListIsHeap, PrevInvertsNext, TypeOK
<1>8. SweepInv' /\ DueIsAged' /\ (pc' = "idle" => cur' = NULL /\ nxt' = NULL)
  BY DEF SweepInv, DueIsAged, sweepVars
<1>9. QED
  BY <1>1, <1>2, <1>5, <1>6, <1>7, <1>8 DEF ListIsHeap

\* A connection becoming reclaimable touches no pointer.
LEMMA AgePreserves ==
  ASSUME NEW c \in Conn, IInv, Age(c)
  PROVE  IInv'
BY DEF IInv, Age, TypeOK, UniqueIds, ListIsHeap, TopIsNewest, NextIsOlder,
       PrevInvertsNext, SweepInv, DueIsAged, Top, links, sweepVars

\* cleanup_connections starts at the head, behind which is all that is due.
LEMMA StartSweepPreserves ==
  ASSUME IInv, StartSweep
  PROVE  IInv'
<1> USE DEF IInv, StartSweep, links
<1>1. Top' = Top /\ Top = head
  BY DEF Top
<1>2. TypeOK'
  BY DEF TypeOK, Ref
<1>3. ListIsHeap' /\ UniqueIds'
  BY <1>1 DEF ListIsHeap, TopIsNewest, NextIsOlder, PrevInvertsNext, UniqueIds
<1>4. SweepInv'
  BY <1>1, NullAssumption DEF SweepInv, ListIsHeap, TopIsNewest, TypeOK
<1>5. DueIsAged'
  BY DEF DueIsAged
<1>6. QED
  BY <1>2, <1>3, <1>4, <1>5

\* The loop steps over a connection that is not due.
LEMMA KeepPreserves ==
  ASSUME IInv, Visit, cur \notin due
  PROVE  IInv'
<1> USE DEF IInv
<1>1. /\ UNCHANGED <<pool, heap, next, prev, id, id_pool, aged, head, pc, due>>
      /\ pc = "sweep" /\ cur # NULL /\ cur' = nxt
      /\ nxt' = IF nxt = NULL THEN nxt ELSE next[nxt]
  BY DEF Visit, KeepCur, CurIsDue, NextCur, links
<1>2. cur \in heap /\ nxt = next[cur]
  BY <1>1 DEF SweepInv
<1>3. TypeOK'
  BY <1>1, <1>2 DEF TypeOK, Ref
<1>4. ListIsHeap' /\ UniqueIds'
  BY <1>1 DEF ListIsHeap, TopIsNewest, NextIsOlder, PrevInvertsNext, UniqueIds, Top
<1>5. \A c \in heap \cap due : id[c] < id[cur]
  BY <1>1, <1>2 DEF SweepInv, UniqueIds, TypeOK
<1>6. SweepInv'
  BY <1>1, <1>2, <1>5 DEF SweepInv, ListIsHeap, NextIsOlder, TypeOK
<1>7. DueIsAged'
  BY <1>1 DEF DueIsAged
<1>8. QED
  BY <1>1, <1>3, <1>4, <1>6, <1>7

\* remove_client_connection closes the gap, and pool moves on when the
\* first object goes.
LEMMA FreePreserves ==
  ASSUME IInv, Visit, cur \in due
  PROVE  IInv'
<1> USE NullAssumption DEF IInv
<1>1. /\ UNCHANGED <<id, id_pool, head, pc, due>>
      /\ pc = "sweep" /\ cur # NULL /\ cur' = nxt
      /\ nxt' = IF nxt = NULL THEN nxt ELSE next'[nxt]
      /\ pool' = IF pool = cur THEN nxt ELSE pool
      /\ heap' = heap \ {cur} /\ aged' = aged \ {cur}
      /\ next' = UnlinkedNext(cur) /\ prev' = UnlinkedPrev(cur)
  BY DEF Visit, FreeCur, CurIsDue, PoolAfterFree, NextCur
<1>2. cur \in heap /\ nxt = next[cur] /\ cur \in Conn /\ Top = pool /\ Top' = pool'
  BY <1>1 DEF SweepInv, TypeOK, Top
<1>3. \A x \in Conn : /\ next'[x] = IF x = cur THEN NULL ELSE IF x = prev[cur] THEN next[cur] ELSE next[x]
                      /\ prev'[x] = IF x = cur THEN NULL ELSE IF x = next[cur] THEN prev[cur] ELSE prev[x]
  BY <1>1 DEF UnlinkedNext, UnlinkedPrev
<1>4. TypeOK'
  BY <1>1, <1>2, <1>3 DEF TypeOK, Ref, UnlinkedNext, UnlinkedPrev
<1>5. UniqueIds'
  BY <1>1 DEF UniqueIds
<1>6. /\ prev[cur] = NULL <=> cur = pool
      /\ prev[cur] # NULL => prev[cur] \in heap /\ next[prev[cur]] = cur /\ prev[cur] # cur
      /\ next[cur] # NULL => next[cur] \in heap /\ prev[next[cur]] = cur /\ next[cur] # cur
  BY <1>2 DEF ListIsHeap, PrevInvertsNext, NextIsOlder, TypeOK
<1>7. \A c \in heap : c # cur /\ c # prev[cur] => next[c] # cur
  BY <1>2 DEF ListIsHeap, PrevInvertsNext
<1>8. \A c \in heap : c # cur /\ c # next[cur] => prev[c] # cur
  BY <1>2 DEF ListIsHeap, PrevInvertsNext
<1>9. TopIsNewest'
  BY <1>1, <1>2, <1>5, <1>6 DEF ListIsHeap, TopIsNewest, NextIsOlder, TypeOK, UniqueIds
<1>10. NextIsOlder'
  <2> SUFFICES ASSUME NEW d \in heap, d # cur
               PROVE  IF next'[d] = NULL THEN \A e \in heap' : id[d] <= id[e]
                      ELSE /\ next'[d] \in heap' /\ id[next'[d]] < id[d]
                           /\ \A e \in heap' : id[e] < id[d] => id[e] <= id[next'[d]]
    BY <1>1 DEF NextIsOlder
  <2>1. CASE d = prev[cur]
    <3>1. next'[d] = next[cur] /\ next[d] = cur /\ id[cur] < id[d]
      BY <2>1, <1>2, <1>3, <1>6 DEF TypeOK, ListIsHeap, NextIsOlder
    <3>2. \A e \in heap' : id[e] < id[d] => id[e] < id[cur]
      BY <3>1, <1>1, <1>2 DEF TypeOK, ListIsHeap, NextIsOlder, UniqueIds
    <3>3. QED
      BY <3>1, <3>2, <1>1, <1>2, <1>6 DEF TypeOK, ListIsHeap, NextIsOlder
  <2>2. CASE d # prev[cur]
    BY <2>2, <1>1, <1>3, <1>7 DEF TypeOK, ListIsHeap, NextIsOlder
  <2>3. QED
    BY <2>1, <2>2
<1>11. PrevInvertsNext'
  <2> SUFFICES ASSUME NEW d \in heap, d # cur
               PROVE  /\ next'[d] # NULL => prev'[next'[d]] = d
                      /\ prev'[d] # NULL => prev'[d] \in heap' /\ next'[prev'[d]] = d
                      /\ prev'[d] = NULL <=> d = pool'
    BY <1>1, <1>2 DEF PrevInvertsNext
  <2>1. d \in Conn /\ (next[d] # NULL => next[d] \in heap /\ next[d] \in Conn /\ prev[next[d]] = d)
    BY DEF TypeOK, ListIsHeap, NextIsOlder, PrevInvertsNext
  <2>2. next'[d] # NULL => prev'[next'[d]] = d
    BY <2>1, <1>2, <1>3, <1>6, <1>7 DEF TypeOK
  <2>3. prev[d] # NULL => prev[d] \in heap /\ prev[d] \in Conn /\ next[prev[d]] = d
    BY DEF TypeOK, ListIsHeap, PrevInvertsNext
  <2>4. prev'[d] # NULL => prev'[d] \in heap' /\ next'[prev'[d]] = d
    BY <2>1, <2>3, <1>1, <1>2, <1>3, <1>6, <1>8 DEF TypeOK
  <2>5. prev[d] = NULL <=> d = pool
    BY <1>2 DEF ListIsHeap, PrevInvertsNext
  <2>6. prev'[d] = NULL <=> d = pool'
    BY <2>1, <2>3, <2>5, <1>1, <1>2, <1>3, <1>6 DEF TypeOK
  <2>7. QED
    BY <2>2, <2>4, <2>6
<1>12. \A c \in heap' \cap due : id[c] < id[cur]
  BY <1>1, <1>2 DEF SweepInv, UniqueIds, TypeOK
<1>13. SweepInv'
  BY <1>1, <1>2, <1>6, <1>12 DEF SweepInv, ListIsHeap, NextIsOlder, TypeOK
<1>14. DueIsAged'
  BY <1>1 DEF DueIsAged
<1>15. QED
  BY <1>1, <1>4, <1>5, <1>9, <1>10, <1>11, <1>13, <1>14 DEF ListIsHeap

\* cleanup_connections returns the new head.
LEMMA EndSweepPreserves ==
  ASSUME IInv, EndSweep
  PROVE  IInv'
BY DEF IInv, EndSweep, TypeOK, UniqueIds, ListIsHeap, TopIsNewest, NextIsOlder,
       PrevInvertsNext, SweepInv, DueIsAged, Top, links

LEMMA NextPreserves == IInv /\ [Next]_vars => IInv'
<1> SUFFICES ASSUME IInv, [Next]_vars PROVE IInv'
  OBVIOUS
<1>1. CASE \E c \in Conn : Insert(c)
  BY <1>1, InsertPreserves
<1>2. CASE \E c \in Conn : Age(c)
  BY <1>2, AgePreserves
<1>3. CASE StartSweep
  BY <1>3, StartSweepPreserves
<1>4. CASE Visit
  BY <1>4, KeepPreserves, FreePreserves
<1>5. CASE EndSweep
  BY <1>5, EndSweepPreserves
<1>6. CASE UNCHANGED vars
  BY <1>6 DEF vars, links, sweepVars, IInv, TypeOK, UniqueIds, ListIsHeap, TopIsNewest,
              NextIsOlder, PrevInvertsNext, SweepInv, DueIsAged, Top
<1>7. QED
  BY <1>1, <1>2, <1>3, <1>4, <1>5, <1>6 DEF Next, MainThread

\* The inductive invariant holds in every reachable state.
THEOREM Invariance == Spec => []IInv
BY InitEstablishes, NextPreserves, PTL DEF Spec

-----------------------------------------------------------------------------
\* Every state variable has its type, whatever the number of connections.
THEOREM TypeCorrect == Spec => []TypeOK
<1>1. IInv => TypeOK
  BY DEF IInv
<1>2. QED
  BY <1>1, Invariance, PTL

\* insert, remove and the head update of cleanup_connections never lose an
\* object: the links lead through exactly the allocated ones, newest first.
THEOREM ListIsHeapAlways == Spec => []ListIsHeap
<1>1. IInv => ListIsHeap
  BY DEF IInv
<1>2. QED
  BY <1>1, Invariance, PTL

\* Neither the loop of cleanup_connections nor a later walk from the head
\* starts from an object that has been freed.
THEOREM NeverDangling == Spec => []NoDangling
<1>1. IInv => NoDangling
  BY DEF IInv, NoDangling, SweepInv, ListIsHeap, TopIsNewest, NextIsOlder, TypeOK, Top
<1>2. QED
  BY <1>1, Invariance, PTL

\* When cleanup_connections returns, all that was due at its "now" is gone.
THEOREM SweepCompletes == Spec => SweepIsComplete
<1>1. IInv => SweptAll
  BY DEF IInv, SweptAll, SweepInv, EndSweep
<1>2. QED
  BY <1>1, Invariance, PTL DEF SweepIsComplete

\* A step of the list is a step of the set it represents, or changes nothing
\* of it: only a connection that is reclaimable is ever freed.
LEMMA StepRefines == IInv /\ [Next]_vars => [Pool!Next]_(Pool!vars)
<1> SUFFICES ASSUME IInv, [Next]_vars PROVE [Pool!Next]_(Pool!vars)
  OBVIOUS
<1> USE DEF Pool!Next, Pool!vars
<1>1. ASSUME NEW c \in Conn, Insert(c) PROVE Pool!Join(c)
  BY <1>1 DEF Insert, Pool!Join
<1>2. ASSUME NEW c \in Conn, Age(c) PROVE Pool!Expire
  BY <1>2 DEF Age, links, Pool!Expire, IInv, TypeOK
<1>3. CASE StartSweep \/ EndSweep
  BY <1>3 DEF StartSweep, EndSweep, links
<1>4. CASE Visit /\ cur \in due
  <2>1. cur \in Conn /\ cur \in aged
    BY <1>4 DEF IInv, SweepInv, TypeOK, Visit, DueIsAged
  <2>2. Pool!Reclaim(cur)
    BY <2>1, <1>4 DEF Visit, FreeCur, CurIsDue, Pool!Reclaim
  <2>3. QED
    BY <2>1, <2>2
<1>5. CASE Visit /\ cur \notin due
  BY <1>5 DEF Visit, KeepCur, CurIsDue, links
<1>6. CASE UNCHANGED vars
  BY <1>6 DEF vars, links
<1>7. QED
  BY <1>1, <1>2, <1>3, <1>4, <1>5, <1>6 DEF Next, MainThread

\* The linked list implements the set of connections of ConnectionPool
\* (its safety part; that everything reclaimable goes is model-checked).
THEOREM Refinement == Spec => Pool!Safety
<1>1. Init => Pool!Init
  BY DEF Init, Pool!Init
<1>2. QED
  BY <1>1, StepRefines, Invariance, PTL DEF Spec, Pool!Safety
=============================================================================

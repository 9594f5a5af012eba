--------------------------- MODULE MainLoopProofs ---------------------------
(***************************************************************************)
(* Proofs about MainLoop, for any number of connections, descriptors and   *)
(* any loiter time.                                                        *)
(*                                                                         *)
(* A connection that is visited with thread_has_exited set has an idle     *)
(* thread, so neither of its descriptor fields is in the window between    *)
(* close() and -1, so both name descriptors that are its own.              *)
(***************************************************************************)
EXTENDS MainLoop, FiniteSetTheorems, TLAPS

\* The part of the invariant that speaks of objects and descriptors.
SafeInv == /\ NoUseAfterFree /\ DescriptorsAgree /\ ExitedIsGone
           /\ SidesDiffer /\ StaleIsClosed /\ todo \subseteq heap

\* The inductive invariant holds before the first poll().
LEMMA InitEstablishes == Init => IInv
<1> SUFFICES ASSUME Init PROVE IInv
  OBVIOUS
<1> USE LoiterAssumption, BacklogAssumption, NoneAssumption DEF Init
<1>1. NoFds \in [Side -> Fd \cup {None}]
  BY DEF NoFds
<1>2. TypeOK
  <2>1. age \in [Conn -> 0..(Loiter + 1)] /\ backlog \in 0..MaxBacklog
    OBVIOUS
  <2>2. worker \in [Conn -> Idle \cup Working]
    BY DEF Idle
  <2>3. fd \in [Conn -> [Side -> Fd \cup {None}]] /\ owner \in [Fd -> Conn \cup {None}]
    BY <1>1
  <2>4. QED
    BY <2>1, <2>2, <2>3 DEF TypeOK, Stages
<1>3. NoUseAfterFree /\ DescriptorsAgree
  BY DEF NoUseAfterFree, DescriptorsAgree, FieldsAreOpen, NoSocketLeaked, Working
<1>4. ExitedIsGone /\ SidesDiffer /\ StaleIsClosed /\ DueIsOld /\ ReadableIsQueued /\ todo \subseteq heap
  BY DEF ExitedIsGone, SidesDiffer, StaleIsClosed, DueIsOld, ReadableIsQueued
<1>5. QED
  BY <1>2, <1>3, <1>4 DEF IInv

\* Objects and descriptors stay as they are if nothing they depend on changes.
LEMMA Untouched ==
  ASSUME SafeInv, UNCHANGED <<heap, exited, worker, fd, owner>>, todo' \subseteq heap
  PROVE  SafeInv'
<1> USE DEF SafeInv
<1>1. NoUseAfterFree' /\ ExitedIsGone' /\ SidesDiffer'
  BY DEF NoUseAfterFree, ExitedIsGone, SidesDiffer
<1>2. \A c \in heap, s \in Side : Stale(c, s)' <=> Stale(c, s)
  BY DEF Stale
<1>3. DescriptorsAgree' /\ StaleIsClosed'
  BY <1>2 DEF StaleIsClosed, DescriptorsAgree, FieldsAreOpen, NoSocketLeaked
<1>4. QED
  BY <1>1, <1>3

\* The environment, and the stages that neither create nor free an object.
LEMMA StagePreserves ==
  ASSUME IInv,
         \/ Arrive \/ Tick \/ Poll \/ PollFails \/ NothingToAccept \/ AcceptFails
         \/ StartSweep \/ EndSweep \/ CheckTunnels \/ RotateLogs
  PROVE  IInv'
<1> USE LoiterAssumption, BacklogAssumption
    DEF mainVars, objects, files, IInv, Arrive, Tick, Poll, PollFails, NothingToAccept,
        AcceptFails, StartSweep, EndSweep, CheckTunnels, RotateLogs
<1>1. UNCHANGED <<heap, exited, worker, fd, owner>> /\ todo' \subseteq heap
  OBVIOUS
<1>2. SafeInv'
  BY <1>1, Untouched DEF SafeInv
<1>3. TypeOK'
  <2>1. CASE Arrive
    BY <2>1 DEF TypeOK
  <2>2. CASE Tick
    BY <2>2 DEF TypeOK
  <2>3. CASE Poll \/ PollFails \/ NothingToAccept \/ AcceptFails
    BY <2>3 DEF TypeOK, Stages
  <2>4. CASE StartSweep \/ EndSweep
    BY <2>4 DEF TypeOK, Stages
  <2>5. CASE CheckTunnels \/ RotateLogs
    BY <2>5 DEF TypeOK, Stages
  <2>6. QED
    BY <2>1, <2>2, <2>3, <2>4, <2>5
<1>4. DueIsOld'
  BY DEF DueIsOld, TypeOK
<1>5. ReadableIsQueued'
  BY DEF ReadableIsQueued, TypeOK
<1>6. QED
  BY <1>2, <1>3, <1>4, <1>5 DEF SafeInv

\* accept_connection and launch_thread: the new object holds one socket,
\* whose number was free, and its thread is running or it is marked dead.
LEMMA AcceptPreserves ==
  ASSUME IInv, NEW c \in Conn, NEW f \in Fd, Launch(c, f) \/ LaunchFails(c, f)
  PROVE  IInv'
<1> USE LoiterAssumption, BacklogAssumption, NoneAssumption DEF IInv
<1>1. /\ pc' = "clock" /\ revents' = revents /\ todo' = todo /\ due' = due
      /\ c \notin heap /\ heap' = heap \cup {c} /\ owner[f] = None
      /\ backlog > 0 /\ backlog' = backlog - 1
      /\ age' = [age EXCEPT ![c] = Loiter + 1]
      /\ fd' = [fd EXCEPT ![c] = [NoFds EXCEPT !["in"] = f]]
      /\ owner' = [owner EXCEPT ![f] = c]
  BY DEF Launch, LaunchFails, NewConnection, FreeFds, Readable, ReadableIsQueued
<1>2. /\ worker' \in [Conn -> Idle \cup Working] /\ exited' \subseteq Conn
      /\ errno' \in {"none", "EMFILE", "ENOENT", "EAGAIN"} \cup ForkErrors
      /\ \A d \in Conn \ {c} : worker'[d] = worker[d] /\ (d \in exited' <=> d \in exited)
      /\ (worker'[c] = "connect" /\ c \notin exited') \/ worker'[c] = "none"
  BY DEF Launch, LaunchFails, TypeOK, Idle, Working
<1>3. [NoFds EXCEPT !["in"] = f] \in [Side -> Fd \cup {None}]
  BY DEF NoFds
<1>4. TypeOK'
  <2>1. age' \in [Conn -> 0..(Loiter + 1)] /\ backlog' \in 0..MaxBacklog
    BY <1>1 DEF TypeOK
  <2>2. fd' \in [Conn -> [Side -> Fd \cup {None}]] /\ owner' \in [Fd -> Conn \cup {None}]
    BY <1>1, <1>3 DEF TypeOK
  <2>3. QED
    BY <2>1, <2>2, <1>1, <1>2 DEF TypeOK, Stages
<1>5. NoUseAfterFree' /\ ExitedIsGone'
  BY <1>1, <1>2 DEF NoUseAfterFree, ExitedIsGone, TypeOK, Idle, Working
<1>6. DueIsOld' /\ (todo \subseteq heap)' /\ ReadableIsQueued'
  BY <1>1 DEF DueIsOld, TypeOK, ReadableIsQueued
<1>7. /\ fd'[c]["in"] = f /\ fd'[c]["out"] = None
      /\ \A d \in heap : fd'[d] = fd[d]
      /\ \A g \in Fd : owner'[g] = IF g = f THEN c ELSE owner[g]
  BY <1>1 DEF TypeOK, NoFds, Side
<1>8. SidesDiffer'
  BY <1>1, <1>7 DEF SidesDiffer
<1>9. FieldsAreOpen'
  <2> SUFFICES ASSUME NEW d \in heap', NEW s \in Side, fd'[d][s] # None, ~Stale(d, s)'
               PROVE  owner'[fd'[d][s]] = d
    BY DEF FieldsAreOpen
  <2>1. CASE d = c
    BY <2>1, <1>7 DEF Side
  <2>2. CASE d # c
    <3>1. d \in heap /\ d \in Conn /\ fd'[d][s] = fd[d][s] /\ worker'[d] = worker[d]
      BY <2>2, <1>1, <1>2, <1>7 DEF TypeOK
    <3>2. owner[fd[d][s]] = d
      BY <3>1 DEF Stale, DescriptorsAgree, FieldsAreOpen
    <3>3. fd[d][s] \in Fd
      BY <3>1 DEF TypeOK
    <3>4. QED
      BY <3>1, <3>2, <3>3, <1>1, <1>7
  <2>3. QED
    BY <2>1, <2>2
<1>10. NoSocketLeaked'
  BY <1>1, <1>7 DEF NoSocketLeaked, DescriptorsAgree, TypeOK, Side
<1>11. StaleIsClosed'
  <2> SUFFICES ASSUME NEW d \in heap', NEW s \in Side, fd'[d][s] # None, Stale(d, s)'
               PROVE  owner'[fd'[d][s]] # d
    BY DEF StaleIsClosed
  <2>1. d # c
    BY <1>2 DEF Stale
  <2>2. d \in heap /\ d \in Conn /\ fd'[d][s] = fd[d][s] /\ worker'[d] = worker[d]
    BY <2>1, <1>1, <1>2, <1>7 DEF TypeOK
  <2>3. owner[fd[d][s]] # d
    BY <2>2 DEF Stale, StaleIsClosed
  <2>4. fd[d][s] \in Fd
    BY <2>2 DEF TypeOK
  <2>5. QED
    BY <2>1, <2>2, <2>3, <2>4, <1>7
<1>12. QED
  BY <1>4, <1>5, <1>6, <1>8, <1>9, <1>10, <1>11 DEF DescriptorsAgree

\* cleanup_connections frees an object: its thread is idle, so both fields
\* hold descriptors of its own, and those are what free closes.
LEMMA FreePreserves ==
  ASSUME IInv, NEW c \in Conn, Visit(c), Expired(c)
  PROVE  IInv'
<1> USE NoneAssumption DEF IInv
<1>1. /\ c \in heap /\ c \in exited /\ worker[c] \in Idle /\ pc = "sweep"
      /\ todo' = todo \ {c} /\ heap' = heap \ {c}
      /\ owner' = [f \in Fd |-> IF \E s \in Side : fd[c][s] = f THEN None ELSE owner[f]]
      /\ fd' = [fd EXCEPT ![c] = NoFds]
      /\ UNCHANGED <<pc, errno, revents, backlog, exited, age, due, worker>>
  BY DEF Visit, Free, Expired, ExitedIsGone
<1>2. \A s \in Side : fd[c][s] # None => owner[fd[c][s]] = c
  BY <1>1 DEF DescriptorsAgree, FieldsAreOpen, Stale, Idle
<1>3. \A d \in heap' : d # c /\ d \in Conn /\ fd'[d] = fd[d]
  BY <1>1 DEF TypeOK
<1>4. TypeOK'
  <2>1. NoFds \in [Side -> Fd \cup {None}]
    BY DEF NoFds
  <2>2. QED
    BY <1>1, <2>1 DEF TypeOK
<1>5. NoUseAfterFree' /\ ExitedIsGone' /\ (todo \subseteq heap)'
  BY <1>1 DEF NoUseAfterFree, ExitedIsGone, Idle, Working
<1>6. SidesDiffer' /\ DueIsOld' /\ ReadableIsQueued'
  BY <1>1, <1>3 DEF SidesDiffer, DueIsOld, ReadableIsQueued
<1>7. FieldsAreOpen'
  <2> SUFFICES ASSUME NEW d \in heap', NEW s \in Side, fd'[d][s] # None, ~Stale(d, s)'
               PROVE  owner'[fd'[d][s]] = d
    BY DEF FieldsAreOpen
  <2>1. d \in heap /\ d # c /\ fd'[d][s] = fd[d][s] /\ worker'[d] = worker[d]
    BY <1>1, <1>3
  <2>2. owner[fd[d][s]] = d
    BY <2>1 DEF Stale, DescriptorsAgree, FieldsAreOpen
  <2>3. fd[d][s] \in Fd
    BY <2>1 DEF TypeOK
  <2>4. ~ \E t \in Side : fd[c][t] = fd[d][s]
    BY <1>2, <2>1, <2>2
  <2>5. QED
    BY <1>1, <2>1, <2>2, <2>3, <2>4
<1>8. NoSocketLeaked'
  <2> SUFFICES ASSUME NEW f \in Fd, owner'[f] # None
               PROVE  owner'[f] \in heap' /\ \E s \in Side : fd'[owner'[f]][s] = f
    BY DEF NoSocketLeaked
  <2>1. owner'[f] = owner[f] /\ ~ \E s \in Side : fd[c][s] = f
    BY <1>1
  <2>2. owner[f] \in heap /\ \E s \in Side : fd[owner[f]][s] = f
    BY <2>1 DEF DescriptorsAgree, NoSocketLeaked
  <2>3. QED
    BY <2>1, <2>2, <1>1, <1>3
<1>9. StaleIsClosed'
  <2> SUFFICES ASSUME NEW d \in heap', NEW s \in Side, fd'[d][s] # None, Stale(d, s)'
               PROVE  owner'[fd'[d][s]] # d
    BY DEF StaleIsClosed
  <2>1. d \in heap /\ d \in Conn /\ fd'[d][s] = fd[d][s] /\ Stale(d, s)
    BY <1>1, <1>3 DEF Stale
  <2>2. fd[d][s] \in Fd /\ owner[fd[d][s]] # d
    BY <2>1 DEF StaleIsClosed, TypeOK
  <2>3. QED
    BY <2>1, <2>2, <1>1, <1>3
<1>10. QED
  BY <1>4, <1>5, <1>6, <1>7, <1>8, <1>9 DEF DescriptorsAgree

\* cleanup_connections passes over a connection that is not expired.
LEMMA KeepPreserves ==
  ASSUME IInv, NEW c \in Conn, Visit(c), ~Expired(c)
  PROVE  IInv'
<1> USE DEF IInv, Visit, files
<1>1. SafeInv'
  BY Untouched DEF SafeInv
<1>2. TypeOK' /\ DueIsOld' /\ ReadableIsQueued'
  BY DEF TypeOK, DueIsOld, ReadableIsQueued
<1>3. QED
  BY <1>1, <1>2 DEF SafeInv

-----------------------------------------------------------------------------
\* A thread's move between two points of its program: what it must not do
\* is to go on after it is idle or to leave a stale field behind.
LEMMA MoveFacts ==
  ASSUME IInv, NEW c \in Conn, NEW from \in Working, NEW to \in Working \cup {"gone"},
         Moves(c, from, to)
  PROVE  /\ c \in heap /\ c \notin exited
         /\ worker' \in [Conn -> Idle \cup Working]
         /\ worker[c] = from /\ worker'[c] = to
         /\ \A d \in Conn \ {c} : worker'[d] = worker[d]
BY DEF IInv, TypeOK, Moves, NoUseAfterFree, ExitedIsGone, Idle, Working

\* close(): the descriptor is the connection's own, and its field is stale now.
LEMMA ClosePreserves ==
  ASSUME IInv, NEW c \in Conn, NEW s \in Side, NEW from \in Working, NEW to \in Working,
         Close(c, s, from, to),
         \A t \in Side : ~Stale(c, t) /\ (Stale(c, t)' <=> t = s)
  PROVE  IInv'
<1> USE NoneAssumption DEF IInv, mainVars, objects
<1>1. /\ owner' = [owner EXCEPT ![fd[c][s]] = None] /\ fd[c][s] # None
      /\ UNCHANGED <<pc, errno, revents, todo, backlog, heap, exited, age, due, fd>>
  BY DEF Close
<1>2. /\ c \in heap /\ c \notin exited /\ worker' \in [Conn -> Idle \cup Working]
      /\ \A d \in Conn \ {c} : worker'[d] = worker[d]
      /\ worker'[c] = to
  BY MoveFacts DEF Close
<1>3. fd[c][s] \in Fd /\ owner[fd[c][s]] = c
  BY <1>1, <1>2 DEF TypeOK, DescriptorsAgree, FieldsAreOpen
<1>4. TypeOK'
  BY <1>1, <1>2 DEF TypeOK
<1>5. NoUseAfterFree' /\ ExitedIsGone' /\ SidesDiffer' /\ (todo \subseteq heap)'
  BY <1>1, <1>2 DEF NoUseAfterFree, ExitedIsGone, SidesDiffer, TypeOK
<1>6. DueIsOld' /\ ReadableIsQueued'
  BY <1>1 DEF DueIsOld, ReadableIsQueued
<1>7. FieldsAreOpen'
  <2> SUFFICES ASSUME NEW d \in heap, NEW t \in Side, fd[d][t] # None, ~Stale(d, t)'
               PROVE  owner'[fd[d][t]] = d
    BY <1>1 DEF FieldsAreOpen
  <2>1. CASE d = c
    <3>1. t # s
      BY <2>1
    <3>2. fd[c][t] # fd[c][s]
      BY <3>1, <1>1, <1>2, <2>1 DEF SidesDiffer, Side
    <3>3. fd[c][t] \in Fd /\ owner[fd[c][t]] = c
      BY <1>2, <2>1 DEF TypeOK, DescriptorsAgree, FieldsAreOpen
    <3>4. QED
      BY <2>1, <3>2, <3>3, <1>1, <1>3 DEF TypeOK
  <2>2. CASE d # c
    <3>1. ~Stale(d, t) /\ d \in Conn
      BY <2>2, <1>2 DEF Stale, TypeOK
    <3>2. owner[fd[d][t]] = d /\ fd[d][t] \in Fd
      BY <3>1 DEF TypeOK, DescriptorsAgree, FieldsAreOpen
    <3>3. QED
      BY <2>2, <3>2, <1>1, <1>3 DEF TypeOK
  <2>3. QED
    BY <2>1, <2>2
<1>8. NoSocketLeaked'
  BY <1>1, <1>3 DEF TypeOK, DescriptorsAgree, NoSocketLeaked
<1>9. StaleIsClosed'
  <2> SUFFICES ASSUME NEW d \in heap, NEW t \in Side, fd[d][t] # None, Stale(d, t)'
               PROVE  owner'[fd[d][t]] # d
    BY <1>1 DEF StaleIsClosed
  <2>1. d \in Conn /\ fd[d][t] \in Fd
    BY DEF TypeOK
  <2>2. CASE d = c
    BY <2>1, <2>2, <1>1, <1>3 DEF TypeOK
  <2>3. CASE d # c
    <3>1. Stale(d, t)
      BY <2>1, <2>3, <1>2 DEF Stale
    <3>2. owner[fd[d][t]] # d
      BY <3>1 DEF StaleIsClosed
    <3>3. QED
      BY <2>1, <3>2, <1>1, <1>3 DEF TypeOK
  <2>4. QED
    BY <2>2, <2>3
<1>10. QED
  BY <1>4, <1>5, <1>6, <1>7, <1>8, <1>9 DEF DescriptorsAgree

\* Assigning -1 closes the window: no field of the connection is stale then.
LEMMA ClearPreserves ==
  ASSUME IInv, NEW c \in Conn, NEW s \in Side, NEW from \in Working, NEW to \in Working,
         Clear(c, s, from, to),
         \A t \in Side : ~Stale(c, t)' /\ (t # s => ~Stale(c, t)),
         Stale(c, s) \/ fd[c][s] = None
  PROVE  IInv'
<1> USE NoneAssumption DEF IInv, mainVars, objects
<1>1. /\ fd' = [fd EXCEPT ![c][s] = None]
      /\ UNCHANGED <<pc, errno, revents, todo, backlog, heap, exited, age, due, owner>>
  BY DEF Clear
<1>2. /\ c \in heap /\ c \notin exited /\ worker' \in [Conn -> Idle \cup Working]
      /\ \A d \in Conn \ {c} : worker'[d] = worker[d]
      /\ worker'[c] = to
  BY MoveFacts DEF Clear
<1>3. /\ fd'[c][s] = None /\ \A t \in Side \ {s} : fd'[c][t] = fd[c][t]
      /\ \A d \in Conn \ {c} : fd'[d] = fd[d]
  BY <1>1 DEF TypeOK
<1>4. TypeOK'
  BY <1>1, <1>2 DEF TypeOK
<1>5. NoUseAfterFree' /\ ExitedIsGone' /\ (todo \subseteq heap)' /\ DueIsOld' /\ ReadableIsQueued'
  BY <1>1, <1>2 DEF NoUseAfterFree, ExitedIsGone, TypeOK, DueIsOld, ReadableIsQueued
<1>6. SidesDiffer'
  BY <1>1, <1>3 DEF SidesDiffer, TypeOK, Side
<1>7. FieldsAreOpen'
  <2> SUFFICES ASSUME NEW d \in heap, NEW t \in Side, fd'[d][t] # None, ~Stale(d, t)'
               PROVE  owner[fd'[d][t]] = d
    BY <1>1 DEF FieldsAreOpen
  <2>1. d \in Conn /\ fd'[d][t] = fd[d][t] /\ (d = c => t # s)
    BY <1>3 DEF TypeOK
  <2>2. ~Stale(d, t)
    BY <2>1, <1>2 DEF Stale
  <2>3. QED
    BY <2>1, <2>2 DEF DescriptorsAgree, FieldsAreOpen
<1>8. NoSocketLeaked'
  <2> SUFFICES ASSUME NEW f \in Fd, owner[f] # None
               PROVE  owner[f] \in heap /\ \E t \in Side : fd'[owner[f]][t] = f
    BY <1>1 DEF NoSocketLeaked
  <2>1. PICK t \in Side : owner[f] \in heap /\ owner[f] \in Conn /\ fd[owner[f]][t] = f
    BY DEF DescriptorsAgree, NoSocketLeaked, TypeOK
  <2>2. CASE owner[f] # c \/ t # s
    BY <2>1, <2>2, <1>3
  <2>3. CASE owner[f] = c /\ t = s
    BY <2>1, <2>3, <1>2 DEF StaleIsClosed, TypeOK
  <2>4. QED
    BY <2>2, <2>3
<1>9. StaleIsClosed'
  <2> SUFFICES ASSUME NEW d \in heap, NEW t \in Side, fd'[d][t] # None, Stale(d, t)'
               PROVE  owner[fd'[d][t]] # d
    BY <1>1 DEF StaleIsClosed
  <2>1. d # c /\ d \in Conn
    BY DEF TypeOK
  <2>2. fd'[d][t] = fd[d][t] /\ Stale(d, t)
    BY <2>1, <1>2, <1>3 DEF Stale
  <2>3. QED
    BY <2>2 DEF StaleIsClosed
<1>10. QED
  BY <1>4, <1>5, <1>6, <1>7, <1>8, <1>9 DEF DescriptorsAgree

\* A thread goes on without touching a descriptor: safe_close of -1, or a
\* handler that proceeds.
LEMMA GoOnPreserves ==
  ASSUME IInv, NEW c \in Conn, NEW from \in Working, NEW to \in Working,
         Moves(c, from, to), UNCHANGED <<mainVars, backlog, objects, files>>,
         \A t \in Side : ~Stale(c, t) /\ (Stale(c, t)' => fd[c][t] = None)
  PROVE  IInv'
<1> USE DEF IInv, mainVars, objects, files
<1>1. /\ c \in heap /\ c \notin exited /\ worker' \in [Conn -> Idle \cup Working]
      /\ \A d \in Conn \ {c} : worker'[d] = worker[d]
      /\ worker'[c] = to
  BY MoveFacts
<1>2. TypeOK'
  BY <1>1 DEF TypeOK
<1>3. NoUseAfterFree' /\ ExitedIsGone' /\ SidesDiffer' /\ (todo \subseteq heap)'
  BY <1>1 DEF NoUseAfterFree, ExitedIsGone, SidesDiffer, TypeOK
<1>4. DueIsOld' /\ ReadableIsQueued'
  BY DEF DueIsOld, ReadableIsQueued
<1>5. \A d \in heap \ {c}, t \in Side : Stale(d, t)' <=> Stale(d, t)
  BY <1>1 DEF Stale, TypeOK
<1>6. DescriptorsAgree'
  BY <1>1, <1>5 DEF DescriptorsAgree, FieldsAreOpen, NoSocketLeaked
<1>7. StaleIsClosed'
  BY <1>1, <1>5 DEF StaleIsClosed
<1>8. QED
  BY <1>2, <1>3, <1>4, <1>6, <1>7

\* connect_direct and connect_to_ssh_socks5_proxy take a free number.
LEMMA OpenOutPreserves ==
  ASSUME IInv, NEW c \in Conn, OpenOut(c)
  PROVE  IInv'
<1> USE NoneAssumption DEF IInv, mainVars, objects
<1>1. PICK f \in Fd : /\ owner[f] = None
                      /\ fd' = [fd EXCEPT ![c]["out"] = f]
                      /\ owner' = [owner EXCEPT ![f] = c]
  BY DEF OpenOut, FreeFds
<1>2. /\ worker[c] = "connect" /\ fd[c]["out"] = None /\ c \in heap
      /\ UNCHANGED <<pc, errno, revents, todo, backlog, heap, exited, age, due, worker>>
  BY DEF OpenOut, NoUseAfterFree, Working
<1>3. /\ fd'[c]["out"] = f /\ fd'[c]["in"] = fd[c]["in"]
      /\ \A d \in Conn \ {c} : fd'[d] = fd[d]
      /\ \A g \in Fd : owner'[g] = IF g = f THEN c ELSE owner[g]
  BY <1>1 DEF TypeOK, Side
<1>4. TypeOK'
  BY <1>1, <1>2 DEF TypeOK, Side
<1>5. NoUseAfterFree' /\ ExitedIsGone' /\ DueIsOld' /\ ReadableIsQueued' /\ (todo \subseteq heap)'
  BY <1>2 DEF NoUseAfterFree, ExitedIsGone, DueIsOld, ReadableIsQueued
<1>6. \A d \in heap, s \in Side : Stale(d, s)' <=> Stale(d, s)
  BY <1>2 DEF Stale
<1>7. \A s \in Side : ~Stale(c, s)
  BY <1>2 DEF Stale
<1>8. fd[c]["in"] # None => fd[c]["in"] \in Fd /\ owner[fd[c]["in"]] = c
  BY <1>2, <1>7 DEF TypeOK, Side, DescriptorsAgree, FieldsAreOpen
<1>9. SidesDiffer'
  BY <1>1, <1>2, <1>3, <1>8 DEF SidesDiffer, TypeOK
<1>10. FieldsAreOpen'
  <2> SUFFICES ASSUME NEW d \in heap, NEW s \in Side, fd'[d][s] # None, ~Stale(d, s)
               PROVE  owner'[fd'[d][s]] = d
    BY <1>2, <1>6 DEF FieldsAreOpen
  <2>1. CASE d = c
    BY <2>1, <1>1, <1>3, <1>8 DEF Side
  <2>2. CASE d # c
    <3>1. d \in Conn /\ fd'[d][s] = fd[d][s] /\ fd[d][s] \in Fd
      BY <2>2, <1>3 DEF TypeOK
    <3>2. owner[fd[d][s]] = d
      BY <3>1 DEF DescriptorsAgree, FieldsAreOpen
    <3>3. QED
      BY <3>1, <3>2, <1>1, <1>3
  <2>3. QED
    BY <2>1, <2>2
<1>11. NoSocketLeaked'
  <2> SUFFICES ASSUME NEW g \in Fd, owner'[g] # None
               PROVE  owner'[g] \in heap /\ \E s \in Side : fd'[owner'[g]][s] = g
    BY <1>2 DEF NoSocketLeaked
  <2>1. CASE g = f
    BY <2>1, <1>2, <1>3 DEF Side
  <2>2. CASE g # f
    <3>1. PICK s \in Side : owner[g] \in heap /\ owner[g] \in Conn /\ fd[owner[g]][s] = g
      BY <2>2, <1>3 DEF DescriptorsAgree, NoSocketLeaked, TypeOK
    <3>2. fd'[owner[g]][s] = g
      BY <3>1, <1>2, <1>3 DEF Side, TypeOK
    <3>3. QED
      BY <2>2, <3>1, <3>2, <1>3
  <2>3. QED
    BY <2>1, <2>2
<1>12. StaleIsClosed'
  <2> SUFFICES ASSUME NEW d \in heap, NEW s \in Side, fd'[d][s] # None, Stale(d, s)
               PROVE  owner'[fd'[d][s]] # d
    BY <1>2, <1>6 DEF StaleIsClosed
  <2>1. d # c /\ d \in Conn /\ fd'[d][s] = fd[d][s] /\ fd[d][s] \in Fd
    BY <1>3, <1>7 DEF TypeOK
  <2>2. QED
    BY <2>1, <1>3 DEF StaleIsClosed
<1>13. QED
  BY <1>4, <1>5, <1>9, <1>10, <1>11, <1>12 DEF DescriptorsAgree

\* service_thread_shutdown: end_time is written while the flag is still clear,
\* and takes the connection out of what a sweep under way may free.
LEMMA SetEndTimePreserves ==
  ASSUME IInv, NEW c \in Conn, SetEndTime(c)
  PROVE  IInv'
<1> USE LoiterAssumption DEF IInv, mainVars, files
<1>1. /\ Moves(c, "end time", "flag")
      /\ age' = [age EXCEPT ![c] = 0] /\ due' = due \ {c}
      /\ UNCHANGED <<pc, errno, revents, todo, backlog, heap, exited, fd, owner>>
  BY DEF SetEndTime
<1>2. /\ c \in heap /\ c \notin exited /\ worker' \in [Conn -> Idle \cup Working]
      /\ worker[c] = "end time" /\ worker'[c] = "flag"
      /\ \A d \in Conn \ {c} : worker'[d] = worker[d]
  BY <1>1, MoveFacts DEF Working
<1>3. TypeOK'
  <2>1. 0 \in 0..(Loiter + 1) /\ age \in [Conn -> 0..(Loiter + 1)]
    BY DEF TypeOK
  <2>2. age' \in [Conn -> 0..(Loiter + 1)]
    BY <2>1, <1>1
  <2>3. QED
    BY <2>2, <1>1, <1>2 DEF TypeOK
<1>4. NoUseAfterFree' /\ ExitedIsGone' /\ SidesDiffer' /\ (todo \subseteq heap)'
  BY <1>1, <1>2 DEF NoUseAfterFree, ExitedIsGone, SidesDiffer, TypeOK
<1>5. DueIsOld' /\ ReadableIsQueued'
  BY <1>1 DEF DueIsOld, ReadableIsQueued, TypeOK
<1>6. \A d \in heap, t \in Side : Stale(d, t)' <=> Stale(d, t)
  BY <1>2 DEF Stale, TypeOK
<1>7. DescriptorsAgree' /\ StaleIsClosed'
  BY <1>1, <1>6 DEF DescriptorsAgree, FieldsAreOpen, NoSocketLeaked, StaleIsClosed
<1>8. QED
  BY <1>3, <1>4, <1>5, <1>7

\* The flag is the last write: the thread is gone, and both fields are -1 or
\* the connection's own.
LEMMA SetExitedPreserves ==
  ASSUME IInv, NEW c \in Conn, SetExited(c)
  PROVE  IInv'
<1> USE DEF IInv, mainVars, files
<1>1. /\ Moves(c, "flag", "gone") /\ exited' = exited \cup {c}
      /\ UNCHANGED <<pc, errno, revents, todo, backlog, heap, age, due, fd, owner>>
  BY DEF SetExited
<1>2. /\ c \in heap /\ worker' \in [Conn -> Idle \cup Working]
      /\ worker[c] = "flag" /\ worker'[c] = "gone"
      /\ \A d \in Conn \ {c} : worker'[d] = worker[d]
  BY <1>1, MoveFacts DEF Working
<1>3. TypeOK'
  BY <1>1, <1>2 DEF TypeOK
<1>4. NoUseAfterFree' /\ ExitedIsGone' /\ SidesDiffer' /\ (todo \subseteq heap)'
  BY <1>1, <1>2 DEF NoUseAfterFree, ExitedIsGone, SidesDiffer, TypeOK, Idle, Working
<1>5. DueIsOld' /\ ReadableIsQueued'
  BY <1>1 DEF DueIsOld, ReadableIsQueued
<1>6. \A d \in heap, t \in Side : Stale(d, t)' <=> Stale(d, t)
  BY <1>2 DEF Stale, TypeOK
<1>7. DescriptorsAgree' /\ StaleIsClosed'
  BY <1>1, <1>6 DEF DescriptorsAgree, FieldsAreOpen, NoSocketLeaked, StaleIsClosed
<1>8. QED
  BY <1>3, <1>4, <1>5, <1>7

\* Every step of a connection thread is one of the above.
LEMMA ThreadPreserves ==
  ASSUME IInv, NEW c \in Conn, Thread(c)
  PROVE  IInv'
<1> USE DEF Working
<1>1. \A p \in Working, q \in Working : Moves(c, p, q) => worker[c] = p /\ worker'[c] = q
  BY DEF IInv, TypeOK, Moves
<1> USE DEF Stale, Side
<1>2. CASE OpenOut(c)
  BY <1>2, OpenOutPreserves
<1>3. CASE AttemptFails(c)
  <2>1. CASE Close(c, "out", "connect", "attempt failed")
    BY <2>1, <1>1, ClosePreserves DEF Close
  <2>2. CASE Clear(c, "out", "attempt failed", "connect")
    BY <2>2, <1>1, ClearPreserves DEF Clear
  <2>3. QED
    BY <1>3, <2>1, <2>2 DEF AttemptFails
<1>4. CASE Proceed(c)
  BY <1>4, <1>1, GoOnPreserves DEF Proceed
<1>5. CASE ShuttleEnds(c)
  <2>1. CASE Close(c, "in", "shuttle", "in ended")
    BY <2>1, <1>1, ClosePreserves DEF Close
  <2>2. CASE Clear(c, "in", "in ended", "half")
    BY <2>2, <1>1, ClearPreserves DEF Clear
  <2>3. ASSUME NEW from \in {"shuttle", "half"}, Close(c, "out", from, "out ended")
        PROVE  IInv'
    BY <2>3, <1>1, ClosePreserves DEF Close
  <2>4. CASE Clear(c, "out", "out ended", "close in")
    BY <2>4, <1>1, ClearPreserves DEF Clear
  <2>5. ASSUME NEW from \in {"shuttle", "half"}, Moves(c, from, "close in"),
               UNCHANGED <<mainVars, backlog, objects, files>>
        PROVE  IInv'
    BY <2>5, <1>1, GoOnPreserves
  <2>6. QED
    BY <1>5, <2>1, <2>2, <2>3, <2>4, <2>5 DEF ShuttleEnds
<1>6. CASE Shutdown(c)
  <2>1. CASE SafeClose(c, "in", "close in", "clear in")
    <3>1. CASE Close(c, "in", "close in", "clear in")
      BY <3>1, <1>1, ClosePreserves DEF Close
    <3>2. CASE fd[c]["in"] = None /\ Moves(c, "close in", "clear in") /\ UNCHANGED <<mainVars, backlog, objects, files>>
      BY <3>2, <1>1, GoOnPreserves
    <3>3. QED
      BY <2>1, <3>1, <3>2 DEF SafeClose
  <2>2. CASE Clear(c, "in", "clear in", "close out")
    BY <2>2, <1>1, ClearPreserves DEF Clear
  <2>3. CASE SafeClose(c, "out", "close out", "clear out")
    <3>1. CASE Close(c, "out", "close out", "clear out")
      BY <3>1, <1>1, ClosePreserves DEF Close
    <3>2. CASE fd[c]["out"] = None /\ Moves(c, "close out", "clear out") /\ UNCHANGED <<mainVars, backlog, objects, files>>
      BY <3>2, <1>1, GoOnPreserves
    <3>3. QED
      BY <2>3, <3>1, <3>2 DEF SafeClose
  <2>4. CASE Clear(c, "out", "clear out", "end time")
    BY <2>4, <1>1, ClearPreserves DEF Clear
  <2>5. QED
    BY <1>6, <2>1, <2>2, <2>3, <2>4 DEF Shutdown
<1>7. CASE SetEndTime(c)
  BY <1>7, SetEndTimePreserves
<1>8. CASE SetExited(c)
  BY <1>8, SetExitedPreserves
<1>9. QED
  BY <1>2, <1>3, <1>4, <1>5, <1>6, <1>7, <1>8 DEF Thread

LEMMA NextPreserves == IInv /\ [Next]_vars => IInv'
<1> SUFFICES ASSUME IInv, [Next]_vars PROVE IInv'
  OBVIOUS
<1>1. CASE \/ Arrive \/ Tick \/ Poll \/ PollFails \/ NothingToAccept \/ AcceptFails
           \/ StartSweep \/ EndSweep \/ CheckTunnels \/ RotateLogs
  BY <1>1, StagePreserves
<1>2. ASSUME NEW c \in Conn, NEW f \in Fd, Launch(c, f) \/ LaunchFails(c, f) PROVE IInv'
  BY <1>2, AcceptPreserves
<1>3. ASSUME NEW c \in Conn, Visit(c) PROVE IInv'
  BY <1>3, FreePreserves, KeepPreserves
<1>4. ASSUME NEW c \in Conn, Thread(c) PROVE IInv'
  BY <1>4, ThreadPreserves
<1>5. CASE UNCHANGED vars
  <2>1. SafeInv'
    BY <1>5, Untouched DEF SafeInv, IInv, vars, mainVars, objects, files
  <2>2. TypeOK' /\ DueIsOld' /\ ReadableIsQueued'
    BY <1>5 DEF IInv, vars, mainVars, objects, files, TypeOK, DueIsOld, ReadableIsQueued
  <2>3. QED
    BY <2>1, <2>2 DEF SafeInv, IInv
<1>6. QED
  BY <1>1, <1>2, <1>3, <1>4, <1>5 DEF Next, MainThread

\* The inductive invariant holds in every reachable state.
THEOREM Invariance == Spec => []IInv
BY InitEstablishes, NextPreserves, PTL DEF Spec

-----------------------------------------------------------------------------
\* Every variable of main loop and threads has its type.
THEOREM TypeCorrect == Spec => []TypeOK
<1>1. IInv => TypeOK
  BY DEF IInv
<1>2. QED
  BY <1>1, Invariance, PTL

\* cleanup_connections never frees the object of a running thread.
THEOREM ObjectOutlivesThread == Spec => []NoUseAfterFree
<1>1. IInv => NoUseAfterFree
  BY DEF IInv
<1>2. QED
  BY <1>1, Invariance, PTL

\* No close() hits another connection's socket, and no socket is leaked.
THEOREM DescriptorsAlwaysAgree == Spec => []DescriptorsAgree
<1>1. IInv => DescriptorsAgree
  BY DEF IInv
<1>2. QED
  BY <1>1, Invariance, PTL

\* A connection is freed only after its loiter time.
THEOREM LoiterIsRespected == Spec => LoiterRespected
<1>1. IInv /\ [Next]_vars => LoiterStep
  <2> SUFFICES ASSUME IInv, [Next]_vars, NEW c \in heap \ heap' PROVE age[c] > Loiter
    BY DEF LoiterStep
  <2>1. CASE \E d \in Conn : Visit(d)
    <3>1. PICK d \in Conn : Visit(d)
      BY <2>1
    <3>2. c = d /\ Expired(d)
      BY <3>1 DEF Visit, Free
    <3>3. QED
      BY <3>2 DEF Expired, IInv, DueIsOld
  <2>2. CASE \E d \in Conn : Thread(d)
    BY <2>2 DEF Thread, OpenOut, AttemptFails, Proceed, ShuttleEnds, Shutdown, SafeClose, Close, Clear,
                SetEndTime, SetExited, objects
  <2>3. CASE \E d \in Conn, f \in Fd : Launch(d, f) \/ LaunchFails(d, f)
    BY <2>3 DEF Launch, LaunchFails, NewConnection
  <2>4. CASE \/ Arrive \/ Tick \/ Poll \/ PollFails \/ NothingToAccept \/ AcceptFails
             \/ StartSweep \/ EndSweep \/ CheckTunnels \/ RotateLogs \/ UNCHANGED vars
    BY <2>4 DEF Arrive, Tick, Poll, PollFails, NothingToAccept, AcceptFails, StartSweep, EndSweep,
                CheckTunnels, RotateLogs, vars, objects
  <2>5. QED
    BY <2>1, <2>2, <2>3, <2>4 DEF Next, MainThread
<1>2. QED
  BY <1>1, Invariance, PTL DEF Spec, LoiterRespected

-----------------------------------------------------------------------------
\* The objects, seen as the set of ConnectionPool.

LEMMA StepRefines == IInv /\ [Next]_vars => [Pool!Next]_(Pool!vars)
<1> SUFFICES ASSUME IInv, [Next]_vars PROVE [Pool!Next]_(Pool!vars)
  OBVIOUS
<1> USE DEF Pool!Next, Pool!vars, Reclaimable
<1>1. ASSUME NEW c \in Conn, NEW f \in Fd, Launch(c, f) \/ LaunchFails(c, f) PROVE Pool!Join(c)
  <2>1. /\ c \notin heap /\ heap' = heap \cup {c} /\ age' = [age EXCEPT ![c] = Loiter + 1]
        /\ exited' \in {exited \ {c}, exited \cup {c}}
    BY <1>1 DEF Launch, LaunchFails, NewConnection
  <2>2. \A d \in heap : d # c /\ age'[d] = age[d] /\ (d \in exited' <=> d \in exited)
    BY <2>1 DEF IInv, TypeOK
  <2>3. Reclaimable' \in {Reclaimable, Reclaimable \cup {c}}
    <3>1. \A d \in heap : d \in Reclaimable' <=> d \in Reclaimable
      BY <2>1, <2>2
    <3>2. Reclaimable' \subseteq heap \cup {c} /\ Reclaimable \subseteq heap
      BY <2>1
    <3> QED
      BY <3>1, <3>2
  <2> QED
    BY <2>1, <2>3 DEF Pool!Join
<1>2. ASSUME NEW c \in Conn, Visit(c), Expired(c) PROVE Pool!Reclaim(c)
  <2>1. c \in heap /\ heap' = heap \ {c} /\ UNCHANGED <<exited, age>>
    BY <1>2 DEF Visit, Free, IInv
  <2>2. c \in Reclaimable
    BY <1>2, <2>1 DEF Expired, IInv, DueIsOld
  <2> QED
    BY <2>1, <2>2 DEF Pool!Reclaim
<1>3. ASSUME NEW c \in Conn, Visit(c), ~Expired(c) PROVE UNCHANGED <<heap, Reclaimable>>
  BY <1>3 DEF Visit
<1>4. CASE Tick
  <2>1. \A c \in heap : age[c] > Loiter => age'[c] > Loiter
    BY <1>4, LoiterAssumption DEF Tick, IInv, TypeOK
  <2>2. Pool!Expire
    BY <1>4, <2>1 DEF Tick, Pool!Expire
  <2> QED
    BY <2>2
<1>5. ASSUME NEW c \in Conn, SetExited(c) PROVE Pool!Expire
  BY <1>5 DEF SetExited, Moves, Pool!Expire, IInv, NoUseAfterFree, Working
<1>6. ASSUME NEW c \in Conn, SetEndTime(c) PROVE UNCHANGED <<heap, Reclaimable>>
  <2>1. c \notin exited \/ c \notin heap
    BY <1>6 DEF SetEndTime, Moves, IInv, ExitedIsGone, Idle
  <2> QED
    BY <1>6, <2>1 DEF SetEndTime, IInv, TypeOK
<1>7. ASSUME NEW c \in Conn, OpenOut(c) \/ AttemptFails(c) \/ Proceed(c) \/ ShuttleEnds(c) \/ Shutdown(c)
      PROVE  UNCHANGED <<heap, Reclaimable>>
  BY <1>7 DEF OpenOut, AttemptFails, Proceed, ShuttleEnds, Shutdown, SafeClose, Close, Clear, objects
<1>8. CASE \/ Arrive \/ Poll \/ PollFails \/ NothingToAccept \/ AcceptFails
           \/ StartSweep \/ EndSweep \/ CheckTunnels \/ RotateLogs \/ UNCHANGED vars
  BY <1>8 DEF Arrive, Poll, PollFails, NothingToAccept, AcceptFails, StartSweep, EndSweep,
              CheckTunnels, RotateLogs, vars, objects
<1> QED
  BY <1>1, <1>2, <1>3, <1>4, <1>5, <1>6, <1>7, <1>8 DEF Next, MainThread, Thread

\* The life of the objects is that of the connections of ConnectionPool, which
\* the linked list implements: what cleanup_connections frees is reclaimable,
\* and nothing else ever leaves.
THEOREM PoolIsImplemented == Spec => ImplementsPool
<1>1. Init => Pool!Init
  BY DEF Init, Pool!Init, Reclaimable
<1> QED
  BY <1>1, StepRefines, Invariance, PTL DEF Spec, ImplementsPool, Pool!Safety

-----------------------------------------------------------------------------
\* How far the main thread is from freeing a reclaimable connection.

Phase(c) ==
    CASE pc = "sweep" /\ c \in todo \cap due -> 0
      [] pc = "clock"                        -> 1
      [] pc = "accept"                       -> 2
      [] pc = "poll"                         -> 3
      [] pc = "rotate"                       -> 4
      [] pc = "tunnels"                      -> 5
      [] OTHER                               -> 6
Left(c) == <<Phase(c), IF pc = "sweep" THEN Cardinality(todo) ELSE 0>>
Less(m, n) == m[1] < n[1] \/ (m[1] = n[1] /\ m[2] < n[2])

Approaches ==
    \A c \in Reclaimable : c \in heap' =>
        /\ c \in Reclaimable'
        /\ MainThread => Less(Left(c)', Left(c)) \/ Caught'
        /\ ~MainThread => Left(c)' = Left(c)

LEMMA TodoCount == IInv => IsFiniteSet(todo) /\ Cardinality(todo) \in Nat
BY FinitenessAssumption, FS_Subset, FS_CardinalityType DEF IInv, TypeOK

\* A connection that is reclaimable stays so until it is freed.
LEMMA StaysReclaimable ==
    ASSUME IInv, [Next]_vars, NEW c \in Reclaimable, c \in heap'
    PROVE  c \in Reclaimable'
<1> USE DEF Reclaimable
<1>0. c \in heap /\ c \in exited /\ c \in Conn /\ age[c] > Loiter /\ worker[c] \in Idle
  BY DEF IInv, TypeOK, ExitedIsGone
<1>1. ASSUME NEW d \in Conn, NEW f \in Fd, Launch(d, f) \/ LaunchFails(d, f) PROVE c \in Reclaimable'
  BY <1>0, <1>1 DEF Launch, LaunchFails, NewConnection, IInv, TypeOK
<1>2. CASE Tick
  BY <1>0, <1>2, LoiterAssumption DEF Tick, IInv, TypeOK
<1>3. ASSUME NEW d \in Conn, Visit(d) PROVE c \in Reclaimable'
  BY <1>0, <1>3 DEF Visit
<1>4. ASSUME NEW d \in Conn, Thread(d) PROVE c \in Reclaimable'
  <2>1. CASE SetEndTime(d)
    BY <1>0, <2>1 DEF SetEndTime, Moves, Idle, IInv, TypeOK
  <2>2. CASE SetExited(d)
    BY <1>0, <2>2 DEF SetExited
  <2> QED
    BY <1>0, <1>4, <2>1, <2>2
       DEF Thread, OpenOut, AttemptFails, Proceed, ShuttleEnds, Shutdown, SafeClose, Close, Clear, objects
<1>5. CASE \/ Arrive \/ Poll \/ PollFails \/ NothingToAccept \/ AcceptFails
           \/ StartSweep \/ EndSweep \/ CheckTunnels \/ RotateLogs \/ UNCHANGED vars
  BY <1>0, <1>5 DEF Arrive, Poll, PollFails, NothingToAccept, AcceptFails, StartSweep, EndSweep,
              CheckTunnels, RotateLogs, vars, objects
<1> QED
  BY <1>1, <1>2, <1>3, <1>4, <1>5 DEF Next, MainThread

\* The main thread gets nearer, or is caught in the loop around poll().
LEMMA MainApproaches ==
    ASSUME IInv, MainThread, NEW c \in Reclaimable, c \in heap'
    PROVE  Less(Left(c)', Left(c)) \/ Caught'
<1> USE DEF Less, Left, Phase
<1>0. c \in heap /\ c \in exited /\ age[c] > Loiter
  BY DEF Reclaimable
<1>1. CASE Poll
  BY <1>1 DEF Poll
<1>2. CASE PollFails
  BY <1>2 DEF PollFails, Caught
<1>3. CASE NothingToAccept \/ AcceptFails
  BY <1>3 DEF NothingToAccept, AcceptFails
<1>4. ASSUME NEW d \in Conn, NEW f \in Fd, Launch(d, f) \/ LaunchFails(d, f)
      PROVE  Less(Left(c)', Left(c))
  BY <1>4 DEF Launch, LaunchFails, NewConnection
<1>5. CASE StartSweep
  BY <1>0, <1>5 DEF StartSweep
<1>6. ASSUME NEW d \in Conn, Visit(d) PROVE Less(Left(c)', Left(c))
  <2>1. IsFiniteSet(todo) /\ Cardinality(todo) \in Nat /\ d \in todo
    BY <1>6, TodoCount DEF Visit
  <2>2. Cardinality(todo') = Cardinality(todo) - 1
    BY <1>6, <2>1, FS_RemoveElement DEF Visit
  <2>3. pc = "sweep" /\ pc' = "sweep" /\ due' = due /\ todo' = todo \ {d}
    BY <1>6 DEF Visit
  <2>4. c = d => c \notin due
    BY <1>0, <1>6 DEF Visit, Expired, Free
  <2>5. Phase(c)' = Phase(c)
    BY <2>3, <2>4
  <2> QED
    BY <2>1, <2>2, <2>3, <2>5
<1>7. CASE EndSweep
  BY <1>7 DEF EndSweep
<1>8. CASE CheckTunnels \/ RotateLogs
  BY <1>8 DEF CheckTunnels, RotateLogs
<1> QED
  BY <1>1, <1>2, <1>3, <1>4, <1>5, <1>6, <1>7, <1>8 DEF MainThread

\* Nobody else moves the main thread away from it.
LEMMA OthersKeepDistance ==
    ASSUME IInv, [Next]_vars, ~MainThread, NEW c \in Reclaimable
    PROVE  Left(c)' = Left(c)
<1>1. c \in heap /\ c \in exited /\ worker[c] \in Idle
  BY DEF Reclaimable, IInv, ExitedIsGone
<1>2. UNCHANGED <<pc, todo>> /\ (c \in due' <=> c \in due)
  <2>1. CASE Arrive \/ Tick \/ UNCHANGED vars
    BY <2>1 DEF Arrive, Tick, vars, mainVars, objects
  <2>2. ASSUME NEW d \in Conn, Thread(d) PROVE UNCHANGED <<pc, todo>> /\ (c \in due' <=> c \in due)
    <3>1. CASE SetEndTime(d)
      BY <1>1, <3>1 DEF SetEndTime, Moves, Idle, mainVars
    <3> QED
      BY <2>2, <3>1 DEF Thread, OpenOut, AttemptFails, Proceed, ShuttleEnds, Shutdown, SafeClose, Close, Clear,
                        SetExited, mainVars, objects
  <2> QED
    BY <2>1, <2>2 DEF Next
<1> QED
  BY <1>2 DEF Left, Phase

(* server.c, "just wake up periodically and reap dead threads": every step *)
(* of the main thread brings a reclaimable connection nearer to its end,   *)
(* unless the loop is caught in its poll() by an errno of EAGAIN, and no   *)
(* step of anybody else takes it away again.  What is left is a pair of    *)
(* natural numbers that gets smaller in lexicographic order.               *)
THEOREM ReapingApproaches ==
    Spec => [](\A c \in Reclaimable : Left(c) \in Nat \X Nat) /\ [][Approaches]_vars
<1>1. IInv => \A c \in Reclaimable : Left(c) \in Nat \X Nat
  BY TodoCount DEF Left, Phase
<1>2. IInv /\ [Next]_vars => Approaches
  BY StaysReclaimable, MainApproaches, OthersKeepDistance DEF Approaches
<1> QED
  BY <1>1, <1>2, Invariance, PTL DEF Spec
=============================================================================

------------------------------ MODULE MainLoop ------------------------------
(***************************************************************************)
(* The life of a client connection: the main loop of server.c accepts it,  *)
(* launches a detached thread for it and, some time after the thread has   *)
(* gone, closes what is left and frees the object.                         *)
(*                                                                         *)
(* Main thread and connection threads share the object without a join: the *)
(* only signal is the flag thread_has_exited, the last thing a thread      *)
(* writes.  They also share the process's descriptor table.  close() and   *)
(* the assignment of -1 that follows it are two steps, because the kernel  *)
(* may hand the number to somebody else between them.                      *)
(*                                                                         *)
(* The list that holds the objects is a set here (see ConnectionList);     *)
(* tunnels and status requests have modules of their own and appear only   *)
(* as what they may leave in the main thread's errno.                      *)
(***************************************************************************)
EXTENDS Integers, FiniteSets

CONSTANTS
    Conn,            \* addresses of connection objects
    Fd,              \* descriptors left for connections: a finite set
    None,            \* -1 in a descriptor field, nobody in the table
    Loiter,          \* CLOSED_CONNECTION_LOITER_TIME_S
    ForkErrors,      \* errno values of a failing fork or pthread_create
    MaxBacklog       \* bound: connections waiting in the kernel

ASSUME FinitenessAssumption == IsFiniteSet(Conn)
ASSUME LoiterAssumption == Loiter \in Nat
ASSUME NoneAssumption == None \notin Conn \cup Fd
ASSUME BacklogAssumption == MaxBacklog \in Nat

VARIABLES
    pc,              \* where the main thread is in its loop
    errno,           \* the main thread's errno
    backlog,         \* connections the kernel holds for accept()
    revents,         \* revents of the listening socket at the last poll()
    todo,            \* connections cleanup_connections has not visited yet
    due,             \* those with now - end_time > LOITER, for its "now"
    heap,            \* allocated connection objects
    exited,          \* connections with thread_has_exited set
    age,             \* seconds since end_time, up to Loiter + 1 (end_time = 0 is long ago)
    worker,          \* where each connection's thread is
    fd,              \* [Conn -> [Side -> Fd \cup {None}]], fd_in and fd_out
    owner            \* the kernel's table: the connection a descriptor is open for

mainVars == <<pc, errno, revents, todo>>
objects  == <<heap, exited, age, due>>
files    == <<fd, owner>>
vars     == <<mainVars, backlog, objects, worker, files>>

Side == {"in", "out"}
NoFds == [s \in Side |-> None]

\* A new descriptor is any free one: which number it is, is the kernel's choice.
FreeFds == {f \in Fd : owner[f] = None}

Init ==
    /\ pc = "poll" /\ errno = "none" /\ revents = {} /\ todo = {}
    /\ backlog = 0
    /\ heap = {} /\ due = {} /\ exited = {}
    /\ age = [c \in Conn |-> Loiter + 1]
    /\ worker = [c \in Conn |-> "none"]
    /\ fd = [c \in Conn |-> NoFds]
    /\ owner = [f \in Fd |-> None]

-----------------------------------------------------------------------------
\* The environment.

\* A client connects.  Bound: an object is left for every waiting connection.
Arrive ==
    /\ backlog < MaxBacklog
    /\ Cardinality(heap) + backlog < Cardinality(Conn)
    /\ backlog' = backlog + 1
    /\ UNCHANGED <<mainVars, objects, worker, files>>

\* A second passes.
Tick ==
    /\ \E c \in heap : age[c] <= Loiter
    /\ age' = [c \in Conn |-> IF age[c] <= Loiter THEN age[c] + 1 ELSE age[c]]
    /\ UNCHANGED <<mainVars, backlog, heap, exited, due, worker, files>>

-----------------------------------------------------------------------------
\* The main loop, one action per stage.

\* do poll() while (errno == EAGAIN): left only if errno is something else.
\* A successful poll() leaves errno as it was.
Poll ==
    /\ pc = "poll" /\ errno # "EAGAIN"
    /\ pc' = "accept" /\ revents' = IF backlog > 0 THEN {"POLLRDNORM"} ELSE {}
    /\ UNCHANGED <<errno, todo, backlog, objects, worker, files>>

\* poll() itself runs out of a kernel resource.
PollFails ==
    /\ pc = "poll" /\ "EAGAIN" \in ForkErrors
    /\ errno' = "EAGAIN"
    /\ UNCHANGED <<pc, revents, todo, backlog, objects, worker, files>>

AcceptAlways == TRUE    \* mutant: accept() without a look at revents
Readable == "POLLRDNORM" \in revents

NothingToAccept ==
    /\ pc = "accept" /\ ~Readable
    /\ pc' = "clock"
    /\ UNCHANGED <<errno, revents, todo, backlog, objects, worker, files>>

\* accept() fails for want of a descriptor; the connection stays queued.
AcceptFails ==
    /\ pc = "accept" /\ Readable /\ FreeFds = {}
    /\ pc' = "clock" /\ errno' = "EMFILE"
    /\ UNCHANGED <<revents, todo, backlog, objects, worker, files>>

\* accept_connection: a fresh object on the list, with the new socket.
NewConnection(c, f) ==
    /\ pc = "accept" /\ Readable
    /\ f \in FreeFds /\ c \notin heap
    /\ pc' = "clock"
    /\ backlog' = backlog - 1
    /\ heap' = heap \cup {c}
    /\ age' = [age EXCEPT ![c] = Loiter + 1]
    /\ fd' = [fd EXCEPT ![c] = [NoFds EXCEPT !["in"] = f]]
    /\ owner' = [owner EXCEPT ![f] = c]
    /\ UNCHANGED <<revents, todo, due>>

Launch(c, f) ==
    /\ NewConnection(c, f)
    /\ worker' = [worker EXCEPT ![c] = "connect"]
    /\ exited' = exited \ {c}
    /\ UNCHANGED errno

\* launch_thread could not create the thread: the object is dead at once.
LaunchFails(c, f) ==
    /\ NewConnection(c, f)
    /\ \E e \in ForkErrors : errno' = e
    /\ worker' = [worker EXCEPT ![c] = "none"]
    /\ exited' = exited \cup {c}

\* cleanup_connections reads the clock once and starts at the head.
StartSweep ==
    /\ pc = "clock"
    /\ pc' = "sweep" /\ todo' = heap
    /\ due' = {c \in heap : age[c] > Loiter}
    /\ UNCHANGED <<errno, revents, backlog, heap, exited, age, worker, files>>

FlagIgnored(c) == c \in due                  \* mutant
OnlyIfLaunched(c) ==                         \* mutant: overlooks failed launches
    c \in exited /\ c \in due /\ worker[c] = "gone"
Expired(c) == c \in exited /\ c \in due

\* free_client_connection closes the descriptors the object still holds.
Free(c) ==
    /\ heap' = heap \ {c}
    /\ owner' = [f \in Fd |-> IF \E s \in Side : fd[c][s] = f THEN None ELSE owner[f]]
    /\ fd' = [fd EXCEPT ![c] = NoFds]

Visit(c) ==
    /\ pc = "sweep" /\ c \in todo
    /\ todo' = todo \ {c}
    /\ IF Expired(c) THEN Free(c) ELSE UNCHANGED <<heap, files>>
    /\ UNCHANGED <<pc, errno, revents, backlog, exited, age, due, worker>>

EndSweep ==
    /\ pc = "sweep" /\ todo = {}
    /\ pc' = "tunnels"
    /\ UNCHANGED <<errno, revents, todo, backlog, objects, worker, files>>

\* check_ssh_tunnels may fork, and fail to.
CheckTunnels ==
    /\ pc = "tunnels"
    /\ pc' = "rotate" /\ errno' \in {errno} \cup ForkErrors
    /\ UNCHANGED <<revents, todo, backlog, objects, worker, files>>

\* log_file_rotate renames files that may not exist.
RotateLogs ==
    /\ pc = "rotate"
    /\ pc' = "poll" /\ errno' \in {errno, "ENOENT"}
    /\ UNCHANGED <<revents, todo, backlog, objects, worker, files>>

MainThread ==
    \/ Poll \/ PollFails
    \/ NothingToAccept \/ AcceptFails
    \/ \E c \in Conn, f \in Fd : Launch(c, f) \/ LaunchFails(c, f)
    \/ StartSweep \/ (\E c \in Conn : Visit(c)) \/ EndSweep
    \/ CheckTunnels \/ RotateLogs

-----------------------------------------------------------------------------
\* A connection's thread.

Moves(c, from, to) == worker[c] = from /\ worker' = [worker EXCEPT ![c] = to]

\* close(fd): the kernel forgets the number, the field still holds it.
Close(c, s, from, to) ==
    /\ Moves(c, from, to)
    /\ fd[c][s] # None
    /\ owner' = [owner EXCEPT ![fd[c][s]] = None]
    /\ UNCHANGED <<mainVars, backlog, objects, fd>>

NotCleared(c, s, from, to) ==       \* mutant: close() without fd = -1
    /\ Moves(c, from, to)
    /\ UNCHANGED <<mainVars, backlog, objects, files>>
Clear(c, s, from, to) ==
    /\ Moves(c, from, to)
    /\ fd' = [fd EXCEPT ![c][s] = None]
    /\ UNCHANGED <<mainVars, backlog, objects, owner>>

\* safe_close ignores a descriptor that is already -1.
SafeClose(c, s, from, to) ==
    \/ Close(c, s, from, to)
    \/ /\ fd[c][s] = None /\ Moves(c, from, to)
       /\ UNCHANGED <<mainVars, backlog, objects, files>>

\* connect_direct and connect_to_ssh_socks5_proxy create the outgoing socket.
OpenOut(c) ==
    /\ worker[c] = "connect" /\ fd[c]["out"] = None
    /\ \E f \in FreeFds : /\ fd' = [fd EXCEPT ![c]["out"] = f]
                          /\ owner' = [owner EXCEPT ![f] = c]
    /\ UNCHANGED <<mainVars, backlog, objects, worker>>

\* A failed attempt closes it again, and socks_connect tries the next tunnel.
AttemptFails(c) ==
    \/ Close(c, "out", "connect", "attempt failed")
    \/ Clear(c, "out", "attempt failed", "connect")

\* The handler goes on to shuttle data, or gives up.
Proceed(c) ==
    /\ Moves(c, "connect", "shuttle") \/ Moves(c, "connect", "close in")
    /\ UNCHANGED <<mainVars, backlog, objects, files>>

\* shuttle_data_back_and_forth closes the side that reached its end; both
\* sides may do so in one iteration, fd_in first.
ShuttleEnds(c) ==
    \/ Close(c, "in", "shuttle", "in ended")
    \/ Clear(c, "in", "in ended", "half")
    \/ \E from \in {"shuttle", "half"} : Close(c, "out", from, "out ended")
    \/ Clear(c, "out", "out ended", "close in")
    \/ /\ \E from \in {"shuttle", "half"} : Moves(c, from, "close in")
       /\ UNCHANGED <<mainVars, backlog, objects, files>>

\* service_thread_shutdown: both sides, then end_time, then the flag.
Shutdown(c) ==
    \/ SafeClose(c, "in", "close in", "clear in")
    \/ Clear(c, "in", "clear in", "close out")
    \/ SafeClose(c, "out", "close out", "clear out")
    \/ Clear(c, "out", "clear out", "end time")

SetEndTime(c) ==
    /\ Moves(c, "end time", "flag")
    /\ age' = [age EXCEPT ![c] = 0]
    /\ due' = due \ {c}
    /\ UNCHANGED <<mainVars, backlog, heap, exited, files>>

SetExited(c) ==
    /\ Moves(c, "flag", "gone")
    /\ exited' = exited \cup {c}
    /\ UNCHANGED <<mainVars, backlog, heap, age, due, files>>

Thread(c) == \/ OpenOut(c) \/ AttemptFails(c) \/ Proceed(c) \/ ShuttleEnds(c)
             \/ Shutdown(c) \/ SetEndTime(c) \/ SetExited(c)

Next == MainThread \/ Arrive \/ Tick \/ \E c \in Conn : Thread(c)

Spec == Init /\ [][Next]_vars

\* poll() has a timeout, so the main thread always runs on; and time passes.
FairSpec == Spec /\ WF_vars(MainThread) /\ WF_vars(Tick)

-----------------------------------------------------------------------------
Stages == {"poll", "accept", "clock", "sweep", "tunnels", "rotate"}
Idle == {"none", "gone"}
Working == {"connect", "attempt failed", "shuttle", "in ended", "half", "out ended",
            "close in", "clear in", "close out", "clear out", "end time", "flag"}

TypeOK ==
    /\ pc \in Stages
    /\ errno \in {"none", "EMFILE", "ENOENT", "EAGAIN"} \cup ForkErrors
    /\ backlog \in 0..MaxBacklog /\ revents \subseteq {"POLLRDNORM"}
    /\ heap \subseteq Conn /\ todo \subseteq Conn /\ due \subseteq Conn /\ exited \subseteq Conn
    /\ age \in [Conn -> 0..(Loiter + 1)]
    /\ worker \in [Conn -> Idle \cup Working]
    /\ fd \in [Conn -> [Side -> Fd \cup {None}]]
    /\ owner \in [Fd -> Conn \cup {None}]

(***************************************************************************)
(* The object outlives its thread: as long as a connection thread runs,    *)
(* the object it works on is allocated.  Nothing joins the threads; what   *)
(* keeps cleanup_connections from freeing an object in use is that         *)
(* thread_has_exited is the last thing service_thread_shutdown writes.     *)
(***************************************************************************)
NoUseAfterFree == \A c \in Conn : worker[c] \in Working => c \in heap

\* The window between a close() and the assignment of -1.
Stale(c, s) ==
    \/ s = "in" /\ worker[c] \in {"in ended", "clear in"}
    \/ s = "out" /\ worker[c] \in {"attempt failed", "out ended", "clear out"}

(***************************************************************************)
(* Descriptors and objects agree: outside that window every descriptor     *)
(* field names a descriptor that is open for this very connection, so no   *)
(* close() ever hits another connection's socket; and every open socket is *)
(* held by an allocated connection, so none is leaked.                     *)
(***************************************************************************)
FieldsAreOpen ==
    \A c \in heap, s \in Side :
        fd[c][s] # None /\ ~Stale(c, s) => owner[fd[c][s]] = c
NoSocketLeaked ==
    \A f \in Fd : owner[f] # None =>
        owner[f] \in heap /\ \E s \in Side : fd[owner[f]][s] = f
DescriptorsAgree == FieldsAreOpen /\ NoSocketLeaked

\* What NoUseAfterFree, DescriptorsAgree and LoiterRespected rest on.
ExitedIsGone == \A c \in heap \cap exited : worker[c] \in Idle
SidesDiffer == \A c \in heap : fd[c]["in"] # None => fd[c]["in"] # fd[c]["out"]
StaleIsClosed ==
    \A c \in heap, s \in Side : fd[c][s] # None /\ Stale(c, s) => owner[fd[c][s]] # c
DueIsOld == \A c \in due : age[c] > Loiter
ReadableIsQueued == pc = "accept" /\ revents # {} => backlog > 0
IInv ==
    /\ TypeOK /\ NoUseAfterFree /\ DescriptorsAgree
    /\ ExitedIsGone /\ SidesDiffer /\ StaleIsClosed /\ DueIsOld /\ ReadableIsQueued
    /\ todo \subseteq heap

(***************************************************************************)
(* A closed connection stays on the status page for the loiter time: it is *)
(* freed only when more than LOITER seconds have passed since its          *)
(* end_time, whatever moment of the sweep its thread exits at.             *)
(***************************************************************************)
LoiterStep == \A c \in heap \ heap' : age[c] > Loiter
LoiterRespected == [][LoiterStep]_vars

(***************************************************************************)
(* The objects are the set of connections of ConnectionPool, which the     *)
(* linked list implements as well: its "reclaimable" is what               *)
(* cleanup_connections tests, thread_has_exited and the loiter time.       *)
(***************************************************************************)
Reclaimable == {c \in heap \cap exited : age[c] > Loiter}
Pool == INSTANCE ConnectionPool WITH members <- heap, reclaimable <- Reclaimable
ImplementsPool == Pool!Safety

(***************************************************************************)
(* Dead threads are reaped (server.c, "just wake up periodically and reap  *)
(* dead threads"): a connection whose thread has exited is freed.          *)
(***************************************************************************)
Reaped == \A c \in Conn : (c \in heap /\ c \in exited) ~> (c \notin heap)

(***************************************************************************)
(* What holds of the code: dead threads are reaped unless the loop is      *)
(* caught in do { poll() } while (errno == EAGAIN), errno being a value    *)
(* that an earlier call left and that a successful poll() does not reset.  *)
(***************************************************************************)
Caught == pc = "poll" /\ errno = "EAGAIN"
ReapedUnlessCaught == Reaped \/ <>[]Caught
=============================================================================

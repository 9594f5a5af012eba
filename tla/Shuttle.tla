------------------------------ MODULE Shuttle -------------------------------
(***************************************************************************)
(* shuttle_data_back_and_forth (shuttle.c): one thread moves bytes between *)
(* the client's socket ("in") and the tunnel's ("out") with poll() and     *)
(* blocking reads and writes, until one of the two sides ends.             *)
(*                                                                         *)
(* Each peer sends numbered bytes, may shut down its sending half or reset *)
(* the connection at any moment, and reads what the proxy wrote to it from *)
(* a kernel buffer of Capacity bytes; a full one blocks the thread.  poll  *)
(* reports a snapshot; the thread acts on it side by side, so what it does *)
(* for "out" may rest on what was true before it served "in".              *)
(***************************************************************************)
EXTENDS Naturals, Sequences, FiniteSets

CONSTANTS
    MaxBytes,    \* bytes a peer may send (bound of the model)
    MaxRead,     \* the size of shuttle()'s buffer
    Capacity     \* bytes the kernel buffers towards a peer

ASSUME SizesAssumption == MaxBytes \in Nat /\ MaxRead \in Nat \ {0} /\ Capacity \in Nat \ {0}

Side == {"in", "out"}
Other(s) == IF s = "in" THEN "out" ELSE "in"

VARIABLES
    sent, fin, reset,     \* the peers: bytes sent; who has shut down, who has reset
    arrived,              \* [Side -> bytes of the peer the thread has not read]
    outgoing, got,        \* [Side -> bytes written to the peer: buffered, and received]
    pc,                   \* where the thread is
    readable, hup,        \* the snapshot of poll(): POLLRDNORM and POLLHUP
    canWrite,             \* in_can_write, out_can_write
    open,                 \* the sides whose descriptor is not -1
    going,                \* continue_loop
    buf, chunk,           \* what is still to write of the last read, and its length
    counted,              \* bytes_tx ("in") and bytes_rx ("out")
    written, dropped      \* history: bytes of a side passed on, and thrown away

peers == <<sent, fin, reset>>
sockets == <<arrived, outgoing, got>>
loop == <<readable, hup, canWrite, open, going>>
data == <<buf, chunk, counted, written, dropped>>
vars == <<peers, sockets, pc, loop, data>>

Zero == [s \in Side |-> 0]
Empty == [s \in Side |-> <<>>]

Init ==
    /\ sent = Zero /\ fin = {} /\ reset = {}
    /\ arrived = Empty /\ outgoing = Empty /\ got = Empty
    /\ pc = "poll" /\ readable = {} /\ hup = {}
    /\ canWrite = Side /\ open = Side /\ going = TRUE
    /\ buf = <<>> /\ chunk = 0 /\ counted = Zero /\ written = Zero /\ dropped = Zero

-----------------------------------------------------------------------------
\* The peers.

Send(s) ==
    /\ s \notin fin \cup reset /\ sent[s] < MaxBytes
    /\ sent' = [sent EXCEPT ![s] = @ + 1]
    /\ arrived' = [arrived EXCEPT ![s] = Append(@, <<s, sent[s] + 1>>)]
    /\ UNCHANGED <<fin, reset, outgoing, got, pc, loop, data>>

ShutDown(s) ==
    /\ s \notin fin \cup reset
    /\ fin' = fin \cup {s}
    /\ UNCHANGED <<sent, reset, sockets, pc, loop, data>>

Reset(s) ==
    /\ s \notin reset
    /\ reset' = reset \cup {s}
    /\ arrived' = [arrived EXCEPT ![s] = <<>>] /\ outgoing' = [outgoing EXCEPT ![s] = <<>>]
    /\ UNCHANGED <<sent, fin, got, pc, loop, data>>

Receive(s) ==
    /\ outgoing[s] # <<>>
    /\ got' = [got EXCEPT ![s] = Append(@, Head(outgoing[s]))]
    /\ outgoing' = [outgoing EXCEPT ![s] = Tail(@)]
    /\ UNCHANGED <<peers, arrived, pc, loop, data>>

-----------------------------------------------------------------------------
\* The thread.

After(s) == IF s = "in" THEN "out" ELSE "check"
Writing(s) == IF s = "in" THEN "writeIn" ELSE "writeOut"

\* poll(): whatever a read would not block on is readable; POLLHUP may come
\* with the peer's end of transmission, and stays known.
Poll ==
    /\ pc = "poll"
    /\ \E s \in Side : arrived[s] # <<>> \/ s \in fin \cup reset
    /\ readable' = {s \in Side : arrived[s] # <<>> \/ s \in fin \cup reset}
    /\ hup' \in SUBSET (fin \cup reset)
    /\ canWrite' = canWrite \ hup'
    /\ pc' = "in"
    /\ UNCHANGED <<peers, sockets, open, going, data>>

\* POLLERR or POLLNVAL, or poll() itself fails.
PollFails ==
    /\ pc = "poll" /\ reset # {}
    /\ pc' = "failed"
    /\ UNCHANGED <<peers, sockets, loop, data>>

NotReadable(s) ==
    /\ pc = s /\ s \notin readable
    /\ pc' = After(s)
    /\ UNCHANGED <<peers, sockets, loop, data>>

ReadFails(s) ==
    /\ pc = s /\ s \in readable /\ s \in reset
    /\ pc' = "failed"
    /\ UNCHANGED <<peers, sockets, loop, data>>

Ignored == going                                     \* mutant: the loop goes on after the end
Stops == FALSE

EndOfTransmission(s) ==
    /\ pc = s /\ s \in readable \ reset /\ arrived[s] = <<>>
    /\ going' = Stops /\ open' = open \ {s}
    /\ pc' = After(s)
    /\ UNCHANGED <<peers, sockets, readable, hup, canWrite, data>>

ReadSizes == 1..MaxRead
WrongFlag(s) == s \in canWrite /\ Other(s) \in open   \* mutant: the other side's flag
CanPass(s) == Other(s) \in canWrite \cap open         \* fd_write is not -1

ReadToPass(s) ==
    /\ pc = s /\ s \in readable \ reset /\ arrived[s] # <<>> /\ CanPass(s)
    /\ \E n \in ReadSizes :
          /\ n <= Len(arrived[s])
          /\ buf' = SubSeq(arrived[s], 1, n) /\ chunk' = n
          /\ arrived' = [arrived EXCEPT ![s] = SubSeq(@, n + 1, Len(@))]
    /\ pc' = Writing(s)
    /\ UNCHANGED <<peers, outgoing, got, loop, counted, written, dropped>>

ReadToDrain(s) ==
    /\ pc = s /\ s \in readable \ reset /\ arrived[s] # <<>> /\ ~CanPass(s)
    /\ \E n \in ReadSizes :
          /\ n <= Len(arrived[s])
          /\ arrived' = [arrived EXCEPT ![s] = SubSeq(@, n + 1, Len(@))]
          /\ counted' = [counted EXCEPT ![s] = @ + n]
          /\ dropped' = [dropped EXCEPT ![s] = @ + n]
    /\ pc' = After(s)
    /\ UNCHANGED <<peers, outgoing, got, loop, buf, chunk, written>>

\* write() takes as much as there is room for; the thread blocks until it is all out.
IndexKept == SubSeq(buf, 1, Len(buf) - 1)            \* mutant: index is not advanced
Unwritten == Tail(buf)
WriteSome(s) ==
    /\ pc = Writing(s) /\ buf # <<>> /\ Other(s) \notin reset
    /\ Len(outgoing[Other(s)]) < Capacity
    /\ outgoing' = [outgoing EXCEPT ![Other(s)] = Append(@, Head(buf))]
    /\ buf' = Unwritten
    /\ written' = [written EXCEPT ![s] = @ + 1]
    /\ UNCHANGED <<peers, arrived, got, pc, loop, chunk, counted, dropped>>

WriteFails(s) ==
    /\ pc = Writing(s) /\ buf # <<>> /\ Other(s) \in reset
    /\ pc' = "failed"
    /\ UNCHANGED <<peers, sockets, loop, data>>

Written(s) ==
    /\ pc = Writing(s) /\ buf = <<>>
    /\ counted' = [counted EXCEPT ![s] = @ + chunk]
    /\ pc' = After(s)
    /\ UNCHANGED <<peers, sockets, loop, buf, chunk, written, dropped>>

\* A side that has hung up and has nothing left to read ends the loop.
HungUpSide(s) == s \notin canWrite                    \* mutant: unread bytes do not count
Exhausted(s) == s \notin canWrite /\ s \notin readable

Check ==
    /\ pc = "check"
    /\ going' = (going /\ \A s \in Side : ~Exhausted(s))
    /\ pc' = IF going' THEN "poll" ELSE "done"
    /\ UNCHANGED <<peers, sockets, readable, hup, canWrite, open, data>>

ThreadSide(s) ==
    \/ NotReadable(s) \/ ReadFails(s) \/ EndOfTransmission(s)
    \/ ReadToPass(s) \/ ReadToDrain(s)
    \/ WriteSome(s) \/ WriteFails(s) \/ Written(s)

Thread == Poll \/ PollFails \/ Check \/ \E s \in Side : ThreadSide(s)

Finished ==
    /\ pc \in {"done", "failed"} /\ outgoing = Empty
    /\ UNCHANGED vars

Next ==
    \/ Thread \/ Finished
    \/ \E s \in Side : Send(s) \/ ShutDown(s) \/ Reset(s) \/ Receive(s)

Spec == Init /\ [][Next]_vars

\* The thread runs, and the peers read what they are sent.  Nothing makes
\* them send, shut down or reset.
FairSpec == Spec /\ WF_vars(Thread) /\ \A s \in Side : WF_vars(Receive(s))

-----------------------------------------------------------------------------
Bytes == Seq(Side \X (1..MaxBytes))

TypeOK ==
    /\ sent \in [Side -> 0..MaxBytes] /\ fin \subseteq Side /\ reset \subseteq Side
    /\ arrived \in [Side -> Bytes] /\ outgoing \in [Side -> Bytes] /\ got \in [Side -> Bytes]
    /\ \A s \in Side : Len(outgoing[s]) <= Capacity
    /\ pc \in Side \cup {"poll", "writeIn", "writeOut", "check", "done", "failed"}
    /\ readable \subseteq Side /\ hup \subseteq Side
    /\ canWrite \subseteq Side /\ open \subseteq Side /\ going \in BOOLEAN
    /\ buf \in Bytes /\ Len(buf) <= chunk /\ chunk \in 0..MaxRead
    /\ counted \in [Side -> Nat] /\ written \in [Side -> Nat] /\ dropped \in [Side -> Nat]

(***************************************************************************)
(* What a peer receives is what the other one sent, from the first byte    *)
(* on, in order and without a gap, however reads and writes are split and  *)
(* whatever was thrown away: nothing follows bytes that were dropped.      *)
(***************************************************************************)
InOrder ==
    \A s \in Side : LET stream == got[s] \o outgoing[s] IN
        \A i \in DOMAIN stream : stream[i] = <<Other(s), i>>

(***************************************************************************)
(* Bytes are thrown away only when nobody can want them: their receiver    *)
(* has shut its side down, or reset it.                                    *)
(***************************************************************************)
LossOnlyToHungUp == \A s \in Side : dropped[s] > 0 => Other(s) \in fin \cup reset

(***************************************************************************)
(* If one peer shuts down and the other never does, all that peer sent has *)
(* been passed on when the loop ends, the last chunks before POLLHUP and   *)
(* before the end of transmission included, and the status page's count    *)
(* of it is right.                                                         *)
(***************************************************************************)
OrderlyEndIsComplete ==
    \A s \in Side : pc = "done" /\ fin = {s} /\ reset = {} =>
        written[s] = sent[s] /\ counted[s] = sent[s]

(***************************************************************************)
(* A peer that shuts down ends the thread -- the connection is not held    *)
(* open for ever -- if only the other one reads what is written to it.     *)
(***************************************************************************)
ShutDownEndsThread == \A s \in Side : s \in fin ~> pc \in {"done", "failed"}
=============================================================================

--------------------------- MODULE ShuttleProofs ----------------------------
(***************************************************************************)
(* Proofs about Shuttle for any number of bytes, any size of the thread's  *)
(* buffer and of the kernel's.                                             *)
(*                                                                         *)
(* The argument: every byte of a side is in one place -- unread, in the    *)
(* thread's buffer, written or dropped -- and its number is its place in   *)
(* that order.  Once a byte was dropped the other side can never be        *)
(* written to again, so what was written has no gap.                       *)
(***************************************************************************)
EXTENDS Shuttle, TLAPS

\* Where the bytes of side s are.
Pending(s) == IF pc = Writing(s) THEN Len(buf) ELSE 0
Taken(s) == written[s] + dropped[s] + Pending(s)

\* The bytes of q are those of side s that follow its first n.
Numbered(q, s, n) == \A i \in 1 .. Len(q) : q[i] = <<s, n + i>>

Accounted(s) == pc # "failed" /\ s \notin reset => sent[s] = Taken(s) + Len(arrived[s])
Unread(s) == pc # "failed" => Numbered(arrived[s], s, Taken(s))
InHand(s) == pc = Writing(s) => dropped[s] = 0 /\ Numbered(buf, s, written[s])
Position(s) == Other(s) \notin reset => written[s] = Len(got[Other(s)]) + Len(outgoing[Other(s)])
Buffered(s) == Numbered(outgoing[Other(s)], s, Len(got[Other(s)]))
Received(s) == Numbered(got[Other(s)], s, 0)
Counted(s) == pc # "failed" => Taken(s) = counted[s] + (IF pc = Writing(s) THEN chunk ELSE 0)
Stream(s) ==
    /\ Accounted(s) /\ Unread(s) /\ InHand(s) /\ Position(s)
    /\ Buffered(s) /\ Received(s) /\ Counted(s)

\* What the thread knows of a side.
NoneWritten(s) == dropped[s] > 0 => ~CanPass(s)
HungUp(s) == s \notin canWrite \cap open => s \in fin \cup reset
Drained(s) == s \notin open => arrived[s] = <<>>
BeforeTurn(s) == IF s = "in" THEN {"in"} ELSE {"in", "writeIn", "out"}
Snapshot(s) == pc \in BeforeTurn(s) /\ s \in readable => arrived[s] # <<>> \/ s \in fin \cup reset
Told(s) == pc \notin {"poll", "done", "failed"} /\ s \notin canWrite => s \in readable
Ended == (~going \/ pc = "done") => open # Side
Knowledge(s) == NoneWritten(s) /\ HungUp(s) /\ Drained(s) /\ Snapshot(s) /\ Told(s)

IInv == TypeOK /\ Ended /\ \A s \in Side : Stream(s) /\ Knowledge(s)

-----------------------------------------------------------------------------
\* The parts of a sequence the thread and the kernel take from it.
LEMMA CutOf ==
    ASSUME NEW S, NEW q \in Seq(S), NEW n \in 1 .. Len(q)
    PROVE  /\ SubSeq(q, 1, n) \in Seq(S) /\ Len(SubSeq(q, 1, n)) = n
           /\ \A i \in 1 .. n : SubSeq(q, 1, n)[i] = q[i]
           /\ SubSeq(q, n + 1, Len(q)) \in Seq(S) /\ Len(SubSeq(q, n + 1, Len(q))) = Len(q) - n
           /\ \A i \in 1 .. Len(q) - n : SubSeq(q, n + 1, Len(q))[i] = q[n + i]
<1>1. Len(q) \in Nat /\ \A i \in 1 .. Len(q) : q[i] \in S
  OBVIOUS
<1>2. SubSeq(q, 1, n) \in Seq(S) /\ Len(SubSeq(q, 1, n)) = n /\ \A i \in 1 .. n : SubSeq(q, 1, n)[i] = q[i]
  BY <1>1
<1>3. SubSeq(q, n + 1, Len(q)) \in Seq(S) /\ Len(SubSeq(q, n + 1, Len(q))) = Len(q) - n
      /\ \A i \in 1 .. Len(q) - n : SubSeq(q, n + 1, Len(q))[i] = q[n + i]
  BY <1>1
<1> QED
  BY <1>2, <1>3

LEMMA FirstOf ==
    ASSUME NEW S, NEW q \in Seq(S), q # <<>>
    PROVE  /\ Len(q) \in Nat \ {0} /\ Head(q) = q[1] /\ Head(q) \in S
           /\ Tail(q) \in Seq(S) /\ Len(Tail(q)) = Len(q) - 1
           /\ \A i \in 1 .. Len(q) - 1 : Tail(q)[i] = q[i + 1]
OBVIOUS

LEMMA LastOf ==
    ASSUME NEW S, NEW q \in Seq(S), NEW e \in S
    PROVE  /\ Append(q, e) \in Seq(S) /\ Len(Append(q, e)) = Len(q) + 1 /\ Len(q) \in Nat
           /\ \A i \in 1 .. Len(q) : Append(q, e)[i] = q[i]
           /\ Append(q, e)[Len(q) + 1] = e
OBVIOUS

\* The same of the bytes of a stream.
Byte == Side \X (1 .. MaxBytes)

LEMMA Lengths == \A q \in Bytes : Len(q) \in Nat /\ (q # <<>> => Len(q) # 0)
BY DEF Bytes

LEMMA Cut ==
    ASSUME NEW q \in Bytes, NEW n \in 1 .. Len(q)
    PROVE  /\ SubSeq(q, 1, n) \in Bytes /\ Len(SubSeq(q, 1, n)) = n
           /\ \A i \in 1 .. n : SubSeq(q, 1, n)[i] = q[i]
           /\ SubSeq(q, n + 1, Len(q)) \in Bytes /\ Len(SubSeq(q, n + 1, Len(q))) = Len(q) - n
           /\ \A i \in 1 .. Len(q) - n : SubSeq(q, n + 1, Len(q))[i] = q[n + i]
<1>1. Bytes = Seq(Byte)
  BY DEF Bytes, Byte
<1> QED
  BY <1>1, CutOf

LEMMA First ==
    ASSUME NEW q \in Bytes, q # <<>>
    PROVE  /\ Len(q) \in Nat \ {0} /\ Head(q) = q[1] /\ Head(q) \in Byte
           /\ Tail(q) \in Bytes /\ Len(Tail(q)) = Len(q) - 1
           /\ \A i \in 1 .. Len(q) - 1 : Tail(q)[i] = q[i + 1]
<1>1. Bytes = Seq(Byte)
  BY DEF Bytes, Byte
<1> QED
  BY <1>1, FirstOf

LEMMA Last ==
    ASSUME NEW q \in Bytes, NEW e \in Byte
    PROVE  /\ Append(q, e) \in Bytes /\ Len(Append(q, e)) = Len(q) + 1 /\ Len(q) \in Nat
           /\ \A i \in 1 .. Len(q) : Append(q, e)[i] = q[i]
           /\ Append(q, e)[Len(q) + 1] = e
<1>1. Bytes = Seq(Byte)
  BY DEF Bytes, Byte
<1> QED
  BY <1>1, LastOf

\* Taking from numbered bytes, and adding the next one.
LEMMA NumberedCut ==
    ASSUME NEW q \in Bytes, NEW k \in 1 .. Len(q), NEW s, NEW n \in Nat, Numbered(q, s, n)
    PROVE  /\ Numbered(SubSeq(q, 1, k), s, n) /\ Len(SubSeq(q, 1, k)) = k
           /\ Numbered(SubSeq(q, k + 1, Len(q)), s, n + k) /\ Len(SubSeq(q, k + 1, Len(q))) = Len(q) - k
<1>1. Len(q) \in Nat
  BY Lengths
<1>2. ASSUME NEW i \in 1 .. Len(q) - k PROVE SubSeq(q, k + 1, Len(q))[i] = <<s, (n + k) + i>>
  <2>1. k + i \in 1 .. Len(q) /\ n + (k + i) = (n + k) + i
    BY <1>1
  <2>2. q[k + i] = <<s, n + (k + i)>>
    BY <2>1 DEF Numbered
  <2> QED
    BY <2>1, <2>2, Cut
<1>3. ASSUME NEW i \in 1 .. k PROVE SubSeq(q, 1, k)[i] = <<s, n + i>>
  <2>1. i \in 1 .. Len(q)
    BY <1>1
  <2> QED
    BY <2>1, Cut DEF Numbered
<1> QED
  BY <1>2, <1>3, Cut DEF Numbered

LEMMA NumberedFirst ==
    ASSUME NEW q \in Bytes, q # <<>>, NEW s, NEW n \in Nat, Numbered(q, s, n)
    PROVE  /\ Head(q) = <<s, n + 1>> /\ Head(q) \in Byte /\ Len(q) \in Nat \ {0}
           /\ Numbered(Tail(q), s, n + 1) /\ Len(Tail(q)) = Len(q) - 1
<1>1. Len(q) \in Nat \ {0} /\ 1 \in 1 .. Len(q)
  BY First
<1>2. ASSUME NEW i \in 1 .. Len(q) - 1 PROVE Tail(q)[i] = <<s, (n + 1) + i>>
  <2>1. i + 1 \in 1 .. Len(q) /\ n + (i + 1) = (n + 1) + i
    BY <1>1
  <2>2. q[i + 1] = <<s, n + (i + 1)>>
    BY <2>1 DEF Numbered
  <2> QED
    BY <2>1, <2>2, First
<1>3. Head(q) = <<s, n + 1>>
  BY <1>1, First DEF Numbered
<1> QED
  BY <1>1, <1>2, <1>3, First DEF Numbered

LEMMA NumberedLast ==
    ASSUME NEW q \in Bytes, NEW s, NEW n \in Nat, Numbered(q, s, n),
           NEW e \in Byte, e = <<s, n + (Len(q) + 1)>>
    PROVE  Numbered(Append(q, e), s, n) /\ Len(Append(q, e)) = Len(q) + 1
<1>1. /\ Len(q) \in Nat /\ Len(Append(q, e)) = Len(q) + 1 /\ Append(q, e)[Len(q) + 1] = e
      /\ \A i \in 1 .. Len(q) : Append(q, e)[i] = q[i]
  BY Last
<1>2. ASSUME NEW i \in 1 .. Len(q) + 1 PROVE Append(q, e)[i] = <<s, n + i>>
  <2>1. CASE i = Len(q) + 1
    BY <1>1, <2>1
  <2>2. CASE i # Len(q) + 1
    <3>1. i \in 1 .. Len(q)
      BY <1>1, <2>2
    <3> QED
      BY <1>1, <3>1 DEF Numbered
  <2> QED
    BY <2>1, <2>2
<1> QED
  BY <1>1, <1>2 DEF Numbered

LEMMA OneMoreByte == \A a \in Nat, b \in Nat, c \in Nat : c = a + b => c + 1 = a + (b + 1)
OBVIOUS

LEMMA OneByteMoves == \A a \in Nat, b \in Nat, c \in Nat : (a + 1) + b + (c - 1) = a + b + c
OBVIOUS

LEMMA Sides == /\ \A s \in Side : Other(s) \in Side /\ Other(Other(s)) = s /\ Other(s) # s
               /\ \A s \in Side, t \in Side : t = s \/ t = Other(s)
               /\ \A s \in Side, t \in Side : Writing(s) = Writing(t) => s = t
               /\ \A s \in Side : Writing(s) \in {"writeIn", "writeOut"} /\ After(s) \in {"out", "check"}
BY DEF Side, Other, Writing, After

LEMMA InitEstablishes == Init => IInv
<1> SUFFICES ASSUME Init PROVE IInv OBVIOUS
<1>1. TypeOK
  BY SizesAssumption DEF Init, TypeOK, Zero, Empty, Bytes, Side
<1>2. ASSUME NEW s \in Side PROVE Stream(s)
  <2>1. /\ arrived[s] = <<>> /\ outgoing[Other(s)] = <<>> /\ got[Other(s)] = <<>> /\ pc = "poll"
        /\ sent[s] = 0 /\ written[s] = 0 /\ dropped[s] = 0 /\ counted[s] = 0
    BY Sides DEF Init, Zero, Empty
  <2>2. pc # Writing(s) /\ Len(<<>>) = 0
    BY <2>1 DEF Writing
  <2>3. Taken(s) = 0
    BY <2>1, <2>2 DEF Taken, Pending
  <2>4. \A n \in Nat : Numbered(<<>>, s, n)
    BY DEF Numbered
  <2> QED
    BY <2>1, <2>2, <2>3, <2>4 DEF Stream, Accounted, Unread, InHand, Position, Buffered, Received, Counted
<1>3. ASSUME NEW s \in Side PROVE Knowledge(s)
  BY Sides, <1>3 DEF Init, Zero, Empty, Knowledge, NoneWritten, HungUp, Drained, Snapshot, Told, BeforeTurn
<1> QED
  BY <1>1, <1>2, <1>3 DEF IInv, Ended, Init

-----------------------------------------------------------------------------
\* Types.
LEMMA TypesKept == TypeOK /\ [Next]_vars => TypeOK'
<1> SUFFICES ASSUME TypeOK, [Next]_vars PROVE TypeOK' OBVIOUS
<1> USE DEF TypeOK, peers, sockets, loop, data
<1>1. CASE UNCHANGED vars
  BY <1>1 DEF vars
<1>2. ASSUME NEW s \in Side, Send(s) PROVE TypeOK'
  <2>1. sent[s] + 1 \in 0 .. MaxBytes /\ <<s, sent[s] + 1>> \in Byte
    BY <1>2, SizesAssumption DEF Send, Byte
  <2>2. Append(arrived[s], <<s, sent[s] + 1>>) \in Bytes
    BY <2>1, Last
  <2> QED
    BY <1>2, <2>1, <2>2 DEF Send
<1>3. ASSUME NEW s \in Side, ShutDown(s) PROVE TypeOK'
  BY <1>3 DEF ShutDown
<1>4. ASSUME NEW s \in Side, Reset(s) PROVE TypeOK'
  <2>1. <<>> \in Bytes /\ Len(<<>>) <= Capacity
    BY SizesAssumption DEF Bytes
  <2> QED
    BY <1>4, <2>1 DEF Reset
<1>5. ASSUME NEW s \in Side, Receive(s) PROVE TypeOK'
  <2>1. Tail(outgoing[s]) \in Bytes /\ Len(Tail(outgoing[s])) <= Capacity
        /\ Append(got[s], Head(outgoing[s])) \in Bytes
    <3>1. outgoing[s] \in Bytes /\ got[s] \in Bytes /\ outgoing[s] # <<>> /\ Len(outgoing[s]) <= Capacity
      BY <1>5 DEF Receive
    <3>2. Head(outgoing[s]) \in Byte /\ Tail(outgoing[s]) \in Bytes
          /\ Len(Tail(outgoing[s])) = Len(outgoing[s]) - 1 /\ Len(outgoing[s]) \in Nat
      BY <3>1, First
    <3>3. Append(got[s], Head(outgoing[s])) \in Bytes
      BY <3>1, <3>2, Last
    <3>4. Len(Tail(outgoing[s])) <= Capacity
      BY <3>1, <3>2, SizesAssumption
    <3> QED
      BY <3>2, <3>3, <3>4
  <2> QED
    BY <1>5, <2>1 DEF Receive
<1>6. CASE Poll \/ PollFails
  BY <1>6 DEF Poll, PollFails, Side
<1>7. ASSUME NEW s \in Side, NotReadable(s) \/ ReadFails(s) \/ EndOfTransmission(s) \/ WriteFails(s) PROVE TypeOK'
  BY <1>7, Sides DEF NotReadable, ReadFails, EndOfTransmission, Stops, WriteFails, Side
<1>8. ASSUME NEW s \in Side, ReadToPass(s) PROVE TypeOK'
  <2>1. PICK n \in ReadSizes : /\ n <= Len(arrived[s])
          /\ buf' = SubSeq(arrived[s], 1, n) /\ chunk' = n
          /\ arrived' = [arrived EXCEPT ![s] = SubSeq(@, n + 1, Len(@))]
    BY <1>8 DEF ReadToPass
  <2>2. n \in 1 .. MaxRead /\ n \in 1 .. Len(arrived[s]) /\ n \in 0 .. MaxRead
    BY <2>1, SizesAssumption, Lengths DEF ReadSizes
  <2>3. SubSeq(arrived[s], 1, n) \in Bytes /\ Len(SubSeq(arrived[s], 1, n)) = n
        /\ SubSeq(arrived[s], n + 1, Len(arrived[s])) \in Bytes
    BY <2>2, Cut
  <2> QED
    BY <1>8, <2>1, <2>2, <2>3, Sides DEF ReadToPass
<1>9. ASSUME NEW s \in Side, ReadToDrain(s) PROVE TypeOK'
  <2>1. PICK n \in ReadSizes : /\ n <= Len(arrived[s])
          /\ arrived' = [arrived EXCEPT ![s] = SubSeq(@, n + 1, Len(@))]
          /\ counted' = [counted EXCEPT ![s] = @ + n]
          /\ dropped' = [dropped EXCEPT ![s] = @ + n]
    BY <1>9 DEF ReadToDrain
  <2>2. n \in Nat /\ n \in 1 .. Len(arrived[s])
    BY <2>1, SizesAssumption, Lengths DEF ReadSizes
  <2>3. SubSeq(arrived[s], n + 1, Len(arrived[s])) \in Bytes
    BY <2>2, Cut
  <2>4. counted[s] + n \in Nat /\ dropped[s] + n \in Nat
    BY <2>2
  <2>5. pc' \in {"out", "check"}
    BY <1>9, Sides DEF ReadToDrain
  <2>6. arrived' \in [Side -> Bytes] /\ counted' \in [Side -> Nat] /\ dropped' \in [Side -> Nat]
    BY <2>1, <2>3, <2>4
  <2> QED
    BY <1>9, <2>5, <2>6 DEF ReadToDrain, Side
<1>10. ASSUME NEW s \in Side, WriteSome(s) PROVE TypeOK'
  <2>1. Tail(buf) \in Bytes /\ Len(Tail(buf)) = Len(buf) - 1 /\ Len(buf) \in Nat /\ Head(buf) \in Byte
    BY <1>10, First DEF WriteSome
  <2>2. Other(s) \in Side /\ outgoing[Other(s)] \in Bytes
    BY Sides
  <2>3. Append(outgoing[Other(s)], Head(buf)) \in Bytes
        /\ Len(Append(outgoing[Other(s)], Head(buf))) = Len(outgoing[Other(s)]) + 1
        /\ Len(outgoing[Other(s)]) \in Nat /\ Len(outgoing[Other(s)]) < Capacity
    BY <1>10, <2>1, <2>2, Last DEF WriteSome
  <2>4. Len(Tail(buf)) <= chunk /\ Len(Append(outgoing[Other(s)], Head(buf))) <= Capacity
    BY <2>1, <2>3, SizesAssumption
  <2>5. written[s] + 1 \in Nat
    OBVIOUS
  <2> QED
    BY <1>10, <2>1, <2>2, <2>3, <2>4, <2>5 DEF WriteSome, Unwritten
<1>11. ASSUME NEW s \in Side, Written(s) PROVE TypeOK'
  <2>1. counted[s] + chunk \in Nat
    BY SizesAssumption
  <2>2. counted' \in [Side -> Nat]
    BY <1>11, <2>1 DEF Written
  <2>3. pc' \in {"out", "check"}
    BY <1>11, Sides DEF Written
  <2> QED
    BY <1>11, <2>2, <2>3 DEF Written, Side
<1>12. CASE Check
  BY <1>12 DEF Check
<1>13. CASE Finished
  BY <1>13 DEF Finished, vars
<1> QED
  BY <1>1, <1>2, <1>3, <1>4, <1>5, <1>6, <1>7, <1>8, <1>9, <1>10, <1>11, <1>12, <1>13
     DEF Next, Thread, ThreadSide

-----------------------------------------------------------------------------
\* What the thread knows of the sides stays true.
LEMMA KnowledgeKept ==
    ASSUME IInv, [Next]_vars, NEW t \in Side
    PROVE  Knowledge(t)'
<1> USE DEF Knowledge, NoneWritten, HungUp, Drained, Snapshot, Told, CanPass, peers, sockets, loop, data
<1>1. Knowledge(t) /\ arrived \in [Side -> Bytes] /\ dropped \in [Side -> Nat] /\ HungUp(Other(t))
  BY Sides DEF IInv, TypeOK
<1>2. \A s \in Side : After(s) \notin {"poll", "done", "failed", "in", "writeIn"}
                      /\ (s = "out" => After(s) = "check") /\ (s = "in" => After(s) = "out" /\ Writing(s) = "writeIn")
                      /\ (s = "out" => Writing(s) = "writeOut")
  BY DEF After, Side, Writing
<1>3. CASE UNCHANGED vars
  BY <1>1, <1>3 DEF vars, BeforeTurn
<1>4. ASSUME NEW s \in Side, Send(s) PROVE Knowledge(t)'
  <2>1. s \in open /\ Append(arrived[s], <<s, sent[s] + 1>>) # <<>>
    <3>1. HungUp(s)
      BY <1>1, Sides DEF IInv
    <3>2. Append(arrived[s], <<s, sent[s] + 1>>)[Len(arrived[s]) + 1] = <<s, sent[s] + 1>>
          /\ Len(Append(arrived[s], <<s, sent[s] + 1>>)) = Len(arrived[s]) + 1 /\ Len(arrived[s]) \in Nat
      <4>1. <<s, sent[s] + 1>> \in Byte
        BY <1>4, SizesAssumption DEF Send, Byte, IInv, TypeOK
      <4> QED
        BY <1>1, <4>1, Last
    <3>3. Len(<<>>) = 0
      OBVIOUS
    <3>4. Append(arrived[s], <<s, sent[s] + 1>>) # <<>>
      BY <3>2, <3>3
    <3> QED
      BY <1>4, <3>1, <3>4 DEF Send
  <2> QED
    BY <1>1, <1>4, <2>1 DEF Send, BeforeTurn
<1>5. ASSUME NEW s \in Side, ShutDown(s) \/ Receive(s) \/ Reset(s) PROVE Knowledge(t)'
  BY <1>1, <1>5 DEF ShutDown, Receive, Reset, BeforeTurn
<1>6. CASE Poll
  BY <1>1, <1>6 DEF Poll, BeforeTurn
<1>7. ASSUME NEW s \in Side, PollFails \/ ReadFails(s) \/ WriteFails(s) PROVE Knowledge(t)'
  BY <1>1, <1>7 DEF PollFails, ReadFails, WriteFails, BeforeTurn
<1>8. ASSUME NEW s \in Side, NotReadable(s) \/ Written(s) PROVE Knowledge(t)'
  BY <1>1, <1>2, <1>8 DEF NotReadable, Written, BeforeTurn, Side
<1>9. ASSUME NEW s \in Side, EndOfTransmission(s) PROVE Knowledge(t)'
  <2>1. s \in fin
    <3>1. Snapshot(s)
      BY DEF IInv
    <3> QED
      BY <1>9, <3>1 DEF EndOfTransmission, BeforeTurn, Side
  <2> QED
    BY <1>1, <1>2, <1>9, <2>1 DEF EndOfTransmission, BeforeTurn, Side
<1>10. ASSUME NEW s \in Side, ReadToPass(s) PROVE Knowledge(t)'
  <2>1. /\ pc = s /\ pc' = Writing(s) /\ arrived[s] # <<>> /\ \A u \in Side \ {s} : arrived'[u] = arrived[u]
        /\ UNCHANGED <<peers, loop, dropped>>
    BY <1>1, <1>10 DEF ReadToPass
  <2>2. s \in open
    BY <2>1 DEF IInv
  <2> QED
    BY <1>1, <1>2, <2>1, <2>2 DEF BeforeTurn, Side
<1>11. ASSUME NEW s \in Side, ReadToDrain(s) PROVE Knowledge(t)'
  <2>1. /\ pc = s /\ pc' = After(s) /\ arrived[s] # <<>> /\ ~CanPass(s)
        /\ \A u \in Side \ {s} : arrived'[u] = arrived[u] /\ dropped'[u] = dropped[u]
        /\ UNCHANGED <<peers, loop>>
    BY <1>1, <1>11 DEF ReadToDrain
  <2>2. s \in open
    BY <2>1 DEF IInv
  <2> QED
    BY <1>1, <1>2, <2>1, <2>2 DEF BeforeTurn, Side
<1>12. ASSUME NEW s \in Side, WriteSome(s) PROVE Knowledge(t)'
  BY <1>1, <1>12 DEF WriteSome, BeforeTurn
<1>13. CASE Check \/ Finished
  BY <1>1, <1>13 DEF Check, Finished, vars, BeforeTurn, Side
<1> QED
  BY <1>3, <1>4, <1>5, <1>6, <1>7, <1>8, <1>9, <1>10, <1>11, <1>12, <1>13 DEF Next, Thread, ThreadSide

\* The loop ends with the end of a side's transmission.
LEMMA EndedKept ==
    ASSUME IInv, [Next]_vars
    PROVE  Ended'
<1> USE DEF Ended, peers, sockets, loop, data
<1>1. Ended /\ going \in BOOLEAN /\ open \subseteq Side
  BY DEF IInv, TypeOK
<1>2. CASE Check
  <2>1. \A s \in Side : ~Exhausted(s)
    BY <1>2 DEF Check, Exhausted, IInv, Knowledge, Told
  <2> QED
    BY <1>1, <1>2, <2>1 DEF Check
<1>3. ASSUME NEW s \in Side, EndOfTransmission(s) PROVE Ended'
  BY <1>1, <1>3 DEF EndOfTransmission
<1>4. CASE UNCHANGED vars \/ Finished
  BY <1>1, <1>4 DEF vars, Finished
<1>5. ASSUME NEW s \in Side, Send(s) \/ ShutDown(s) \/ Reset(s) \/ Receive(s) PROVE Ended'
  BY <1>1, <1>5 DEF Send, ShutDown, Reset, Receive
<1>6. CASE Poll \/ PollFails
  BY <1>1, <1>6 DEF Poll, PollFails
<1>7. ASSUME NEW s \in Side,
             NotReadable(s) \/ ReadFails(s) \/ ReadToPass(s) \/ ReadToDrain(s) \/ WriteSome(s) \/ WriteFails(s)
             \/ Written(s)
      PROVE  Ended'
  BY <1>1, <1>7, Sides DEF NotReadable, ReadFails, ReadToPass, ReadToDrain, WriteSome, WriteFails, Written
<1> QED
  BY <1>2, <1>3, <1>4, <1>5, <1>6, <1>7 DEF Next, Thread, ThreadSide

-----------------------------------------------------------------------------
\* Every byte keeps its place.
LEMMA StreamKept ==
    ASSUME IInv, [Next]_vars, NEW t \in Side
    PROVE  Stream(t)'
<1> DEFINE o == Other(t)
<1> USE DEF peers, sockets, loop, data
<1>1. TypeOK /\ TypeOK' /\ Stream(t) /\ Knowledge(t) /\ o \in Side /\ t # o
  BY TypesKept, Sides DEF IInv
<1>2. /\ o \in Side /\ arrived \in [Side -> Bytes] /\ outgoing \in [Side -> Bytes] /\ got \in [Side -> Bytes]
      /\ written \in [Side -> Nat] /\ dropped \in [Side -> Nat] /\ counted \in [Side -> Nat]
      /\ sent \in [Side -> Nat] /\ chunk \in Nat /\ buf \in Bytes
  <2>1. chunk \in Nat /\ sent \in [Side -> Nat]
    BY <1>1, SizesAssumption DEF TypeOK
  <2> QED
    BY <1>1, <2>1 DEF TypeOK
<1>3. \A s \in Side : /\ s \notin {Writing(t), "failed", "poll", "done"}
                      /\ After(s) \notin {Writing(t), "failed"} /\ (s # t => Writing(s) \notin {Writing(t), "failed"})
  BY DEF After, Writing, Side
<1>4. Writing(t) \notin {"failed", "poll", "check", "done", "in"}
  BY DEF Writing
<1>5. arrived[t] \in Bytes /\ outgoing[o] \in Bytes /\ got[o] \in Bytes
  BY <1>2
<1>6. Len(arrived[t]) \in Nat /\ Len(outgoing[o]) \in Nat /\ Len(got[o]) \in Nat /\ Len(buf) \in Nat
  BY <1>2, <1>5, Lengths
<1>7. Taken(t) \in Nat
  BY <1>2, <1>6 DEF Taken, Pending
\* The thread's half and the kernel's half of the stream.
<1>8. ASSUME UNCHANGED <<pc, buf, chunk>>, arrived'[t] = arrived[t], sent'[t] = sent[t], written'[t] = written[t],
             dropped'[t] = dropped[t], counted'[t] = counted[t], reset' = reset
      PROVE  Accounted(t)' /\ Unread(t)' /\ InHand(t)' /\ Counted(t)'
  BY <1>1, <1>8 DEF Stream, Accounted, Unread, InHand, Counted, Taken, Pending
<1>9. ASSUME outgoing'[o] = outgoing[o], got'[o] = got[o], written'[t] = written[t], reset' = reset
      PROVE  Position(t)' /\ Buffered(t)' /\ Received(t)'
  BY <1>1, <1>9 DEF Stream, Position, Buffered, Received
\* Away from the writes of t, all that counts is what happens to its own bytes.
<1>10. ASSUME pc # Writing(t), pc' # Writing(t), pc # "failed", arrived'[t] = arrived[t], sent'[t] = sent[t],
              written'[t] = written[t], dropped'[t] = dropped[t], counted'[t] = counted[t], reset' = reset
       PROVE  Accounted(t)' /\ Unread(t)' /\ InHand(t)' /\ Counted(t)'
  <2>1. Taken(t)' = Taken(t)
    BY <1>10 DEF Taken, Pending
  <2> QED
    BY <1>1, <1>10, <2>1 DEF Stream, Accounted, Unread, InHand, Counted
<1>11. ASSUME NEW s \in Side, Send(s) PROVE Stream(t)'
  <2>1. Position(t)' /\ Buffered(t)' /\ Received(t)'
    BY <1>9, <1>11 DEF Send
  <2>2. CASE s # t
    <3>1. arrived'[t] = arrived[t] /\ sent'[t] = sent[t]
      BY <1>2, <1>11, <2>2 DEF Send
    <3> QED
      BY <1>8, <1>11, <2>1, <3>1 DEF Send, Stream
  <2>3. CASE s = t
    <3>1. /\ arrived'[t] = Append(arrived[t], <<t, sent[t] + 1>>) /\ sent'[t] = sent[t] + 1
          /\ t \notin reset /\ sent[t] < MaxBytes
          /\ UNCHANGED <<reset, pc, buf, chunk, counted, written, dropped>>
      BY <1>2, <1>11, <2>3 DEF Send
    <3>2. Taken(t)' = Taken(t)
      BY <3>1 DEF Taken, Pending
    <3>3. ASSUME pc # "failed" PROVE Accounted(t)' /\ Unread(t)'
      <4>1. sent[t] = Taken(t) + Len(arrived[t])
        BY <1>1, <3>1, <3>3 DEF Stream, Accounted
      <4>2. sent[t] \in Nat /\ sent[t] + 1 = Taken(t) + (Len(arrived[t]) + 1) /\ sent[t] + 1 \in 1 .. MaxBytes
        <5>1. sent[t] \in Nat /\ sent[t] + 1 \in 1 .. MaxBytes
          BY <1>2, <3>1, SizesAssumption
        <5> QED
          BY <1>6, <1>7, <4>1, <5>1, OneMoreByte
      <4>3. <<t, sent[t] + 1>> \in Byte /\ <<t, sent[t] + 1>> = <<t, Taken(t) + (Len(arrived[t]) + 1)>>
        BY <4>2 DEF Byte
      <4>4. Numbered(arrived[t], t, Taken(t))
        BY <1>1, <3>3 DEF Stream, Unread
      <4>5. Numbered(arrived'[t], t, Taken(t)) /\ Len(arrived'[t]) = Len(arrived[t]) + 1
        <5>1. Numbered(Append(arrived[t], <<t, sent[t] + 1>>), t, Taken(t))
              /\ Len(Append(arrived[t], <<t, sent[t] + 1>>)) = Len(arrived[t]) + 1
          BY <1>5, <1>7, <4>3, <4>4, NumberedLast
        <5> QED
          BY <3>1, <5>1
      <4> QED
        BY <3>1, <3>2, <4>2, <4>5 DEF Accounted, Unread
    <3>4. Accounted(t)' /\ Unread(t)'
      BY <3>1, <3>3 DEF Accounted, Unread
    <3>5. InHand(t)' /\ Counted(t)'
      BY <1>1, <3>1, <3>2 DEF Stream, InHand, Counted
    <3> QED
      BY <2>1, <3>4, <3>5 DEF Stream
  <2> QED
    BY <2>2, <2>3
<1>12. ASSUME NEW s \in Side, Reset(s) PROVE Stream(t)'
  <2>1. /\ UNCHANGED <<sent, got, pc, buf, chunk, counted, written, dropped>> /\ reset' = reset \cup {s}
        /\ arrived'[t] = (IF s = t THEN <<>> ELSE arrived[t]) /\ outgoing'[o] = (IF s = o THEN <<>> ELSE outgoing[o])
    BY <1>1, <1>2, <1>12 DEF Reset
  <2>2. Taken(t)' = Taken(t)
    BY <2>1 DEF Taken, Pending
  <2>3. \A n \in Nat : Numbered(<<>>, t, n)
    BY DEF Numbered
  <2>4. Unread(t)'
    BY <1>1, <1>7, <2>1, <2>2, <2>3 DEF Stream, Unread
  <2>5. Accounted(t)' /\ Counted(t)' /\ InHand(t)'
    BY <1>1, <2>1, <2>2 DEF Stream, Accounted, InHand, Counted
  <2>6. Buffered(t)'
    BY <1>1, <1>6, <2>1, <2>3 DEF Stream, Buffered
  <2>7. Position(t)' /\ Received(t)'
    BY <1>1, <2>1 DEF Stream, Position, Received
  <2> QED
    BY <2>4, <2>5, <2>6, <2>7 DEF Stream
<1>13. ASSUME NEW s \in Side, Receive(s) PROVE Stream(t)'
  <2>1. UNCHANGED <<sent, arrived, pc, buf, chunk, counted, written, dropped, reset>>
    BY <1>13 DEF Receive
  <2>2. Accounted(t)' /\ Unread(t)' /\ Counted(t)' /\ InHand(t)'
    BY <1>8, <2>1
  <2>3. CASE s # o
    <3>1. outgoing'[o] = outgoing[o] /\ got'[o] = got[o]
      BY <1>2, <1>13, <2>3 DEF Receive
    <3> QED
      BY <1>9, <2>1, <2>2, <3>1 DEF Stream
  <2>4. CASE s = o
    <3>1. outgoing[o] # <<>> /\ outgoing'[o] = Tail(outgoing[o]) /\ got'[o] = Append(got[o], Head(outgoing[o]))
      BY <1>2, <1>13, <2>4 DEF Receive
    <3>2. Numbered(outgoing[o], t, Len(got[o])) /\ Numbered(got[o], t, 0)
      BY <1>1 DEF Stream, Buffered, Received
    <3>3. /\ Head(outgoing[o]) = <<t, Len(got[o]) + 1>> /\ Head(outgoing[o]) \in Byte
          /\ Numbered(outgoing'[o], t, Len(got[o]) + 1) /\ Len(outgoing'[o]) = Len(outgoing[o]) - 1
      BY <1>5, <1>6, <3>1, <3>2, NumberedFirst
    <3>4. Head(outgoing[o]) = <<t, 0 + (Len(got[o]) + 1)>>
      BY <1>6, <3>3
    <3>5. Numbered(got'[o], t, 0) /\ Len(got'[o]) = Len(got[o]) + 1
      <4>1. Numbered(Append(got[o], Head(outgoing[o])), t, 0)
            /\ Len(Append(got[o], Head(outgoing[o]))) = Len(got[o]) + 1
        BY <1>5, <3>2, <3>3, <3>4, NumberedLast
      <4> QED
        BY <3>1, <4>1
    <3>6. Received(t)' /\ Buffered(t)'
      BY <3>3, <3>5 DEF Received, Buffered
    <3>7. Len(got'[o]) + Len(outgoing'[o]) = Len(got[o]) + Len(outgoing[o])
      BY <1>2, <1>6, <3>3, <3>5
    <3>8. Position(t)'
      BY <1>1, <2>1, <3>7 DEF Stream, Position
    <3> QED
      BY <2>2, <3>6, <3>8 DEF Stream
  <2> QED
    BY <2>3, <2>4
<1>14. ASSUME NEW s \in Side, ReadToPass(s) PROVE Stream(t)'
  <2>1. PICK n \in ReadSizes : /\ n <= Len(arrived[s])
          /\ buf' = SubSeq(arrived[s], 1, n) /\ chunk' = n
          /\ arrived' = [arrived EXCEPT ![s] = SubSeq(@, n + 1, Len(@))]
    BY <1>14 DEF ReadToPass
  <2>2. /\ pc = s /\ pc' = Writing(s) /\ CanPass(s)
        /\ UNCHANGED <<sent, reset, outgoing, got, counted, written, dropped>>
    BY <1>14 DEF ReadToPass
  <2>3. Position(t)' /\ Buffered(t)' /\ Received(t)'
    BY <1>9, <2>2
  <2>4. pc # Writing(t) /\ pc # "failed"
    BY <1>3, <2>2
  <2>5. CASE s # t
    <3>1. arrived'[t] = arrived[t] /\ pc' # Writing(t)
      BY <1>2, <1>3, <2>1, <2>2, <2>5
    <3> QED
      BY <1>10, <2>2, <2>3, <2>4, <3>1 DEF Stream
  <2>6. CASE s = t
    <3>1. n \in Nat /\ n \in 1 .. Len(arrived[t])
      BY <1>6, <2>1, <2>6, SizesAssumption DEF ReadSizes
    <3>2. arrived'[t] = SubSeq(arrived[t], n + 1, Len(arrived[t])) /\ buf' = SubSeq(arrived[t], 1, n)
      BY <1>2, <2>1, <2>6
    <3>3. Numbered(arrived[t], t, Taken(t))
      BY <1>1, <2>4 DEF Stream, Unread
    <3>4. /\ Numbered(buf', t, Taken(t)) /\ Len(buf') = n
          /\ Numbered(arrived'[t], t, Taken(t) + n) /\ Len(arrived'[t]) = Len(arrived[t]) - n
      BY <1>5, <1>7, <3>1, <3>2, <3>3, NumberedCut
    <3>5. dropped[t] = 0
      BY <1>1, <1>2, <2>2, <2>6 DEF Knowledge, NoneWritten
    <3>6. Taken(t) = written[t]
      BY <1>2, <2>4, <3>5 DEF Taken, Pending
    <3>7. Taken(t)' = Taken(t) + n
      BY <1>2, <2>2, <2>6, <3>4, <3>5, <3>6 DEF Taken, Pending
    <3>8. InHand(t)' /\ Unread(t)'
      BY <2>2, <3>4, <3>5, <3>6, <3>7 DEF InHand, Unread
    <3>9. Accounted(t)'
      <4>1. t \notin reset => sent[t] = Taken(t) + Len(arrived[t])
        BY <1>1, <2>4 DEF Stream, Accounted
      <4>2. Taken(t)' + Len(arrived'[t]) = Taken(t) + Len(arrived[t])
        BY <1>2, <1>6, <1>7, <3>1, <3>4, <3>7
      <4> QED
        BY <2>2, <4>1, <4>2 DEF Accounted
    <3>10. Counted(t)'
      BY <1>1, <1>2, <2>1, <2>2, <2>4, <2>6, <3>7 DEF Stream, Counted
    <3> QED
      BY <2>3, <3>8, <3>9, <3>10 DEF Stream
  <2> QED
    BY <2>5, <2>6
<1>15. ASSUME NEW s \in Side, ReadToDrain(s) PROVE Stream(t)'
  <2>1. PICK n \in ReadSizes : /\ n <= Len(arrived[s])
          /\ arrived' = [arrived EXCEPT ![s] = SubSeq(@, n + 1, Len(@))]
          /\ counted' = [counted EXCEPT ![s] = @ + n]
          /\ dropped' = [dropped EXCEPT ![s] = @ + n]
    BY <1>15 DEF ReadToDrain
  <2>2. /\ pc = s /\ pc' = After(s)
        /\ UNCHANGED <<sent, reset, outgoing, got, buf, chunk, written>>
    BY <1>15 DEF ReadToDrain
  <2>3. Position(t)' /\ Buffered(t)' /\ Received(t)'
    BY <1>9, <2>2
  <2>4. pc # Writing(t) /\ pc' # Writing(t) /\ pc # "failed"
    BY <1>3, <2>2
  <2>5. CASE s # t
    <3>1. arrived'[t] = arrived[t] /\ dropped'[t] = dropped[t] /\ counted'[t] = counted[t]
      BY <1>2, <2>1, <2>5
    <3> QED
      BY <1>10, <2>2, <2>3, <2>4, <3>1 DEF Stream
  <2>6. CASE s = t
    <3>1. n \in Nat /\ n \in 1 .. Len(arrived[t])
      BY <1>6, <2>1, <2>6, SizesAssumption DEF ReadSizes
    <3>2. /\ arrived'[t] = SubSeq(arrived[t], n + 1, Len(arrived[t]))
          /\ dropped'[t] = dropped[t] + n /\ counted'[t] = counted[t] + n
      BY <1>2, <2>1, <2>6
    <3>3. Numbered(arrived[t], t, Taken(t))
      BY <1>1, <2>4 DEF Stream, Unread
    <3>4. Numbered(arrived'[t], t, Taken(t) + n) /\ Len(arrived'[t]) = Len(arrived[t]) - n
      BY <1>5, <1>7, <3>1, <3>2, <3>3, NumberedCut
    <3>5. Taken(t) = written[t] + dropped[t]
      BY <1>2, <2>4 DEF Taken, Pending
    <3>6. Taken(t)' = Taken(t) + n
      BY <1>2, <2>2, <2>4, <3>1, <3>2, <3>5 DEF Taken, Pending
    <3>7. InHand(t)' /\ Unread(t)'
      BY <2>4, <3>4, <3>6 DEF InHand, Unread
    <3>8. Accounted(t)'
      <4>1. t \notin reset => sent[t] = Taken(t) + Len(arrived[t])
        BY <1>1, <2>4 DEF Stream, Accounted
      <4>2. Taken(t)' + Len(arrived'[t]) = Taken(t) + Len(arrived[t])
        BY <1>2, <1>6, <1>7, <3>1, <3>4, <3>6
      <4> QED
        BY <2>2, <4>1, <4>2 DEF Accounted
    <3>9. Counted(t)'
      <4>1. Taken(t) = counted[t]
        BY <1>1, <1>2, <2>4 DEF Stream, Counted
      <4> QED
        BY <1>2, <2>4, <3>1, <3>2, <3>6, <4>1 DEF Counted
    <3> QED
      BY <2>3, <3>7, <3>8, <3>9 DEF Stream
  <2> QED
    BY <2>5, <2>6
<1>16. ASSUME NEW s \in Side, WriteSome(s) PROVE Stream(t)'
  <2>1. /\ pc = Writing(s) /\ buf # <<>> /\ Other(s) \notin reset /\ buf' = Tail(buf)
        /\ outgoing' = [outgoing EXCEPT ![Other(s)] = Append(@, Head(buf))]
        /\ written' = [written EXCEPT ![s] = @ + 1]
        /\ UNCHANGED <<sent, reset, arrived, got, pc, chunk, counted, dropped>>
    BY <1>16 DEF WriteSome, Unwritten
  <2>2. CASE s # t
    <3>1. outgoing'[o] = outgoing[o] /\ written'[t] = written[t] /\ pc \notin {Writing(t), "failed"}
      BY <1>2, <1>3, <2>1, <2>2, Sides
    <3>2. Accounted(t)' /\ Unread(t)' /\ InHand(t)' /\ Counted(t)'
      BY <1>10, <2>1, <3>1
    <3> QED
      BY <1>9, <2>1, <3>1, <3>2 DEF Stream
  <2>3. CASE s = t
    <3>1. /\ outgoing'[o] = Append(outgoing[o], Head(buf)) /\ written'[t] = written[t] + 1
          /\ o \notin reset
      BY <1>2, <2>1, <2>3
    <3>2. pc = Writing(t) /\ pc' = Writing(t) /\ pc # "failed"
      BY <1>4, <2>1, <2>3
    <3>3. Numbered(buf, t, written[t]) /\ dropped[t] = 0
      BY <1>1, <3>2 DEF Stream, InHand
    <3>4. written[t] \in Nat
      BY <1>2
    <3>5. /\ Head(buf) = <<t, written[t] + 1>> /\ Head(buf) \in Byte /\ Len(buf) \in Nat \ {0}
          /\ Numbered(buf', t, written[t] + 1) /\ Len(buf') = Len(buf) - 1
      BY <1>2, <2>1, <3>3, <3>4, NumberedFirst
    <3>6. written[t] = Len(got[o]) + Len(outgoing[o])
      BY <1>1, <3>1 DEF Stream, Position
    <3>7. Head(buf) = <<t, Len(got[o]) + (Len(outgoing[o]) + 1)>>
      BY <1>2, <1>6, <3>5, <3>6
    <3>8. Numbered(outgoing[o], t, Len(got[o]))
      BY <1>1 DEF Stream, Buffered
    <3>9. Numbered(outgoing'[o], t, Len(got[o])) /\ Len(outgoing'[o]) = Len(outgoing[o]) + 1
      <4>1. Numbered(Append(outgoing[o], Head(buf)), t, Len(got[o]))
            /\ Len(Append(outgoing[o], Head(buf))) = Len(outgoing[o]) + 1
        BY <1>5, <1>6, <3>5, <3>7, <3>8, NumberedLast
      <4> QED
        BY <3>1, <4>1
    <3>10. Taken(t)' = Taken(t)
      <4>1. (written[t] + 1) + dropped[t] + (Len(buf) - 1) = written[t] + dropped[t] + Len(buf)
        <5>1. written[t] \in Nat /\ dropped[t] \in Nat /\ Len(buf) \in Nat
          BY <1>2, <1>6
        <5> QED
          BY <5>1, OneByteMoves, Zenon
      <4>2. Taken(t) = written[t] + dropped[t] + Len(buf)
        BY <3>2 DEF Taken, Pending
      <4>3. Taken(t)' = (written[t] + 1) + dropped[t] + (Len(buf) - 1)
        BY <2>1, <3>1, <3>2, <3>5 DEF Taken, Pending
      <4> QED
        BY <4>1, <4>2, <4>3
    <3>11. Accounted(t)' /\ Unread(t)' /\ Counted(t)'
      BY <1>1, <2>1, <3>10 DEF Stream, Accounted, Unread, Counted
    <3>12. InHand(t)' /\ Buffered(t)' /\ Received(t)'
      BY <1>1, <2>1, <3>1, <3>3, <3>5, <3>9 DEF Stream, InHand, Buffered, Received
    <3>13. Position(t)'
      <4>1. Len(got[o]) + (Len(outgoing[o]) + 1) = written[t] + 1
        BY <1>2, <1>6, <3>6
      <4> QED
        BY <2>1, <3>1, <3>9, <4>1 DEF Position
    <3> QED
      BY <3>11, <3>12, <3>13 DEF Stream
  <2> QED
    BY <2>2, <2>3
<1>17. ASSUME NEW s \in Side, Written(s) PROVE Stream(t)'
  <2>1. /\ pc = Writing(s) /\ buf = <<>> /\ pc' = After(s) /\ counted' = [counted EXCEPT ![s] = @ + chunk]
        /\ UNCHANGED <<sent, reset, arrived, outgoing, got, buf, chunk, written, dropped>>
    BY <1>17 DEF Written
  <2>2. Position(t)' /\ Buffered(t)' /\ Received(t)'
    BY <1>9, <2>1
  <2>3. pc' # Writing(t) /\ pc # "failed"
    BY <1>3, <1>4, <2>1
  <2>4. CASE s # t
    <3>1. pc # Writing(t) /\ counted'[t] = counted[t]
      BY <1>2, <1>3, <2>1, <2>4
    <3>2. Accounted(t)' /\ Unread(t)' /\ InHand(t)' /\ Counted(t)'
      BY <1>10, <2>1, <2>3, <3>1
    <3> QED
      BY <2>2, <3>2 DEF Stream
  <2>5. CASE s = t
    <3>1. pc = Writing(t) /\ counted'[t] = counted[t] + chunk /\ Len(buf) = 0
      BY <1>2, <2>1, <2>5
    <3>2. Taken(t)' = Taken(t)
      BY <1>2, <2>1, <2>3, <3>1 DEF Taken, Pending
    <3>3. Accounted(t)' /\ Unread(t)' /\ InHand(t)'
      BY <1>1, <2>1, <2>3, <3>2 DEF Stream, Accounted, Unread, InHand
    <3>4. Counted(t)'
      <4>1. Taken(t) = counted[t] + chunk
        BY <1>1, <2>3, <3>1 DEF Stream, Counted
      <4>2. counted'[t] \in Nat
        BY <1>2, <3>1
      <4> QED
        BY <2>3, <3>1, <3>2, <4>1, <4>2 DEF Counted
    <3> QED
      BY <2>2, <3>3, <3>4 DEF Stream
  <2> QED
    BY <2>4, <2>5
<1>18. ASSUME NEW s \in Side, WriteFails(s) PROVE Stream(t)'
  <2>1. pc' = "failed" /\ UNCHANGED <<sent, reset, arrived, outgoing, got, written>>
    BY <1>18 DEF WriteFails
  <2>2. Position(t)' /\ Buffered(t)' /\ Received(t)'
    BY <1>9, <2>1
  <2>3. Accounted(t)' /\ Unread(t)' /\ InHand(t)' /\ Counted(t)'
    BY <1>4, <2>1 DEF Accounted, Unread, InHand, Counted
  <2> QED
    BY <2>2, <2>3 DEF Stream
\* The steps that move no byte.
<1>19. CASE UNCHANGED vars \/ Finished
  BY <1>8, <1>9, <1>19 DEF vars, Finished, Stream
<1>20. ASSUME NEW s \in Side, ShutDown(s) PROVE Stream(t)'
  BY <1>8, <1>9, <1>20 DEF ShutDown, Stream
<1>21. ASSUME NEW s \in Side, Poll \/ PollFails \/ Check \/ NotReadable(s) \/ ReadFails(s) \/ EndOfTransmission(s)
       PROVE  Stream(t)'
  <2>1. UNCHANGED <<sent, reset, sockets, data>>
    BY <1>21 DEF Poll, PollFails, Check, NotReadable, ReadFails, EndOfTransmission
  <2>2. pc \in Side \cup {"poll", "check"}
        /\ pc' \in {"in", "failed", "poll", "done", After(s)}
    BY <1>21 DEF Poll, PollFails, Check, NotReadable, ReadFails, EndOfTransmission
  <2>3. pc # Writing(t) /\ pc' # Writing(t) /\ pc # "failed"
    BY <1>3, <1>4, <2>2
  <2>4. Accounted(t)' /\ Unread(t)' /\ InHand(t)' /\ Counted(t)'
    BY <1>10, <2>1, <2>3
  <2> QED
    BY <1>9, <2>1, <2>4 DEF Stream
<1> QED
  BY <1>11, <1>12, <1>13, <1>14, <1>15, <1>16, <1>17, <1>18, <1>19, <1>20, <1>21, Sides DEF Next, Thread, ThreadSide

LEMMA StepPreserves == IInv /\ [Next]_vars => IInv'
<1> SUFFICES ASSUME IInv, [Next]_vars PROVE IInv' OBVIOUS
<1>1. TypeOK' /\ Ended'
  BY TypesKept, EndedKept DEF IInv
<1>2. \A s \in Side : Stream(s)' /\ Knowledge(s)'
  BY StreamKept, KnowledgeKept
<1> QED
  BY <1>1, <1>2 DEF IInv

\* Two streams joined.
LEMMA JoinedOf ==
    ASSUME NEW S, NEW p \in Seq(S), NEW q \in Seq(S), NEW i \in DOMAIN (p \o q)
    PROVE  /\ i \in 1 .. Len(p) + Len(q)
           /\ (p \o q)[i] = IF i <= Len(p) THEN p[i] ELSE q[i - Len(p)]
OBVIOUS

LEMMA Joined ==
    ASSUME NEW p \in Bytes, NEW q \in Bytes, NEW i \in DOMAIN (p \o q)
    PROVE  /\ i \in 1 .. Len(p) + Len(q)
           /\ (p \o q)[i] = IF i <= Len(p) THEN p[i] ELSE q[i - Len(p)]
<1>1. Bytes = Seq(Byte)
  BY DEF Bytes, Byte
<1> QED
  BY <1>1, JoinedOf

-----------------------------------------------------------------------------
THEOREM Invariant == Spec => []IInv
BY InitEstablishes, StepPreserves, PTL DEF Spec

\* The state of the loop has the form shuttle.c expects, for streams of any length.
THEOREM TypeCorrect == Spec => []TypeOK
<1>1. IInv => TypeOK
  BY DEF IInv
<1> QED
  BY <1>1, Invariant, PTL

\* A peer receives what the other one sent, from the first byte on and without a
\* gap, whatever sizes reads and writes have (shuttle.c:35).
THEOREM StreamsStayInOrder == Spec => []InOrder
<1>1. IInv => InOrder
  <2> SUFFICES ASSUME IInv, NEW s \in Side, NEW i \in DOMAIN (got[s] \o outgoing[s])
               PROVE  (got[s] \o outgoing[s])[i] = <<Other(s), i>>
    BY DEF InOrder
  <2>1. got[s] \in Bytes /\ outgoing[s] \in Bytes /\ Buffered(Other(s)) /\ Received(Other(s))
    BY Sides DEF IInv, TypeOK, Stream
  <2>2. got \in [Side -> Bytes] /\ outgoing \in [Side -> Bytes]
        /\ Len(got[s]) \in Nat /\ Len(outgoing[s]) \in Nat
    BY <2>1, Lengths DEF IInv, TypeOK
  <2>3. /\ \A k \in 1 .. Len(outgoing[s]) : outgoing[s][k] = <<Other(s), Len(got[s]) + k>>
        /\ \A k \in 1 .. Len(got[s]) : got[s][k] = <<Other(s), 0 + k>>
    BY <2>1, Sides DEF Buffered, Received, Numbered
  <2>4. /\ i \in 1 .. Len(got[s]) + Len(outgoing[s])
        /\ (got[s] \o outgoing[s])[i] = IF i <= Len(got[s]) THEN got[s][i] ELSE outgoing[s][i - Len(got[s])]
    BY <2>1, <2>2, Joined
  <2>5. CASE i <= Len(got[s])
    BY <2>2, <2>3, <2>4, <2>5
  <2>6. CASE i > Len(got[s])
    <3>1. i - Len(got[s]) \in 1 .. Len(outgoing[s]) /\ Len(got[s]) + (i - Len(got[s])) = i
      BY <2>2, <2>4, <2>6
    <3> QED
      BY <2>2, <2>3, <2>4, <2>6, <3>1
  <2> QED
    BY <2>2, <2>4, <2>5, <2>6
<1> QED
  BY <1>1, Invariant, PTL

\* Bytes are thrown away only when their receiver has shut down or reset its
\* side (shuttle.c:43).
THEOREM NothingIsLostBefore == Spec => []LossOnlyToHungUp
<1>1. IInv => LossOnlyToHungUp
  <2> SUFFICES ASSUME IInv, NEW s \in Side, dropped[s] > 0 PROVE Other(s) \in fin \cup reset
    BY DEF LossOnlyToHungUp
  <2>1. NoneWritten(s) /\ HungUp(Other(s))
    BY Sides DEF IInv, Knowledge
  <2> QED
    BY <2>1 DEF NoneWritten, HungUp, CanPass
<1> QED
  BY <1>1, Invariant, PTL

\* A peer that shuts down while the other one stays has had all it sent passed
\* on, and counted, when the loop ends (shuttle.c:133).
THEOREM OrderlyEndLosesNothing == Spec => []OrderlyEndIsComplete
<1>1. IInv => OrderlyEndIsComplete
  <2> SUFFICES ASSUME IInv, NEW s \in Side, pc = "done", fin = {s}, reset = {}
               PROVE  written[s] = sent[s] /\ counted[s] = sent[s]
    BY DEF OrderlyEndIsComplete
  <2>1. s \notin open
    <3>1. PICK u \in Side : u \notin open
      BY DEF IInv, Ended, TypeOK
    <3>2. HungUp(u)
      BY DEF IInv, Knowledge
    <3> QED
      BY <3>1, <3>2 DEF HungUp
  <2>2. Len(arrived[s]) = 0
    <3>1. arrived[s] = <<>>
      BY <2>1 DEF IInv, Knowledge, Drained
    <3> QED
      BY <3>1
  <2>3. dropped[s] \in Nat /\ written[s] \in Nat /\ counted[s] \in Nat /\ sent[s] \in Nat
    BY SizesAssumption DEF IInv, TypeOK
  <2>4. dropped[s] = 0
    <3>1. ~(dropped[s] > 0)
      BY Sides DEF IInv, Knowledge, NoneWritten, HungUp, CanPass
    <3> QED
      BY <2>3, <3>1
  <2>5. pc # Writing(s) /\ Taken(s) = written[s]
    BY <2>3, <2>4 DEF Taken, Pending, Writing
  <2> QED
    BY <2>2, <2>3, <2>5 DEF IInv, Stream, Accounted, Counted
<1> QED
  BY <1>1, Invariant, PTL
=============================================================================

-------------------------- MODULE JsonStatusProofs --------------------------
(***************************************************************************)
(* What is proved of JsonStatus, for any number of connections and blocks. *)
(*                                                                         *)
(* The argument: a string exists only between lines 415 and 421 or after   *)
(* JSONStatusReady is set, and a connection with that flag gets no other   *)
(* one.  So the main thread never copies over a string, and a thread that  *)
(* saw the flag frees the only string its connection will ever have.  The  *)
(* list cannot change between the building of the document and the last    *)
(* copy, so the document lists everybody it is copied to.                  *)
(***************************************************************************)
EXTENDS JsonStatus, TLAPS

\* An object that is not on the list is as malloc and the constructor left it.
FreeIsClean == \A c \in Con : at[c] = "free" => c \notin requested /\ str[c] = None

\* A string comes with the flag, or just before it.
StringIsHandedOver == \A c \in Con : str[c] # None => c \in ready \/ filling = c

\* The main thread fills in a connection's fields only while it copies, and
\* everybody on the list is in the document it copies.
CopyInProgress ==
    /\ filling # None => stage = "copy" /\ filling \in requested
    /\ stage \in {"built", "copy"} => Listed \subseteq json

\* The string a connection holds lists the connection.
OwnDocument == \A c \in Con : str[c] # None /\ ~Cleared(c) => c \in lists[str[c]]

\* A thread that sends has what it sends.
SendHasString == \A c \in Con : at[c] = "send" => str[c] # None /\ c \in ready

\* StringsAreLive, for every object.
Live(c) == str[c] # None /\ ~Cleared(c)
AllLive ==
    \A c \in Con : Live(c) =>
        /\ str[c] \in allocated
        /\ \A d \in Con \ {c} : str[d] # str[c] \/ Cleared(d)

IInv == /\ TypeOK /\ FreeIsClean /\ StringIsHandedOver /\ CopyInProgress
        /\ OwnDocument /\ SendHasString /\ AllLive /\ DeliveredIsFreed

USE DEF flags, buffers, mainVars, vars

LEMMA InitEstablishes == Init => IInv
<1> SUFFICES ASSUME Init PROVE IInv
  OBVIOUS
<1> USE DEF Init
<1>1. TypeOK
  BY DEF TypeOK, Places
<1>2. FreeIsClean /\ StringIsHandedOver /\ CopyInProgress
  BY DEF FreeIsClean, StringIsHandedOver, CopyInProgress
<1>3. OwnDocument /\ SendHasString /\ AllLive /\ DeliveredIsFreed
  BY DEF OwnDocument, SendHasString, AllLive, Live, DeliveredIsFreed
<1> QED
  BY <1>1, <1>2, <1>3 DEF IInv

\* A step of a thread that frees nothing: it moves on, and its flags may grow.
Moves(c) ==
    \/ OtherRequest(c) \/ Request(c) \/ SeesReady(c) \/ TimesOut(c) \/ Answer(c) \/ Sent(c)
    \/ \E place \in {"drop", "last"} : NothingToFree(c, place)

LEMMA MovePreserves ==
    ASSUME IInv, NEW c \in Con, Moves(c)
    PROVE  IInv'
<1> USE DEF IInv, TypeOK, Goes
<1>1. UNCHANGED <<ready, buffers, mainVars>>
  BY DEF Moves, OtherRequest, Request, SeesReady, TimesOut, Answer, Sent, NothingToFree
<1>2. PICK to \in Places \ {"free", "cleared", "clearedLast"} :
         /\ at' = [at EXCEPT ![c] = to]
         /\ at[c] \notin {"free", "cleared", "clearedLast"}
         /\ to = "send" => str[c] # None /\ c \in ready
         /\ to = "gone" => str[c] = None
  BY DEF Moves, OtherRequest, Request, SeesReady, TimesOut, Answer, Sent, Sends,
         NothingToFree, MustFree, AfterPlace, Places
<1>3. /\ requested' \in {requested, requested \cup {c}}
      /\ delivered' \in {delivered, delivered \cup {c}}
      /\ delivered' # delivered => c \in ready /\ at'[c] = "answer"
  BY <1>2 DEF Moves, OtherRequest, Request, SeesReady, TimesOut, Answer, Sent, NothingToFree
<1>4. TypeOK'
  <2>1. at' \in [Con -> Places]
    BY <1>2
  <2> QED
    BY <1>1, <1>3, <2>1
<1>5. Listed' = Listed /\ \A d \in Con : Cleared(d)' <=> Cleared(d)
  BY <1>2 DEF Listed, Cleared
<1>6. FreeIsClean' /\ StringIsHandedOver' /\ CopyInProgress'
  BY <1>1, <1>2, <1>3, <1>5 DEF FreeIsClean, StringIsHandedOver, CopyInProgress
<1>7. OwnDocument' /\ AllLive'
  BY <1>1, <1>5 DEF OwnDocument, AllLive, Live
<1>8. SendHasString'
  BY <1>1, <1>2 DEF SendHasString
<1>9. DeliveredIsFreed'
  BY <1>1, <1>2, <1>3 DEF DeliveredIsFreed
<1> QED
  BY <1>4, <1>6, <1>7, <1>8, <1>9

\* free(con->JSONStatusStr): no other connection holds that block.
LEMMA FreeStringPreserves ==
    ASSUME IInv, NEW c \in Con, NEW place \in {"drop", "last"}, FreeString(c, place)
    PROVE  IInv'
<1> USE DEF IInv, TypeOK, Goes, FreeString, MustFree
<1>1. /\ at' = [at EXCEPT ![c] = AfterFree(place)] /\ at[c] = place
      /\ AfterFree(place) \in {"cleared", "clearedLast"}
  BY DEF AfterFree
<1>2. TypeOK'
  BY <1>1 DEF Places
<1>3. Listed' = Listed /\ Cleared(c)' /\ \A d \in Con \ {c} : Cleared(d)' <=> Cleared(d)
  BY <1>1 DEF Listed, Cleared
<1>4. FreeIsClean' /\ StringIsHandedOver' /\ CopyInProgress' /\ SendHasString' /\ DeliveredIsFreed'
  BY <1>1, <1>3
  DEF FreeIsClean, StringIsHandedOver, CopyInProgress, SendHasString, DeliveredIsFreed
<1>5. OwnDocument'
  BY <1>3 DEF OwnDocument
<1>6. Live(c)
  BY <1>1 DEF Live, Cleared
<1>7. AllLive'
  BY <1>3, <1>6 DEF AllLive, Live
<1> QED
  BY <1>2, <1>4, <1>5, <1>7

\* con->JSONStatusStr = NULL.
LEMMA SetNullPreserves ==
    ASSUME IInv, NEW c \in Con, NEW place \in {"drop", "last"}, SetNull(c, place)
    PROVE  IInv'
<1> USE DEF IInv, TypeOK, Goes, SetNull, Reset
<1>1. /\ at' = [at EXCEPT ![c] = AfterPlace(place)] /\ Cleared(c)
      /\ AfterPlace(place) \in {"last", "gone"}
  BY DEF AfterPlace, AfterFree, Cleared
<1>2. TypeOK'
  BY <1>1 DEF Places
<1>3. Listed' = Listed /\ \A d \in Con \ {c} : Cleared(d)' <=> Cleared(d)
  BY <1>1 DEF Listed, Cleared
<1>4. FreeIsClean' /\ StringIsHandedOver' /\ CopyInProgress' /\ SendHasString' /\ DeliveredIsFreed'
  BY <1>1, <1>3
  DEF FreeIsClean, StringIsHandedOver, CopyInProgress, SendHasString, DeliveredIsFreed
<1>5. OwnDocument' /\ AllLive'
  BY <1>3 DEF OwnDocument, AllLive, Live
<1> QED
  BY <1>2, <1>4, <1>5

\* accept_connection and free_client_connection: only outside the JSON part.
LEMMA ListPreserves ==
    ASSUME IInv, NEW c \in Con, Accept(c) \/ Cleanup(c)
    PROVE  IInv'
<1> USE DEF IInv, TypeOK, Goes
<1>1. CASE Accept(c)
  <2>1. at' = [at EXCEPT ![c] = "new"] /\ at[c] = "free" /\ stage = "idle"
    BY <1>1 DEF Accept, ListMayChange
  <2>2. UNCHANGED <<flags, buffers, mainVars, delivered>>
    BY <1>1 DEF Accept
  <2>3. \A d \in Con : Cleared(d)' <=> Cleared(d)
    BY <2>1 DEF Cleared
  <2>4. TypeOK'
    BY <2>1, <2>2 DEF Places
  <2>5. FreeIsClean' /\ StringIsHandedOver' /\ CopyInProgress' /\ SendHasString' /\ DeliveredIsFreed'
    BY <2>1, <2>2
    DEF FreeIsClean, StringIsHandedOver, CopyInProgress, SendHasString, DeliveredIsFreed
  <2>6. OwnDocument' /\ AllLive'
    BY <2>2, <2>3 DEF OwnDocument, AllLive, Live
  <2> QED
    BY <2>4, <2>5, <2>6
<1>2. CASE Cleanup(c)
  <2> USE <1>2 DEF Cleanup
  <2>1. \A d \in Con \ {c} : Cleared(d)' <=> Cleared(d)
    BY DEF Cleared
  <2>2. filling = None
    BY NoneAssumption DEF CopyInProgress
  <2>3. TypeOK'
    BY DEF Places
  <2>4. FreeIsClean' /\ StringIsHandedOver' /\ CopyInProgress' /\ SendHasString' /\ DeliveredIsFreed'
    BY <2>2
    DEF FreeIsClean, StringIsHandedOver, CopyInProgress, SendHasString, DeliveredIsFreed
  <2>5. OwnDocument' /\ AllLive'
    BY <2>1 DEF OwnDocument, AllLive, Live
  <2> QED
    BY <2>3, <2>4, <2>5
<1> QED
  BY <1>1, <1>2

\* The main thread's search, the building of the document and the end.
LEMMA SearchPreserves ==
    ASSUME IInv, StartSearch \/ StartCopying \/ LoopEnds \/ \E c \in Con : Pass(c) \/ Build(c)
    PROVE  IInv'
<1> USE DEF IInv, TypeOK
<1>1. UNCHANGED <<at, flags, buffers, filling, delivered>>
  BY DEF StartSearch, StartCopying, LoopEnds, Pass, Build
<1>2. Listed' = Listed /\ \A d \in Con : Cleared(d)' <=> Cleared(d)
  BY <1>1 DEF Listed, Cleared
<1>3. TypeOK'
  BY <1>1 DEF StartSearch, StartCopying, LoopEnds, Pass, Build, Everywhere, Listed
<1>4. CopyInProgress'
  BY <1>1, <1>2 DEF CopyInProgress, StartSearch, StartCopying, LoopEnds, Pass, Build
<1>5. FreeIsClean' /\ StringIsHandedOver' /\ SendHasString' /\ DeliveredIsFreed'
  BY <1>1 DEF FreeIsClean, StringIsHandedOver, SendHasString, DeliveredIsFreed
<1>6. OwnDocument' /\ AllLive'
  BY <1>1, <1>2 DEF OwnDocument, AllLive, Live
<1> QED
  BY <1>3, <1>4, <1>5, <1>6

\* con->JSONStatusStr = strdup(json): the block is new, the field was NULL.
LEMMA CopyPreserves ==
    ASSUME IInv, NEW c \in Con, CopyString(c)
    PROVE  IInv'
<1> USE DEF IInv, TypeOK, CopyString, Pending
<1>1. Listed' = Listed /\ \A d \in Con : Cleared(d)' <=> Cleared(d)
  BY DEF Listed, Cleared
<1>2. /\ c \in json /\ at[c] # "free" /\ c \notin delivered /\ c \in requested
      /\ str' \in [Con -> Block \cup {None}] /\ \A d \in Con \ {c} : str'[d] = str[d]
  BY DEF CopyInProgress, FreeIsClean, Listed
<1>3. TypeOK' /\ CopyInProgress'
  BY <1>1, <1>2 DEF CopyInProgress
<1>4. FreeIsClean' /\ SendHasString' /\ DeliveredIsFreed'
  BY <1>2 DEF FreeIsClean, SendHasString, DeliveredIsFreed
<1>5. StringIsHandedOver'
  BY <1>2, NoneAssumption DEF StringIsHandedOver
<1>6. CASE str' = [str EXCEPT ![c] = None] /\ UNCHANGED <<allocated, lists>>
  BY <1>1, <1>3, <1>4, <1>5, <1>6 DEF OwnDocument, AllLive, Live
<1>7. ASSUME NEW b \in Block \ allocated,
             allocated' = allocated \cup {b},
             str' = [str EXCEPT ![c] = b],
             lists' = [lists EXCEPT ![b] = json]
      PROVE  OwnDocument' /\ AllLive'
  <2>1. \A d \in Con : str[d] = b => Cleared(d)
    BY <1>7, NoneAssumption DEF AllLive, Live
  <2>2. str'[c] = b /\ lists'[b] = json /\ \A e \in Block \ {b} : lists'[e] = lists[e]
    BY <1>7
  <2>3. OwnDocument'
    BY <1>1, <1>2, <2>1, <2>2 DEF OwnDocument
  <2>4. AllLive'
    BY <1>1, <1>2, <1>7, <2>1, <2>2 DEF AllLive, Live
  <2> QED
    BY <2>3, <2>4
<1> QED
  BY <1>3, <1>4, <1>5, <1>6, <1>7

\* con->JSONStatusReady = 1.
LEMMA SetReadyPreserves ==
    ASSUME IInv, NEW c \in Con, SetReady(c)
    PROVE  IInv'
<1> USE NoneAssumption DEF IInv, TypeOK, SetReady
<1>1. \A d \in Con : Cleared(d)' <=> Cleared(d)
  BY DEF Cleared
<1>2. OwnDocument' /\ AllLive'
  BY <1>1 DEF OwnDocument, AllLive, Live
<1>3. FreeIsClean' /\ StringIsHandedOver' /\ SendHasString' /\ DeliveredIsFreed'
  BY DEF FreeIsClean, StringIsHandedOver, SendHasString, DeliveredIsFreed
<1>4. TypeOK' /\ CopyInProgress'
  BY DEF CopyInProgress, Listed
<1> QED
  BY <1>2, <1>3, <1>4

-----------------------------------------------------------------------------
LEMMA NextPreserves == IInv /\ [Next]_vars => IInv'
<1> SUFFICES ASSUME IInv, [Next]_vars PROVE IInv'
  OBVIOUS
<1>1. CASE UNCHANGED vars
  BY <1>1
  DEF IInv, TypeOK, FreeIsClean, StringIsHandedOver, CopyInProgress, OwnDocument,
      SendHasString, AllLive, Live, DeliveredIsFreed, Listed, Cleared
<1>2. CASE MainThread
  BY <1>2, SearchPreserves, CopyPreserves, SetReadyPreserves DEF MainThread
<1>3. ASSUME NEW c \in Con, Thread(c) PROVE IInv'
  BY <1>3, MovePreserves, FreeStringPreserves, SetNullPreserves DEF Thread, Moves
<1>4. ASSUME NEW c \in Con, Accept(c) \/ Cleanup(c) PROVE IInv'
  BY <1>4, ListPreserves
<1> QED
  BY <1>1, <1>2, <1>3, <1>4 DEF Next

LEMMA Invariance == Spec => []IInv
<1>1. Init => IInv
  BY InitEstablishes
<1>2. IInv /\ [Next]_vars => IInv'
  BY NextPreserves
<1> QED
  BY <1>1, <1>2, PTL DEF Spec

\* The fields and the main thread's loops have the form build_json.c gives them.
THEOREM TypeCorrect == Spec => []TypeOK
<1>1. IInv => TypeOK
  BY DEF IInv
<1> QED
  BY <1>1, Invariance, PTL

\* No string is freed or sent twice, and none is shared, however the main
\* thread's copy and the HTTP thread's timeout interleave.
THEOREM StringsStayLive == Spec => [](TypeOK /\ StringsAreLive)
<1>1. IInv => TypeOK /\ StringsAreLive
  BY DEF IInv, AllLive, Live, StringsAreLive, Listed
<1> QED
  BY <1>1, Invariance, PTL

\* A status document lists the connection it is sent to.
THEOREM AnswerIsAboutRequester == Spec => []AnswerListsRequester
<1>1. IInv => AnswerListsRequester
  BY DEF IInv, OwnDocument, SendHasString, AnswerListsRequester, Cleared
<1> QED
  BY <1>1, Invariance, PTL

\* Who sees its answer frees it; the main thread hands over once.
THEOREM DeliveredStringIsFreed == Spec => []DeliveredIsFreed
<1>1. IInv => DeliveredIsFreed
  BY DEF IInv
<1> QED
  BY <1>1, Invariance, PTL

\* CopyString never overwrites a string.
THEOREM OneHandOver == Spec => HandedOverOnce
<1>1. IInv /\ [Next]_vars => [HandOver]_vars
  BY NoneAssumption DEF IInv, StringIsHandedOver, HandOver, CopyString, Pending
<1> QED
  BY <1>1, Invariance, PTL DEF Spec, HandedOverOnce
=============================================================================

----------------------------- MODULE JsonStatus -----------------------------
(***************************************************************************)
(* How a snapshot of all connections gets from the main thread to the HTTP *)
(* threads that were asked for /status.json (service_http.c against the    *)
(* JSON part of the main loop in server.c).                                *)
(*                                                                         *)
(* The two sides share three plain fields of the connection, with no lock: *)
(* the thread sets JSONStatusRequested and polls JSONStatusReady for about *)
(* a second; the main thread, once per turn of its loop, looks whether any *)
(* listed connection waits, builds ONE document, and copies it to every    *)
(* connection that waits by then: first JSONStatusStr, then                *)
(* JSONStatusReady.  The thread frees the copy.  It may stop waiting       *)
(* between any two of the main thread's steps.                             *)
(***************************************************************************)
EXTENDS Naturals, FiniteSets

CONSTANTS
    Con,      \* connection objects of an HTTP service
    Block,    \* heap blocks that strdup() may return
    None      \* NULL

ASSUME NoneAssumption == None \notin Block \cup Con

VARIABLES
    at,                    \* [Con -> where its thread is; "free": not on the list]
    requested, ready,      \* the connections whose JSONStatus flag is set
    str,                   \* con->JSONStatusStr
    allocated,             \* the blocks in use
    lists,                 \* [Block -> the connections the copied document lists]
    stage, todo,           \* the main thread: what it does, and is still to visit
    json,                  \* the connections the document just built lists
    filling,               \* the connection between lines 415 and 421, or None
    delivered              \* history: the threads that stopped waiting because of ready

flags == <<requested, ready>>
buffers == <<str, allocated, lists>>
mainVars == <<stage, todo, json, filling>>
vars == <<at, flags, buffers, mainVars, delivered>>

Listed == {c \in Con : at[c] # "free"}

Init ==
    /\ at = [c \in Con |-> "free"]
    /\ requested = {} /\ ready = {} /\ delivered = {}
    /\ str = [c \in Con |-> None] /\ allocated = {}
    /\ lists = [b \in Block |-> {}]
    /\ stage = "idle" /\ todo = {} /\ json = {} /\ filling = None

-----------------------------------------------------------------------------
\* The HTTP thread.

Goes(c, from, to) == at[c] = from /\ at' = [at EXCEPT ![c] = to]

\* A request for a file, a bad one, or none: the thread goes on to the last check.
OtherRequest(c) ==
    /\ Goes(c, "new", "last")
    /\ UNCHANGED <<flags, buffers, mainVars, delivered>>

Request(c) ==
    /\ Goes(c, "new", "wait")
    /\ requested' = requested \cup {c}
    /\ UNCHANGED <<ready, buffers, mainVars, delivered>>

\* The polling loop ends because the answer is there, or after 100 turns.
SeesReady(c) ==
    /\ c \in ready
    /\ Goes(c, "wait", "answer")
    /\ delivered' = delivered \cup {c}
    /\ UNCHANGED <<flags, buffers, mainVars>>

TimesOut(c) ==
    /\ Goes(c, "wait", "answer")
    /\ UNCHANGED <<flags, buffers, mainVars, delivered>>

\* The headers are out; the body is the string, if it is there by now.
Sends(c) == c \in ready /\ str[c] # None
Answer(c) ==
    /\ Goes(c, "answer", IF Sends(c) THEN "send" ELSE "drop")
    /\ UNCHANGED <<flags, buffers, mainVars, delivered>>

Sent(c) ==
    /\ Goes(c, "send", "drop")
    /\ UNCHANGED <<flags, buffers, mainVars, delivered>>

\* if (con->JSONStatusStr != NULL) { free(...); con->JSONStatusStr = NULL; },
\* which the thread does at two places, "drop" and "last".
MustFree(c) == str[c] # None
AfterFree(place) == IF place = "drop" THEN "cleared" ELSE "clearedLast"
AfterPlace(place) == IF place = "drop" THEN "last" ELSE "gone"

FreeString(c, place) ==
    /\ MustFree(c)
    /\ Goes(c, place, AfterFree(place))
    /\ allocated' = allocated \ {str[c]}
    /\ UNCHANGED <<flags, str, lists, mainVars, delivered>>

NotReset(c) == str               \* mutant: the field keeps the freed address
Reset(c) == [str EXCEPT ![c] = None]
SetNull(c, place) ==
    /\ Goes(c, AfterFree(place), AfterPlace(place))
    /\ str' = Reset(c)
    /\ UNCHANGED <<flags, allocated, lists, mainVars, delivered>>

NothingToFree(c, place) ==
    /\ ~MustFree(c)
    /\ Goes(c, place, AfterPlace(place))
    /\ UNCHANGED <<flags, buffers, mainVars, delivered>>

Thread(c) ==
    \/ OtherRequest(c) \/ Request(c) \/ SeesReady(c) \/ TimesOut(c)
    \/ Answer(c) \/ Sent(c)
    \/ \E place \in {"drop", "last"} :
          FreeString(c, place) \/ SetNull(c, place) \/ NothingToFree(c, place)

-----------------------------------------------------------------------------
\* The main thread.  It accepts and reaps connections only outside this part.

AnyTime == TRUE                  \* mutant: the list changes under the snapshot
ListMayChange == stage = "idle"

Accept(c) ==
    /\ ListMayChange /\ Goes(c, "free", "new")
    /\ UNCHANGED <<flags, buffers, mainVars, delivered>>

Cleanup(c) ==
    /\ stage = "idle" /\ Goes(c, "gone", "free")
    /\ requested' = requested \ {c} /\ ready' = ready \ {c}
    /\ delivered' = delivered \ {c}
    /\ str' = [str EXCEPT ![c] = None]
    /\ UNCHANGED <<allocated, lists, mainVars>>

Pending(c) == c \in requested /\ c \notin ready

FirstProxy == Listed \ {CHOOSE c \in Con : TRUE}    \* mutant: not every proxy's list
Everywhere == Listed

\* needJSON: the first connection that waits ends the search.
StartSearch ==
    /\ stage = "idle" /\ stage' = "search" /\ todo' = Everywhere
    /\ UNCHANGED <<at, flags, buffers, json, filling, delivered>>

Pass(c) ==
    /\ stage \in {"search", "copy"} /\ filling = None
    /\ c \in todo /\ ~Pending(c)
    /\ todo' = todo \ {c}
    /\ UNCHANGED <<at, flags, buffers, stage, json, filling, delivered>>

Build(c) ==
    /\ stage = "search" /\ c \in todo /\ Pending(c)
    /\ stage' = "built" /\ json' = Listed
    /\ UNCHANGED <<at, flags, buffers, todo, filling, delivered>>

StartCopying ==
    /\ stage = "built" /\ stage' = "copy" /\ todo' = Listed
    /\ UNCHANGED <<at, flags, buffers, json, filling, delivered>>

CopyString(c) ==
    /\ stage = "copy" /\ filling = None
    /\ c \in todo /\ Pending(c)
    /\ filling' = c
    /\ \/ \E b \in Block \ allocated :
             /\ allocated' = allocated \cup {b}
             /\ str' = [str EXCEPT ![c] = b]
             /\ lists' = [lists EXCEPT ![b] = json]
       \/ /\ str' = [str EXCEPT ![c] = None]      \* build_json() or strdup() failed
          /\ UNCHANGED <<allocated, lists>>
    /\ UNCHANGED <<at, flags, stage, todo, json, delivered>>

SetReady(c) ==
    /\ filling = c
    /\ ready' = ready \cup {c} /\ filling' = None /\ todo' = todo \ {c}
    /\ UNCHANGED <<at, requested, buffers, stage, json, delivered>>

LoopEnds ==
    /\ stage \in {"search", "copy"} /\ todo = {} /\ filling = None
    /\ stage' = "idle"
    /\ UNCHANGED <<at, flags, buffers, todo, json, filling, delivered>>

MainThread ==
    \/ StartSearch \/ StartCopying \/ LoopEnds
    \/ \E c \in Con : Pass(c) \/ Build(c) \/ CopyString(c) \/ SetReady(c)

Next ==
    \/ MainThread
    \/ \E c \in Con : Thread(c) \/ Accept(c) \/ Cleanup(c)

Spec == Init /\ [][Next]_vars

\* The main loop goes round: the request wakes its poll().  Nothing is assumed
\* of the HTTP threads, which may wait as long as they like.
FairSpec == Spec /\ WF_vars(MainThread)

-----------------------------------------------------------------------------
Places == {"free", "new", "wait", "answer", "send", "drop", "cleared", "last",
           "clearedLast", "gone"}

TypeOK ==
    /\ at \in [Con -> Places]
    /\ requested \subseteq Con /\ ready \subseteq requested
    /\ delivered \subseteq ready
    /\ str \in [Con -> Block \cup {None}]
    /\ allocated \subseteq Block /\ lists \in [Block -> SUBSET Con]
    /\ stage \in {"idle", "search", "built", "copy"}
    /\ todo \subseteq Con /\ json \subseteq Con
    /\ filling \in Con \cup {None}

(***************************************************************************)
(* Whenever the thread is about to read or free JSONStatusStr, the block   *)
(* is allocated and no other connection's: the main thread's late copy     *)
(* never makes the thread free or send a block twice.                      *)
(***************************************************************************)
Cleared(c) == at[c] \in {"cleared", "clearedLast"}
StringsAreLive ==
    \A c \in Listed : str[c] # None /\ ~Cleared(c) =>
        /\ str[c] \in allocated
        /\ \A d \in Listed \ {c} : str[d] # str[c] \/ Cleared(d)

(***************************************************************************)
(* /status.json answers a connection with a document in which that very    *)
(* connection appears, although the document was built on behalf of        *)
(* another one and perhaps before this one asked.                          *)
(***************************************************************************)
AnswerListsRequester == \A c \in Con : at[c] = "send" => c \in lists[str[c]]

(***************************************************************************)
(* A thread that waited until its answer was ready leaves nothing behind:  *)
(* only one that gave up can.                                              *)
(***************************************************************************)
DeliveredIsFreed == \A c \in delivered : at[c] = "gone" => str[c] = None

(***************************************************************************)
(* The main thread hands a document over once: the field it copies into    *)
(* never holds a block.                                                    *)
(***************************************************************************)
HandOver == \A c \in Con : CopyString(c) => str[c] = None
HandedOverOnce == [][HandOver]_vars

(***************************************************************************)
(* Whoever asked is answered, if only it waits: the main thread finds it,  *)
(* whether or not others ask at the same time.                             *)
(***************************************************************************)
RequestIsServed == \A c \in Con : c \in requested ~> (c \in ready \/ at[c] = "free")

(***************************************************************************)
(* service_http.c, above its last check of the string: "as the sole        *)
(* consumer of this data, it's our responsibility to free it."  So what is *)
(* allocated is named by a connection that still has its thread.           *)
(***************************************************************************)
NothingLeaks ==
    \A b \in allocated : \E c \in Listed : str[c] = b /\ at[c] # "gone"
=============================================================================

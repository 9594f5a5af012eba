---------------------------- MODULE SocksSession ----------------------------
(***************************************************************************)
(* What a client of the SOCKS service can rely on, without tunnels,        *)
(* attempts or messages: a session goes from the greeting to a connection  *)
(* attempt, is answered at most once and only when the attempt has         *)
(* succeeded, relays bytes only after the answer is out, and may be closed *)
(* at any moment; nothing follows the close.                               *)
(***************************************************************************)
CONSTANT Answers     \* the answers there are

VARIABLES phase, answer

None == "none"

Init == phase = "greeting" /\ answer = None

Connect == phase = "greeting" /\ phase' = "connecting" /\ UNCHANGED answer

Answer ==
    /\ phase = "connecting" /\ answer = None
    /\ phase' = "relaying" /\ answer' \in Answers

Close == phase # "closed" /\ phase' = "closed" /\ UNCHANGED answer

Next == Connect \/ Answer \/ Close

Spec == Init /\ [][Next]_<<phase, answer>>
=============================================================================

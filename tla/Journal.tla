------------------------------ MODULE Journal ------------------------------
(***************************************************************************)
(* What a rotated log file promises to the one who reads its files from    *)
(* the oldest to the newest: every record is found once and after all      *)
(* earlier ones, and only the oldest ones are ever deleted, so that there  *)
(* is no gap.  What is read is the set of the records that are found, and  *)
(* the pairs of which the first one is found before the second.            *)
(***************************************************************************)
EXTENDS Naturals

VARIABLES last,    \* records written so far; the next one is last + 1
          kept,    \* the records the files still hold
          before   \* the order in which they are read

InOrder(records) == {p \in records \X records : p[1] < p[2]}

Init == last = 0 /\ kept = {} /\ before = {}

Write ==
    /\ last' = last + 1
    /\ kept' = kept \cup {last + 1}
    /\ before' = InOrder(kept')

DeleteOldest ==
    /\ kept' \subseteq kept /\ \A r \in kept', s \in kept : s > r => s \in kept'
    /\ before' = InOrder(kept')
    /\ UNCHANGED last

Next == Write \/ DeleteOldest

Spec == Init /\ [][Next]_<<last, kept, before>>
=============================================================================

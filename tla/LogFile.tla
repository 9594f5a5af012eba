------------------------------ MODULE LogFile ------------------------------
(***************************************************************************)
(* One log file (log_file.c): any thread appends records to it while the   *)
(* main thread renames the chain  file.2 -> file.3, file.1 -> file.2,      *)
(* file -> file.1  and then makes the next writer open a new file.         *)
(*                                                                         *)
(* log_file_write holds log_file_mutex from its first look at the          *)
(* descriptor to its last update of byte_count, so it is one step; the     *)
(* renames are made without the mutex.  The files' contents are kept by    *)
(* file, not by name, as a descriptor survives the renaming of its file:   *)
(* home[r] is the file record r was written to.  Every record has size 1.  *)
(*                                                                         *)
(* The program may die at any moment (unexpected_exit of a rename that     *)
(* fails included) and be started again over the files it left.            *)
(***************************************************************************)
EXTENDS Naturals, Integers, Sequences

CONSTANTS
    ByteCountMax,           \* byte_count_max
    RotateCount,         \* file_rotate_count
    None,
    MaxRecords,    \* records of the other threads (bound of the model)
    MaxLost,       \* writes that fail (bound of the model)
    MaxRestarts    \* (bound of the model)

ASSUME LogFileAssumption ==
    /\ ByteCountMax \in Nat \ {0} /\ RotateCount \in Nat
    /\ None \notin Nat
    /\ MaxRecords \in Nat /\ MaxLost \in Nat /\ MaxRestarts \in Nat

VARIABLES
    names,       \* [0 .. RotateCount -> the file of that name, or None]; 0 is the log's own name
    made,        \* files created so far; the next one is made + 1
    home,        \* the records in the order of their writes: the file of each
    fd,          \* log->fd: the file it is open on, or None for -1
    byteCount,   \* log->byte_count
    pc, i,       \* log_file_rotate of the main thread: where it is, and its loop counter
    closing,     \* its local fd
    verbose,     \* whether debug() of the main thread goes to this file
    exited,      \* the program left by unexpected_exit(3)
    lost, restarts

files == <<names, made, home>>
log == <<fd, byteCount>>
rotation == <<pc, i, closing>>
vars == <<files, log, rotation, verbose, exited, lost, restarts>>

Init ==
    /\ names = [k \in 0 .. RotateCount |-> None] /\ made = 0 /\ home = <<>>
    /\ fd = None /\ byteCount = 0
    /\ pc = "idle" /\ i = 0 /\ closing = None
    /\ verbose \in BOOLEAN /\ exited = FALSE /\ lost = 0 /\ restarts = 0

-----------------------------------------------------------------------------
\* log_file_write.

\* log_file_open: O_CREAT makes the file if its name is free.
Truncates == fd = None   \* mutant: O_TRUNC for O_APPEND
MustCreate == fd = None /\ names[0] = None
Opened == IF fd # None THEN fd ELSE IF MustCreate THEN made + 1 ELSE names[0]
\* lseek(SEEK_CUR) of a file just opened is 0, whatever the file holds.
CountOnOpen == 0

LogFileWrite(written) ==
    /\ names' = IF MustCreate THEN [names EXCEPT ![0] = Opened] ELSE names
    /\ made' = IF MustCreate THEN made + 1 ELSE made
    /\ home' = IF written THEN Append(home, Opened) ELSE home
    /\ fd' = Opened
    /\ byteCount' = (IF fd = None THEN CountOnOpen ELSE byteCount) + 1

ThreadLogs ==
    /\ ~exited /\ Len(home) < MaxRecords
    /\ LogFileWrite(TRUE)
    /\ UNCHANGED <<rotation, verbose, exited, lost, restarts>>

\* open() fails: the log stays closed, the next writer tries again.
OpenFails == fd = None /\ UNCHANGED <<files, log>>

\* open() or write() fails: the record is dropped; after a failed write() it
\* is counted all the same.
ThreadLogFails ==
    /\ ~exited /\ lost < MaxLost
    /\ (LogFileWrite(FALSE) \/ OpenFails)
    /\ lost' = lost + 1
    /\ UNCHANGED <<rotation, verbose, exited, restarts>>

-----------------------------------------------------------------------------
\* log_file_rotate.

FirstRename == RotateCount - 1
StrictlyMore == byteCount > ByteCountMax   \* mutant
NeedsRotation == byteCount >= ByteCountMax
GoesBelowZero(n) ==   \* mutant: the chain is renamed once too often
    /\ i' = n
    /\ pc' = IF n < -1 THEN "reset" ELSE IF verbose THEN "debug" ELSE "rename"
\* The head of the loop: every rename is announced by debug() first.
LoopAt(n) ==
    /\ i' = n
    /\ pc' = IF n < 0 THEN "reset" ELSE IF verbose THEN "debug" ELSE "rename"

Check ==
    /\ ~exited /\ pc = "idle" /\ NeedsRotation
    /\ LoopAt(FirstRename)
    /\ UNCHANGED <<files, log, closing, verbose, exited, lost, restarts>>

Debug ==
    /\ ~exited /\ pc = "debug"
    /\ LogFileWrite(TRUE)
    /\ pc' = "rename"
    /\ UNCHANGED <<i, closing, verbose, exited, lost, restarts>>

\* rename() of a name that does not exist fails with ENOENT and is ignored.
Rename ==
    /\ ~exited /\ pc = "rename"
    /\ names' = IF names[i] = None THEN names
                ELSE [names EXCEPT ![i + 1] = names[i], ![i] = None]
    /\ LoopAt(i - 1)
    /\ UNCHANGED <<made, home, log, closing, verbose, exited, lost, restarts>>

DescriptorKept ==   \* mutant: the next writer does not open a new file
    /\ ~exited /\ pc = "reset"
    /\ closing' = fd /\ byteCount' = 0 /\ pc' = "close"
    /\ UNCHANGED <<files, fd, i, verbose, exited, lost, restarts>>

CountKept ==   \* mutant: byte_count is not reset
    /\ ~exited /\ pc = "reset"
    /\ closing' = fd /\ fd' = None /\ pc' = "close"
    /\ UNCHANGED <<files, byteCount, i, verbose, exited, lost, restarts>>

\* The descriptor and the count are given up together, under the mutex.
Reset ==
    /\ ~exited /\ pc = "reset"
    /\ closing' = fd /\ fd' = None /\ byteCount' = 0
    /\ pc' = "close"
    /\ UNCHANGED <<files, i, verbose, exited, lost, restarts>>

\* close(-1) fails, and unexpected_exit(3) ends the program.
Close ==
    /\ ~exited /\ pc = "close"
    /\ exited' = (closing = None)
    /\ closing' = None /\ pc' = "idle"
    /\ UNCHANGED <<files, log, i, verbose, lost, restarts>>

Rotate == Check \/ Debug \/ Rename \/ Reset \/ Close

\* The program dies and is started again, with the same configuration:
\* new_log_file.
Restart ==
    /\ restarts < MaxRestarts
    /\ restarts' = restarts + 1
    /\ fd' = None /\ byteCount' = 0
    /\ pc' = "idle" /\ i' = 0 /\ closing' = None /\ exited' = FALSE
    /\ UNCHANGED <<files, verbose, lost>>

Next == ThreadLogs \/ ThreadLogFails \/ Rotate \/ Restart

Spec == Init /\ [][Next]_vars

\* The main loop calls log_file_rotate in every turn (server.c:433).
FairSpec == Spec /\ WF_vars(Rotate)

-----------------------------------------------------------------------------
File == 1 .. made

(* The shape of the log's and the rotation's variables. *)
TypeOK ==
    /\ made \in Nat /\ names \in [0 .. RotateCount -> File \cup {None}]
    /\ home \in Seq(File) /\ fd \in File \cup {None} /\ byteCount \in Nat
    /\ pc \in {"idle", "debug", "rename", "reset", "close"} /\ i \in -1 .. RotateCount
    /\ (pc \in {"debug", "rename"} => i \in 0 .. RotateCount - 1)
    /\ closing \in File \cup {None} /\ {verbose, exited} \subseteq BOOLEAN
    /\ lost \in Nat /\ restarts \in Nat

(* log_file.c:237-242: the descriptor is given up after the last rename,   *)
(* because a thread may open the file at once -- so that between two       *)
(* rotations the threads never append to a file that has been renamed.     *)
WritesToCurrentFile == pc \in {"idle", "close"} /\ fd # None => fd = names[0]

(* log_file.c:249-256: a rotation only starts for a log that is open, so   *)
(* it never closes -1, which would end the program.                        *)
RotationNeverExits == ~exited

(* log_file.c:200-207: a log that has reached byte_count_max is given a    *)
(* new file, whatever the other threads do meanwhile.                      *)
FullIsRotated == byteCount >= ByteCountMax ~> byteCount < ByteCountMax

\* What a reader finds who reads the files from the oldest name down to the
\* log's own, and each from its beginning.  A file of two names is read twice.
Kept == {r \in DOMAIN home : \E k \in DOMAIN names : names[k] = home[r]}
ReadBefore ==
    {p \in Kept \X Kept :
        \E j, k \in DOMAIN names :
            names[j] = home[p[1]] /\ names[k] = home[p[2]] /\ (j > k \/ (j = k /\ p[1] < p[2]))}

J == INSTANCE Journal WITH last <- Len(home), kept <- Kept, before <- ReadBefore

(* log_file.c:209-235: whatever the writers do between the renames, and    *)
(* wherever a crash cuts the chain, a reader of the files finds the        *)
(* records in order and without a gap, and only the oldest are deleted.    *)
ImplementsJournal == J!Spec
=============================================================================

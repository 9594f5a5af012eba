--------------------------- MODULE LogFileProofs ---------------------------
(***************************************************************************)
(* Proofs about LogFile for every size, number of old files and number of  *)
(* records.                                                                *)
(*                                                                         *)
(* The argument: byte_count only grows while the log is open and is reset  *)
(* together with the descriptor, so a full log is an open one (FullIsOpen) *)
(* and stays open until the rotation takes its descriptor (RotatesOpen);   *)
(* and an open log is the file of its own name except between the last     *)
(* rename and that moment (OpenIsCurrent).                                 *)
(*                                                                         *)
(* For the reader of the files: as files are numbered by their creation, a *)
(* nearer name is a newer file (NewerIsNearer), wherever a chain was cut;  *)
(* a rename only ever replaces a file if it is the first of its chain      *)
(* (RenamedAway), so the file it replaces is the oldest (NoFileMissing);   *)
(* and what is written goes to the newest one (OpenIsNewest).              *)
(***************************************************************************)
EXTENDS LogFile, SequenceTheorems, TLAPS

FullIsOpen == byteCount >= ByteCountMax => fd # None
RotatesOpen == /\ pc \in {"debug", "rename", "reset"} => fd # None
               /\ pc = "close" => closing # None
OpenIsCurrent == pc # "reset" /\ fd # None => fd = names[0]

FileTypes == /\ made \in Nat /\ names \in [0 .. RotateCount -> File \cup {None}]
             /\ home \in Seq(File) /\ fd \in File \cup {None} /\ byteCount \in Nat
RotationTypes ==
    /\ pc \in {"idle", "debug", "rename", "reset", "close"} /\ i \in -1 .. RotateCount
    /\ (pc \in {"debug", "rename"} => i \in 0 .. RotateCount - 1)
    /\ closing \in File \cup {None}
OtherTypes == verbose \in BOOLEAN /\ exited \in BOOLEAN /\ lost \in Nat /\ restarts \in Nat

IInv == /\ FileTypes /\ RotationTypes /\ OtherTypes
        /\ FullIsOpen /\ RotatesOpen /\ OpenIsCurrent /\ RotationNeverExits

LEMMA SeqGrows == ASSUME NEW S, NEW T, S \subseteq T, NEW s \in Seq(S)
                  PROVE  s \in Seq(T)
  <1>1. Len(s) \in Nat /\ s \in [1 .. Len(s) -> S]
    BY LenProperties
  <1>2. s \in [1 .. Len(s) -> T]
    BY <1>1
  <1> QED
    BY <1>1, <1>2, SeqDef

\* Where a writer's descriptor leads, and what becomes of the files.
LEMMA WriteKeepsTypes ==
    ASSUME IInv, NEW w \in BOOLEAN, LogFileWrite(w)
    PROVE  FileTypes' /\ made' >= made /\ fd' # None /\ (pc # "reset" => fd' = names'[0])
           /\ (fd # None => names' = names /\ fd' = fd)
  <1>0. made \in Nat /\ names \in [0 .. RotateCount -> File \cup {None}] /\ home \in Seq(File)
        /\ fd \in File \cup {None} /\ byteCount \in Nat /\ None \notin Nat
        /\ 0 \in 0 .. RotateCount /\ names[0] \in File \cup {None}
    BY LogFileAssumption DEF IInv, FileTypes
  <1>1. made' \in Nat /\ made' >= made /\ File \subseteq File'
    BY <1>0 DEF LogFileWrite, File
  <1>2. Opened \in File' /\ fd' = Opened
    BY <1>0 DEF LogFileWrite, File, Opened, MustCreate
  <1>3. fd' \in File' /\ fd' # None
    BY <1>2, <1>1, <1>0 DEF File
  <1>4. names' \in [0 .. RotateCount -> File' \cup {None}]
    <2>1. CASE MustCreate
      BY <2>1, <1>0, <1>1, <1>2 DEF LogFileWrite
    <2>2. CASE ~MustCreate
      BY <2>2, <1>0, <1>1 DEF LogFileWrite
    <2> QED BY <2>1, <2>2
  <1>5. home' \in Seq(File')
    <2>1. home \in Seq(File')
      BY <1>0, <1>1, SeqGrows
    <2>2. Append(home, Opened) \in Seq(File')
      BY <2>1, <1>2
    <2> QED BY <2>1, <2>2 DEF LogFileWrite
  <1>6. byteCount' \in Nat
    BY <1>0 DEF LogFileWrite, CountOnOpen
  <1>7. FileTypes'
    BY <1>1, <1>3, <1>4, <1>5, <1>6 DEF FileTypes
  <1>8. pc # "reset" => fd' = names'[0]
    <2>1. CASE fd # None
      BY <2>1, <1>0, <1>2 DEF IInv, OpenIsCurrent, LogFileWrite, Opened, MustCreate
    <2>2. CASE fd = None
      BY <2>2, <1>0, <1>2 DEF LogFileWrite, Opened, MustCreate
    <2> QED BY <2>1, <2>2
  <1>9. fd # None => names' = names /\ fd' = fd
    BY DEF LogFileWrite, Opened, MustCreate
  <1> QED BY <1>1, <1>3, <1>7, <1>8, <1>9

\* A record of a thread, kept or dropped.
LEMMA LoggingKeepsIInv ==
    ASSUME IInv, NEW w \in BOOLEAN, LogFileWrite(w),
           UNCHANGED <<rotation, verbose, exited, restarts>>, lost' \in Nat
    PROVE  IInv'
  <1>1. FileTypes' /\ made' >= made /\ fd' # None /\ (pc # "reset" => fd' = names'[0])
    BY WriteKeepsTypes
  <1>2. RotationTypes'
    BY <1>1 DEF IInv, RotationTypes, FileTypes, File, rotation
  <1>3. OtherTypes' /\ RotationNeverExits'
    BY DEF IInv, OtherTypes, RotationNeverExits
  <1>4. FullIsOpen' /\ RotatesOpen' /\ OpenIsCurrent'
    BY <1>1 DEF IInv, FullIsOpen, RotatesOpen, OpenIsCurrent, rotation
  <1> QED BY <1>1, <1>2, <1>3, <1>4 DEF IInv

LEMMA CheckKeepsIInv == IInv /\ Check => IInv'
  <1> SUFFICES ASSUME IInv, Check PROVE IInv' OBVIOUS
  <1>1. fd # None
    BY DEF IInv, FullIsOpen, Check, NeedsRotation
  <1>2. FileTypes' /\ OtherTypes' /\ RotationNeverExits' /\ FullIsOpen'
    BY DEF IInv, FileTypes, File, OtherTypes, RotationNeverExits, FullIsOpen, Check, files, log
  <1>3. RotationTypes'
    BY LogFileAssumption DEF IInv, RotationTypes, File, Check, LoopAt, FirstRename, files, log
  <1>4. RotatesOpen' /\ OpenIsCurrent'
    BY <1>1 DEF IInv, RotatesOpen, OpenIsCurrent, Check, LoopAt, files, log
  <1> QED BY <1>2, <1>3, <1>4 DEF IInv

LEMMA DebugKeepsIInv == IInv /\ Debug => IInv'
  <1> SUFFICES ASSUME IInv, Debug PROVE IInv' OBVIOUS
  <1>1. FileTypes' /\ made' >= made /\ fd' # None /\ fd' = names'[0]
    BY WriteKeepsTypes DEF Debug
  <1>2. RotationTypes'
    BY <1>1 DEF IInv, RotationTypes, FileTypes, File, Debug
  <1>3. OtherTypes' /\ RotationNeverExits'
    BY DEF IInv, OtherTypes, RotationNeverExits, Debug
  <1>4. FullIsOpen' /\ RotatesOpen' /\ OpenIsCurrent'
    BY <1>1 DEF FullIsOpen, RotatesOpen, OpenIsCurrent, Debug
  <1> QED BY <1>1, <1>2, <1>3, <1>4 DEF IInv

LEMMA RenameKeepsIInv == IInv /\ Rename => IInv'
  <1> SUFFICES ASSUME IInv, Rename PROVE IInv' OBVIOUS
  <1>0. fd # None /\ fd = names[0] /\ i \in 0 .. RotateCount - 1 /\ RotateCount \in Nat
    BY LogFileAssumption DEF IInv, RotatesOpen, OpenIsCurrent, RotationTypes, Rename
  <1>1. names' \in [0 .. RotateCount -> File \cup {None}]
    BY <1>0 DEF IInv, FileTypes, Rename
  <1>2. FileTypes' /\ OtherTypes' /\ RotationNeverExits' /\ FullIsOpen'
    BY <1>1 DEF IInv, FileTypes, File, OtherTypes, RotationNeverExits, FullIsOpen, Rename, log
  <1>3. RotationTypes'
    BY <1>0 DEF IInv, RotationTypes, File, Rename, LoopAt, log
  <1>4. RotatesOpen'
    BY <1>0 DEF IInv, RotatesOpen, Rename, LoopAt, log
  <1>5. OpenIsCurrent'
    <2>1. CASE i = 0
      BY <2>1 DEF OpenIsCurrent, Rename, LoopAt
    <2>2. CASE i # 0
      BY <2>2, <1>0 DEF IInv, FileTypes, OpenIsCurrent, Rename, log
    <2> QED BY <2>1, <2>2
  <1> QED BY <1>2, <1>3, <1>4, <1>5 DEF IInv

LEMMA ResetKeepsIInv == IInv /\ Reset => IInv'
  <1> SUFFICES ASSUME IInv, Reset PROVE IInv' OBVIOUS
  <1>1. FileTypes'
    BY DEF IInv, FileTypes, File, Reset, files
  <1>2. RotationTypes' /\ OtherTypes' /\ RotationNeverExits'
    BY DEF IInv, FileTypes, File, RotationTypes, OtherTypes, RotationNeverExits, Reset, files
  <1>3. FullIsOpen' /\ RotatesOpen' /\ OpenIsCurrent'
    BY LogFileAssumption DEF IInv, FullIsOpen, RotatesOpen, OpenIsCurrent, Reset
  <1> QED BY <1>1, <1>2, <1>3 DEF IInv

LEMMA CloseKeepsIInv == IInv /\ Close => IInv'
  <1> SUFFICES ASSUME IInv, Close PROVE IInv' OBVIOUS
  <1>1. FileTypes' /\ RotationTypes'
    BY DEF IInv, FileTypes, File, RotationTypes, Close, files, log
  <1>2. OtherTypes' /\ RotationNeverExits'
    BY DEF IInv, OtherTypes, RotatesOpen, RotationNeverExits, Close
  <1>3. FullIsOpen' /\ RotatesOpen' /\ OpenIsCurrent'
    BY DEF IInv, FullIsOpen, RotatesOpen, OpenIsCurrent, Close, files, log
  <1> QED BY <1>1, <1>2, <1>3 DEF IInv

LEMMA RestartKeepsIInv == IInv /\ Restart => IInv'
  <1> SUFFICES ASSUME IInv, Restart PROVE IInv' OBVIOUS
  <1>1. FileTypes'
    BY DEF IInv, FileTypes, File, Restart, files
  <1>3. RotationTypes'
    BY LogFileAssumption DEF RotationTypes, Restart
  <1>4. OtherTypes'
    <2>1. restarts \in Nat /\ lost \in Nat /\ verbose \in BOOLEAN
      BY DEF IInv, OtherTypes
    <2>2. restarts' \in Nat /\ lost' \in Nat /\ verbose' \in BOOLEAN
      BY <2>1 DEF Restart
    <2>3. exited' \in BOOLEAN
      BY DEF Restart
    <2> QED BY <2>2, <2>3 DEF OtherTypes
  <1>2. FullIsOpen' /\ RotatesOpen' /\ OpenIsCurrent' /\ RotationNeverExits'
    BY LogFileAssumption DEF FullIsOpen, RotatesOpen, OpenIsCurrent, RotationNeverExits, Restart
  <1> QED BY <1>1, <1>2, <1>3, <1>4 DEF IInv

LEMMA Inductive == Spec => []IInv
  <1>1. Init => IInv
    <2> SUFFICES ASSUME Init PROVE IInv OBVIOUS
    <2>1. FileTypes
      BY LogFileAssumption, EmptySeq DEF Init, FileTypes, File
    <2>2. RotationTypes /\ OtherTypes
      BY LogFileAssumption DEF Init, RotationTypes, OtherTypes
    <2>3. FullIsOpen /\ RotatesOpen /\ OpenIsCurrent /\ RotationNeverExits
      BY LogFileAssumption DEF Init, FullIsOpen, RotatesOpen, OpenIsCurrent, RotationNeverExits
    <2> QED BY <2>1, <2>2, <2>3 DEF IInv
  <1>2. IInv /\ [Next]_vars => IInv'
    <2> SUFFICES ASSUME IInv, [Next]_vars PROVE IInv' OBVIOUS
    <2>1. CASE ThreadLogs
      BY <2>1, LoggingKeepsIInv DEF ThreadLogs, IInv, OtherTypes
    <2>2. CASE ThreadLogFails
      <3>1. lost' \in Nat
        BY <2>2 DEF ThreadLogFails, IInv, OtherTypes
      <3>2. CASE LogFileWrite(FALSE)
        BY <2>2, <3>1, <3>2, LoggingKeepsIInv DEF ThreadLogFails
      <3>3. CASE OpenFails
        BY <2>2, <3>1, <3>3 DEF ThreadLogFails, OpenFails, files, log, rotation, IInv, FileTypes, File,
                                RotationTypes, OtherTypes, FullIsOpen, RotatesOpen, OpenIsCurrent,
                                RotationNeverExits
      <3> QED BY <2>2, <3>2, <3>3 DEF ThreadLogFails
    <2>3. CASE Check
      BY <2>3, CheckKeepsIInv
    <2>4. CASE Debug
      BY <2>4, DebugKeepsIInv
    <2>5. CASE Rename
      BY <2>5, RenameKeepsIInv
    <2>6. CASE Reset
      BY <2>6, ResetKeepsIInv
    <2>7. CASE Close
      BY <2>7, CloseKeepsIInv
    <2>8. CASE Restart
      BY <2>8, RestartKeepsIInv
    <2>9. CASE UNCHANGED vars
      BY <2>9 DEF vars, files, log, rotation, IInv, FileTypes, File, RotationTypes, OtherTypes,
                  FullIsOpen, RotatesOpen, OpenIsCurrent, RotationNeverExits
    <2> QED
      BY <2>1, <2>2, <2>3, <2>4, <2>5, <2>6, <2>7, <2>8, <2>9 DEF Next, Rotate
  <1> QED BY <1>1, <1>2, PTL DEF Spec

(* log_file.c:213-224: descriptor, name and count have their types, and the*)
(* index of a rotation stays within the names it renames.                  *)
THEOREM TypeCorrect == Spec => []TypeOK
  <1>1. IInv => TypeOK
    BY DEF IInv, FileTypes, RotationTypes, OtherTypes, TypeOK
  <1> QED BY <1>1, Inductive, PTL

(* log_file.c:210-256: for every limit but 0, a rotation finds an open     *)
(* log and closes a real descriptor, so it never ends the program.         *)
THEOREM RotationIsSafe == Spec => []RotationNeverExits
  <1>1. IInv => RotationNeverExits
    BY DEF IInv
  <1> QED BY <1>1, Inductive, PTL

(* log_file.c:237-248: as the descriptor is given up after the last        *)
(* rename, what the threads write between two rotations goes to the file   *)
(* of the log's own name.                                                  *)
THEOREM WritersFollowTheName == Spec => []WritesToCurrentFile
  <1>1. IInv => WritesToCurrentFile
    BY DEF IInv, OpenIsCurrent, WritesToCurrentFile
  <1> QED BY <1>1, Inductive, PTL

-----------------------------------------------------------------------------
\* What a reader of the files finds.

Found(f) == \E k \in 0 .. RotateCount : names[k] = f
NewerIsNearer ==
    \A j, k \in 0 .. RotateCount : j < k /\ names[j] # None /\ names[k] # None => names[j] > names[k]
RecordsInOrder == \A r, s \in DOMAIN home : r < s => home[r] <= home[s]
NoFileMissing == \A f, g \in File : f < g /\ Found(f) => Found(g)
NewestIsFound == made > 0 => Found(made)
OpenIsNewest == fd # None => fd = made
RenamedAway == pc \in {"debug", "rename"} /\ i < RotateCount - 1 => names[i + 1] = None

ReaderInv == /\ NewerIsNearer /\ RecordsInOrder /\ NoFileMissing /\ NewestIsFound
             /\ OpenIsNewest /\ RenamedAway

\* The types a step needs.
LEMMA FileFacts ==
    ASSUME FileTypes
    PROVE  /\ RotateCount \in Nat /\ None \notin Nat /\ made \in Nat
           /\ DOMAIN names = 0 .. RotateCount
           /\ \A k \in 0 .. RotateCount : names[k] # None => names[k] \in 1 .. made
           /\ Len(home) \in Nat /\ DOMAIN home = 1 .. Len(home)
           /\ \A r \in DOMAIN home : home[r] \in 1 .. made
  <1>1. RotateCount \in Nat /\ None \notin Nat /\ made \in Nat /\ DOMAIN names = 0 .. RotateCount
    BY LogFileAssumption DEF FileTypes
  <1>2. \A k \in 0 .. RotateCount : names[k] # None => names[k] \in 1 .. made
    BY DEF FileTypes, File
  <1>3. home \in Seq(File)
    BY DEF FileTypes
  <1>4. Len(home) \in Nat /\ DOMAIN home = 1 .. Len(home) /\ \A r \in DOMAIN home : home[r] \in 1 .. made
    BY <1>3, LenProperties, ElementOfSeq DEF File
  <1> QED BY <1>1, <1>2, <1>4

\* A log's own name, where it is taken, is the newest file's.
LEMMA OwnNameIsNewest ==
    ASSUME FileTypes, ReaderInv, names[0] # None
    PROVE  names[0] = made
  <1>1. names[0] \in 1 .. made /\ made \in Nat /\ RotateCount \in Nat /\ None \notin Nat
    BY FileFacts
  <1>2. PICK k \in 0 .. RotateCount : names[k] = made
    BY <1>1 DEF ReaderInv, NewestIsFound, Found
  <1>3. k # 0 => names[0] > made
    BY <1>1, <1>2 DEF ReaderInv, NewerIsNearer
  <1> QED BY <1>1, <1>2, <1>3

LEMMA WriteKeepsReaderInv ==
    ASSUME IInv, IInv', ReaderInv, NEW w \in BOOLEAN, LogFileWrite(w), i' = i,
           pc' = pc \/ (pc = "debug" /\ pc' = "rename")
    PROVE  /\ ReaderInv'
           /\ \A f \in 1 .. made : Found(f)' <=> Found(f)
           /\ fd' = Opened /\ Opened = made' /\ Found(made)'
  <1>0. FileTypes /\ FileTypes'
    BY DEF IInv
  <1>1. /\ RotateCount \in Nat /\ None \notin Nat /\ made \in Nat /\ DOMAIN names = 0 .. RotateCount
        /\ \A k \in 0 .. RotateCount : names[k] # None => names[k] \in 1 .. made
        /\ Len(home) \in Nat /\ DOMAIN home = 1 .. Len(home)
        /\ \A r \in DOMAIN home : home[r] \in 1 .. made
    BY <1>0, FileFacts
  <1>2. fd' = Opened /\ home' = IF w THEN Append(home, Opened) ELSE home
    BY DEF LogFileWrite
  <1>3. CASE MustCreate
    <2>1. /\ fd = None /\ names[0] = None /\ Opened = made + 1 /\ made' = made + 1
          /\ names' = [names EXCEPT ![0] = made + 1]
      BY <1>3 DEF LogFileWrite, MustCreate, Opened
    <2>2. /\ DOMAIN names' = 0 .. RotateCount /\ names'[0] = made + 1
          /\ \A k \in 1 .. RotateCount : names'[k] = names[k]
      BY <1>1, <2>1
    <2>3. \A f \in 1 .. made : Found(f)' <=> Found(f)
      BY <1>1, <2>1, <2>2 DEF Found
    <2>4. Found(made)'
      BY <2>1, <2>2, <1>1 DEF Found
    <2>5. NewerIsNearer'
      BY <1>1, <2>2 DEF ReaderInv, NewerIsNearer
    <2>6. NoFileMissing' /\ NewestIsFound'
      BY <1>1, <2>1, <2>3, <2>4 DEF ReaderInv, NoFileMissing, NewestIsFound, File
    <2>7. OpenIsNewest' /\ RenamedAway'
      BY <1>2, <2>1 DEF IInv, RotatesOpen, OpenIsNewest, RenamedAway
    <2>8. RecordsInOrder'
      BY <1>1, <1>2, <2>1 DEF ReaderInv, RecordsInOrder
    <2> QED
      BY <1>2, <2>1, <2>3, <2>4, <2>5, <2>6, <2>7, <2>8 DEF ReaderInv
  <1>4. CASE ~MustCreate
    <2>1. UNCHANGED <<names, made>>
      BY <1>4 DEF LogFileWrite
    <2>2. Opened = made /\ Opened # None
      <3>1. CASE fd # None
        BY <3>1 DEF Opened, ReaderInv, OpenIsNewest
      <3>2. CASE fd = None
        BY <3>2, <1>4, <1>0, OwnNameIsNewest DEF Opened, MustCreate
      <3> QED BY <3>1, <3>2
    <2>3. made \in 1 .. made
      BY <1>1, <2>2, <1>2, WriteKeepsTypes, <2>1 DEF IInv, FileTypes, File
    <2>4. Found(made)' /\ \A f : Found(f)' <=> Found(f)
      BY <2>1, <2>3, <1>1 DEF ReaderInv, NewestIsFound, Found
    <2>5. NewerIsNearer' /\ NoFileMissing' /\ NewestIsFound' /\ RenamedAway'
      BY <2>1 DEF ReaderInv, NewerIsNearer, NoFileMissing, NewestIsFound, RenamedAway, Found, File
    <2>6. OpenIsNewest'
      BY <1>2, <2>1, <2>2 DEF OpenIsNewest
    <2>7. RecordsInOrder'
      BY <1>1, <1>2, <2>2, <2>3 DEF ReaderInv, RecordsInOrder
    <2> QED
      BY <1>2, <2>1, <2>2, <2>4, <2>5, <2>6, <2>7 DEF ReaderInv
  <1> QED BY <1>3, <1>4

LEMMA RenameKeepsReaderInv ==
    ASSUME IInv, ReaderInv, Rename
    PROVE  ReaderInv' /\ home' = home /\ \A f \in File : Found(f)' => Found(f)
  <1>0. /\ RotateCount \in Nat /\ None \notin Nat /\ made \in Nat /\ DOMAIN names = 0 .. RotateCount
        /\ \A k \in 0 .. RotateCount : names[k] # None => names[k] \in 1 .. made
    BY FileFacts DEF IInv
  <1>1. /\ i \in 0 .. RotateCount - 1 /\ i' = i - 1 /\ pc = "rename"
        /\ UNCHANGED <<made, home, fd>>
    BY DEF IInv, RotationTypes, Rename, LoopAt, log
  <1>2. CASE names[i] = None
    <2>1. names' = names
      BY <1>2 DEF Rename
    <2>2. RenamedAway'
      BY <1>1, <1>2, <2>1 DEF RenamedAway
    <2> QED
      BY <1>1, <2>1, <2>2 DEF ReaderInv, NewerIsNearer, RecordsInOrder, NoFileMissing, NewestIsFound,
                              OpenIsNewest, Found, File
  <1>3. CASE names[i] # None
    <2>1. /\ DOMAIN names' = 0 .. RotateCount /\ names'[i + 1] = names[i] /\ names'[i] = None
          /\ \A k \in (0 .. RotateCount) \ {i, i + 1} : names'[k] = names[k]
      BY <1>0, <1>1, <1>3 DEF Rename
    <2>2. NewerIsNearer'
      BY <1>0, <1>1, <2>1 DEF ReaderInv, NewerIsNearer
    <2>3. \A f \in File : Found(f)' => Found(f)
      BY <1>0, <1>1, <2>1 DEF Found, File
    <2>4. ASSUME NEW g \in File, Found(g), ~Found(g)'
          PROVE  g = names[i + 1] /\ i = RotateCount - 1
      <3>1. g = names[i + 1]
        BY <1>0, <1>1, <2>1, <2>4 DEF Found
      <3>2. g # None
        BY <1>0 DEF File
      <3> QED
        BY <3>1, <3>2, <1>0, <1>1 DEF ReaderInv, RenamedAway
    <2>5. NoFileMissing'
      <3> SUFFICES ASSUME NEW f \in File, NEW g \in File, f < g, Found(f)', ~Found(g)'
                   PROVE  FALSE
        BY <1>1 DEF NoFileMissing, File
      <3>1. Found(f) /\ Found(g)
        BY <2>3 DEF ReaderInv, NoFileMissing
      <3>2. g = names[RotateCount]
        BY <2>4, <3>1, <1>0
      <3>3. PICK k \in 0 .. RotateCount : names[k] = f
        BY <3>1 DEF Found
      <3>4. k < RotateCount
        BY <1>0, <3>2, <3>3 DEF File
      <3>5. names[k] > names[RotateCount]
        BY <3>2, <3>3, <3>4, <1>0 DEF ReaderInv, NewerIsNearer, File
      <3> QED
        BY <3>2, <3>3, <3>5, <1>0 DEF File
    <2>6. NewestIsFound'
      <3> SUFFICES ASSUME made > 0, ~Found(made)' PROVE FALSE
        BY <1>1 DEF NewestIsFound, Found
      <3>1. made \in File /\ Found(made)
        BY <1>0 DEF File, ReaderInv, NewestIsFound
      <3>2. ~(\E k \in 0 .. RotateCount : names'[k] = made)
        BY <1>1 DEF Found
      <3>3. names[i + 1] = made
        BY <3>1, <3>2, <1>0, <1>1, <2>1 DEF Found
      <3>4. names[i] > made
        BY <3>3, <1>0, <1>1, <1>3, <3>1 DEF ReaderInv, NewerIsNearer, File
      <3> QED
        BY <3>4, <1>0, <1>1, <1>3
    <2>7. OpenIsNewest' /\ RecordsInOrder' /\ RenamedAway'
      BY <1>0, <1>1, <2>1 DEF ReaderInv, OpenIsNewest, RecordsInOrder, RenamedAway
    <2> QED
      BY <1>1, <2>2, <2>3, <2>5, <2>6, <2>7 DEF ReaderInv
  <1> QED BY <1>2, <1>3

LEMMA ReaderInvIsKept == IInv /\ IInv' /\ ReaderInv /\ [Next]_vars => ReaderInv'
  <1> SUFFICES ASSUME IInv, IInv', ReaderInv, [Next]_vars PROVE ReaderInv' OBVIOUS
  <1>1. CASE ThreadLogs
    BY <1>1, WriteKeepsReaderInv DEF ThreadLogs, rotation
  <1>2. CASE ThreadLogFails
    <2>1. CASE LogFileWrite(FALSE)
      BY <1>2, <2>1, WriteKeepsReaderInv DEF ThreadLogFails, rotation
    <2>2. CASE OpenFails
      BY <1>2, <2>2 DEF ThreadLogFails, OpenFails, ReaderInv, NewerIsNearer, RecordsInOrder, NoFileMissing,
                        NewestIsFound, OpenIsNewest, RenamedAway, Found, File, files, log, rotation
    <2> QED BY <1>2, <2>1, <2>2 DEF ThreadLogFails
  <1>3. CASE Debug
    BY <1>3, WriteKeepsReaderInv DEF Debug
  <1>4. CASE Rename
    BY <1>4, RenameKeepsReaderInv
  <1>5. CASE Check
    <2>1. i' = RotateCount - 1 /\ RotateCount \in Nat
      BY <1>5, LogFileAssumption DEF Check, LoopAt, FirstRename
    <2> QED
      BY <1>5, <2>1 DEF Check, ReaderInv, NewerIsNearer, RecordsInOrder, NoFileMissing, NewestIsFound,
                        OpenIsNewest, RenamedAway, Found, File, files, log
  <1>6. CASE Reset \/ Close \/ Restart \/ UNCHANGED vars
    <2>1. UNCHANGED files /\ fd' \in {fd, None}
          /\ (pc' \in {"debug", "rename"} => UNCHANGED <<pc, i>>)
      BY <1>6 DEF Reset, Close, Restart, vars, log, rotation
    <2> QED
      BY <2>1 DEF ReaderInv, NewerIsNearer, RecordsInOrder, NoFileMissing, NewestIsFound,
                  OpenIsNewest, RenamedAway, Found, File, files
  <1> QED BY <1>1, <1>2, <1>3, <1>4, <1>5, <1>6 DEF Next, Rotate

LEMMA ReaderInductive == Spec => []ReaderInv
  <1>1. Init => ReaderInv
    BY LogFileAssumption DEF Init, ReaderInv, NewerIsNearer, RecordsInOrder, NoFileMissing, NewestIsFound,
                             OpenIsNewest, RenamedAway, Found, File
  <1> QED BY <1>1, ReaderInvIsKept, Inductive, PTL DEF Spec

\* Whoever reads the files from the oldest name down finds every record of
\* theirs once, and in the order of their writes.
ReadsInOrder == ReadBefore = J!InOrder(Kept)

LEMMA FilesReadInOrder == IInv /\ ReaderInv => ReadsInOrder
  <1> SUFFICES ASSUME IInv, ReaderInv PROVE ReadsInOrder OBVIOUS
  <1>0. /\ RotateCount \in Nat /\ None \notin Nat /\ made \in Nat /\ DOMAIN names = 0 .. RotateCount
        /\ \A k \in 0 .. RotateCount : names[k] # None => names[k] \in 1 .. made
        /\ Len(home) \in Nat /\ DOMAIN home = 1 .. Len(home)
        /\ \A r \in DOMAIN home : home[r] \in 1 .. made
    BY FileFacts DEF IInv
  <1>1. ASSUME NEW r \in Kept, NEW s \in Kept
        PROVE  (\E j, k \in DOMAIN names :
                    names[j] = home[r] /\ names[k] = home[s] /\ (j > k \/ (j = k /\ r < s)))
               <=> r < s
    <2>0. r \in DOMAIN home /\ s \in DOMAIN home
      BY DEF Kept
    <2>1. PICK j \in 0 .. RotateCount : names[j] = home[r]
      BY <1>0 DEF Kept
    <2>2. PICK k \in 0 .. RotateCount : names[k] = home[s]
      BY <1>0 DEF Kept
    <2>3. \A l \in 0 .. RotateCount : (names[l] = home[r] => l = j) /\ (names[l] = home[s] => l = k)
      BY <1>0, <2>0, <2>1, <2>2 DEF ReaderInv, NewerIsNearer
    <2>4. j > k => home[r] < home[s]
      BY <1>0, <2>0, <2>1, <2>2 DEF ReaderInv, NewerIsNearer
    <2>5. j < k => home[r] > home[s]
      BY <1>0, <2>0, <2>1, <2>2 DEF ReaderInv, NewerIsNearer
    <2>6. (r < s => home[r] <= home[s]) /\ (s < r => home[s] <= home[r])
      BY <2>0 DEF ReaderInv, RecordsInOrder
    <2>7. (j > k \/ (j = k /\ r < s)) <=> r < s
      BY <1>0, <2>0, <2>4, <2>5, <2>6
    <2> QED
      BY <1>0, <2>1, <2>2, <2>3, <2>7
  <1>2. \A p \in Kept \X Kept : p[1] \in Kept /\ p[2] \in Kept
    OBVIOUS
  <1> QED BY <1>1, <1>2 DEF ReadsInOrder, ReadBefore, J!InOrder

\* A record is kept as long as its file has a name.
LEMMA KeptIsFound ==
    ASSUME FileTypes
    PROVE  Kept = {r \in DOMAIN home : Found(home[r])}
  BY FileFacts DEF Kept, Found

LEMMA WriteIsWrite ==
    ASSUME IInv, IInv', ReaderInv, ReadsInOrder', LogFileWrite(TRUE), i' = i,
           pc' = pc \/ (pc = "debug" /\ pc' = "rename")
    PROVE  J!Write
  <1>1. (\A f \in 1 .. made : Found(f)' <=> Found(f)) /\ Opened = made' /\ Found(made)'
    BY WriteKeepsReaderInv
  <1>2. home' = Append(home, Opened)
    BY DEF LogFileWrite
  <1>3. Len(home) \in Nat /\ DOMAIN home = 1 .. Len(home) /\ \A r \in DOMAIN home : home[r] \in 1 .. made
    BY FileFacts DEF IInv
  <1>4. home \in Seq(File)
    BY DEF IInv, FileTypes
  <1>5. /\ Len(home') = Len(home) + 1 /\ DOMAIN home' = 1 .. Len(home) + 1 /\ home'[Len(home) + 1] = Opened
        /\ \A r \in 1 .. Len(home) : home'[r] = home[r]
    BY <1>2, <1>3, <1>4, AppendProperties
  <1>6. /\ DOMAIN names = 0 .. RotateCount /\ DOMAIN names' = 0 .. RotateCount
    BY DEF IInv, FileTypes
  <1>7. ASSUME NEW r \in 1 .. Len(home)
        PROVE  r \in Kept' <=> r \in Kept
    <2>1. home[r] \in 1 .. made /\ home'[r] = home[r]
      BY <1>3, <1>5
    <2>2. (\E k \in 0 .. RotateCount : names'[k] = home[r]) <=> (\E k \in 0 .. RotateCount : names[k] = home[r])
      BY <1>1, <2>1 DEF Found
    <2> QED
      BY <1>3, <1>5, <1>6, <2>1, <2>2 DEF Kept
  <1>8. Len(home) + 1 \in Kept'
    BY <1>1, <1>3, <1>5, <1>6 DEF Kept, Found
  <1>9. Kept \subseteq 1 .. Len(home) /\ Kept' \subseteq 1 .. Len(home) + 1
    BY <1>3, <1>5 DEF Kept
  <1>10. Kept' = Kept \cup {Len(home) + 1}
    <2>1. \A r \in 1 .. Len(home) + 1 : r \in 1 .. Len(home) \/ r = Len(home) + 1
      BY <1>3
    <2>2. \A r \in Kept' : r \in Kept \cup {Len(home) + 1}
      BY <1>7, <1>9, <2>1
    <2>3. \A r \in Kept \cup {Len(home) + 1} : r \in Kept'
      BY <1>7, <1>8, <1>9
    <2> QED BY <2>2, <2>3
  <1> QED BY <1>5, <1>10 DEF J!Write, J!InOrder, ReadsInOrder

\* A write that fails may make a file, but no record is in it.
LEMMA FailureIsStutter ==
    ASSUME IInv, IInv', ReaderInv, ReadsInOrder, ReadsInOrder', LogFileWrite(FALSE), i' = i, pc' = pc
    PROVE  UNCHANGED <<Len(home), Kept, ReadBefore>>
  <1>1. \A f \in 1 .. made : Found(f)' <=> Found(f)
    BY WriteKeepsReaderInv
  <1>2. home' = home
    BY DEF LogFileWrite
  <1>3. \A r \in DOMAIN home : home[r] \in 1 .. made
    BY FileFacts DEF IInv
  <1>4. DOMAIN names = 0 .. RotateCount /\ DOMAIN names' = 0 .. RotateCount
    BY DEF IInv, FileTypes
  <1>5. Kept' = Kept
    BY <1>1, <1>2, <1>3, <1>4 DEF Kept, Found
  <1> QED BY <1>2, <1>5 DEF ReadsInOrder, J!InOrder

\* What is lost is a file of which no older one has been left.
LEMMA RenameIsDelete ==
    ASSUME IInv, IInv', ReaderInv, ReadsInOrder', Rename
    PROVE  J!DeleteOldest
  <1>1. ReaderInv' /\ home' = home /\ made' = made /\ \A f \in File : Found(f)' => Found(f)
    BY RenameKeepsReaderInv DEF Rename
  <1>2. \A r \in DOMAIN home : home[r] \in File
    BY FileFacts DEF IInv, File
  <1>3. DOMAIN names = 0 .. RotateCount /\ DOMAIN names' = 0 .. RotateCount
    BY DEF IInv, FileTypes
  <1>4. Kept' \subseteq Kept
    BY <1>1, <1>2, <1>3 DEF Kept, Found
  <1>5. ASSUME NEW r \in Kept', NEW s \in Kept, s > r
        PROVE  s \in Kept'
    <2>1. r \in DOMAIN home /\ s \in DOMAIN home /\ home[r] \in File /\ home[s] \in File
      BY <1>1, <1>2 DEF Kept
    <2>2. r < s
      BY <1>5, <2>1, FileFacts DEF IInv
    <2>3. home[r] <= home[s]
      BY <2>1, <2>2 DEF ReaderInv, RecordsInOrder
    <2>4. \E k \in 0 .. RotateCount : names'[k] = home[r]
      BY <1>1, <1>3 DEF Kept
    <2>5. \E k \in 0 .. RotateCount : names'[k] = home[s]
      <3>1. CASE home[r] = home[s]
        BY <3>1, <2>4
      <3>2. CASE home[r] < home[s]
        BY <3>2, <1>1, <2>1, <2>4 DEF ReaderInv, NoFileMissing, Found, File
      <3> QED BY <3>1, <3>2, <2>1, <2>3, FileFacts DEF IInv, File
    <2> QED
      BY <1>1, <1>3, <2>1, <2>5 DEF Kept
  <1> QED BY <1>1, <1>4, <1>5 DEF J!DeleteOldest, J!InOrder, ReadsInOrder

LEMMA StepIsJournalStep ==
    ASSUME IInv, IInv', ReaderInv, ReadsInOrder, ReadsInOrder', [Next]_vars
    PROVE  [J!Next]_<<Len(home), Kept, ReadBefore>>
  <1>1. CASE ThreadLogs
    BY <1>1, WriteIsWrite DEF ThreadLogs, rotation, J!Next
  <1>2. CASE ThreadLogFails
    <2>1. CASE LogFileWrite(FALSE)
      BY <1>2, <2>1, FailureIsStutter DEF ThreadLogFails, rotation
    <2>2. CASE OpenFails
      BY <2>2 DEF OpenFails, files, Kept, ReadBefore
    <2> QED BY <1>2, <2>1, <2>2 DEF ThreadLogFails
  <1>3. CASE Debug
    BY <1>3, WriteIsWrite DEF Debug, J!Next
  <1>4. CASE Rename
    BY <1>4, RenameIsDelete DEF J!Next
  <1>5. CASE Check \/ Reset \/ Close \/ Restart \/ UNCHANGED vars
    <2>1. UNCHANGED files
      BY <1>5 DEF Check, Reset, Close, Restart, vars
    <2> QED
      BY <2>1 DEF files, Kept, ReadBefore
  <1> QED BY <1>1, <1>2, <1>3, <1>4, <1>5 DEF Next, Rotate

(* log_file.c:209-235: whatever the writers do between the renames, and    *)
(* wherever a crash cuts the chain, a reader of the files finds the        *)
(* records in order and without a gap, and only the oldest are deleted.    *)
THEOREM JournalIsKept == Spec => ImplementsJournal
  <1>1. Init => J!Init
    BY DEF Init, J!Init, Kept, ReadBefore
  <1> QED
    BY <1>1, Inductive, ReaderInductive, FilesReadInOrder, StepIsJournalStep, PTL
    DEF Spec, ImplementsJournal, J!Spec
=============================================================================

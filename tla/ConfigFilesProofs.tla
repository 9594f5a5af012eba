------------------------- MODULE ConfigFilesProofs -------------------------
(***************************************************************************)
(* Proofs about ConfigFiles for every set of files and folders, every      *)
(* command line and every limit.  ConfigFilesMeaning has what they compare *)
(* the program with.                                                       *)
(*                                                                         *)
(* The argument: a frame is put on the stack above the lines it has been   *)
(* called from, which keep their files, so that of all frames only the new *)
(* one has to be compared with those of its chain (Sound); and an object   *)
(* keeps its kind and its name, so that only a new one has to be compared  *)
(* with the others, which FindOrCreate has done (Keeps).                   *)
(*                                                                         *)
(* Reading ends because a call comes with a line, or a name of a folder,   *)
(* that is not read again: what is left at the caller's level gets smaller *)
(* whatever the new level holds (Measure, Smaller), and there are only so  *)
(* many levels (Placed).  What is configured has been written because      *)
(* every object, value and rule carries the statement it comes from, and   *)
(* an object made from a template gets values its own kind accepts         *)
(* (Written).                                                              *)
(*                                                                         *)
(* Nothing is left out because what lies behind the position of every call *)
(* has been done, and every file that has been taken up is done, on the    *)
(* stack, or in a folder on the stack (Progress).  A file that is not read *)
(* again while it is being read is on the stack (Chained), and the limit   *)
(* is not met, as a chain has no file twice (ChainIsShort).                *)
(*                                                                         *)
(* The rules are in order because the stack is a place in the text (Here): *)
(* an option and the lines that have called one another, which a step      *)
(* moves on and never back (MovesOn).  A step leaves at most one place of  *)
(* a rule behind, the one whose line it has read, and only Route does so   *)
(* (OnlyRulesPass); so the rules made so far stand for the places behind   *)
(* the present one, and a new one for the present place (Ordered).         *)
(* In the same way a value that has been set is that of the last place     *)
(* behind the present one that sets it (Overwritten).                      *)
(***************************************************************************)
EXTENDS ConfigFilesMeaning, FiniteSetTheorems, SequenceTheorems, WellFoundedInduction, TLAPS

\* What one frame of a stack s, with n objects, has to be.
FrameFits(s, i, n) ==
    /\ s[i].section \in 0 .. n
    /\ s[i].kind # "config" => s[i].section # 0
    /\ s[i].kind # "folder" => s[i].name \in DOMAIN disk
    /\ s[i].depth <= i /\ s[i].depth <= MaxDepth
    /\ \A j \in i - s[i].depth + 1 .. i - 1 : s[j].name # s[i].name
Sound(s, n) == s \in Seq(Activation) /\ \A i \in DOMAIN s : FrameFits(s, i, n)

Tables == disk \in Disks /\ options \in CommandLines /\ optind \in 1 .. Len(options) + 1
Flags == reported \in BOOLEAN /\ lost \in BOOLEAN /\ at \in {"reading", "serving", "exited"}

\* OneObjectPerName, of one object and of one rule's list of tunnels.
Unique(objs) ==
    \A i, j \in Listed(objs) : objs[i].kind = objs[j].kind /\ objs[i].name = objs[j].name => i = j
LeadTo(via, objs) == \A t \in DOMAIN via : via[t] \in Listed(objs) /\ objs[via[t]].kind = "ssh"
Leads(o, objs) == \A k \in DOMAIN o.rules : LeadTo(o.rules[k].via, objs)
Known(objs) ==
    /\ objs \in Seq(Object) /\ Len(objs) >= 4
    /\ Unique(objs) /\ \A i \in DOMAIN objs : Leads(objs[i], objs)

IInv == Tables /\ Flags /\ Known(objects) /\ Sound(stack, Len(objects))

-----------------------------------------------------------------------------
\* Stacks.

LEMMA Depths ==
    ASSUME NEW s \in Seq(Activation), NEW i \in DOMAIN s
    PROVE  s[i] \in Activation /\ s[i].depth \in Nat
<1>1. s[i] \in Activation
  BY LenProperties
<1> QED
  BY <1>1 DEF Activation

LEMMA StackGrows ==
    ASSUME NEW n \in Nat, NEW k \in Nat, n <= k, NEW s, Sound(s, n)
    PROVE  Sound(s, k)
BY DEF Sound, FrameFits

LEMMA Prefix ==
    ASSUME NEW S, NEW s \in Seq(S), NEW k \in Nat, k <= Len(s)
    PROVE  /\ SubSeq(s, 1, k) \in Seq(S) /\ Len(SubSeq(s, 1, k)) = k
           /\ \A i \in 1 .. k : SubSeq(s, 1, k)[i] = s[i]
OBVIOUS

LEMMA WithoutLast ==
    ASSUME NEW S, NEW s \in Seq(S), s # <<>>
    PROVE  /\ SubSeq(s, 1, Len(s) - 1) \in Seq(S) /\ Len(SubSeq(s, 1, Len(s) - 1)) = Len(s) - 1
           /\ \A i \in 1 .. Len(s) - 1 : SubSeq(s, 1, Len(s) - 1)[i] = s[i]
<1>1. Len(s) - 1 \in Nat /\ Len(s) - 1 <= Len(s)
  BY EmptySeq, LenProperties
<1> QED
  BY <1>1, Prefix, Zenon

LEMMA StackShrinks ==
    ASSUME NEW n \in Nat, NEW s, s # <<>>, Sound(s, n)
    PROVE  Sound(SubSeq(s, 1, Len(s) - 1), n)
<1> DEFINE t == SubSeq(s, 1, Len(s) - 1)
<1>1. s \in Seq(Activation) /\ Len(s) \in Nat \ {0}
  BY EmptySeq, LenProperties DEF Sound
<1>2. t \in Seq(Activation) /\ Len(t) = Len(s) - 1 /\ \A i \in 1 .. Len(t) : t[i] = s[i]
  BY <1>1, WithoutLast
<1>3. ASSUME NEW i \in DOMAIN t PROVE FrameFits(t, i, n)
  <2>1. i \in 1 .. Len(t) /\ i \in DOMAIN s /\ t[i] = s[i] /\ FrameFits(s, i, n)
    BY <1>1, <1>2, <1>3 DEF Sound
  <2>2. s[i].depth \in Nat
    BY <1>1, <2>1, Depths
  <2>3. \A j \in i - s[i].depth + 1 .. i - 1 : j \in 1 .. Len(t)
    BY <1>1, <1>2, <2>1, <2>2 DEF FrameFits
  <2> QED
    BY <1>2, <2>1, <2>2, <2>3 DEF FrameFits
<1> QED
  BY <1>2, <1>3 DEF Sound

\* A call: the new frame is compared with those of its chain.
LEMMA StackPush ==
    ASSUME NEW n \in Nat, NEW s, Sound(s, n), NEW f \in Activation,
           f.section \in 0 .. n, f.kind # "config" => f.section # 0,
           f.kind # "folder" => f.name \in DOMAIN disk,
           f.depth <= Len(s) + 1, f.depth <= MaxDepth,
           \A j \in Len(s) + 1 - f.depth + 1 .. Len(s) : s[j].name # f.name
    PROVE  Sound(Append(s, f), n)
<1> DEFINE t == Append(s, f)
<1>1. s \in Seq(Activation) /\ Len(s) \in Nat
  BY LenProperties DEF Sound
<1>2. /\ t \in Seq(Activation) /\ Len(t) = Len(s) + 1
      /\ \A i \in 1 .. Len(s) : t[i] = s[i]
      /\ t[Len(s) + 1] = f
  BY <1>1, AppendProperties
<1>3. ASSUME NEW i \in DOMAIN t PROVE FrameFits(t, i, n)
  <2>0. i \in 1 .. Len(t) /\ f.depth \in Nat
    BY <1>2 DEF Activation
  <2>1. CASE i \in 1 .. Len(s)
    <3>1. i \in DOMAIN s /\ t[i] = s[i] /\ FrameFits(s, i, n)
      BY <1>1, <1>2, <2>1 DEF Sound
    <3>2. s[i].depth \in Nat
      BY <1>1, <3>1, Depths
    <3>3. \A j \in i - s[i].depth + 1 .. i - 1 : j \in 1 .. Len(s)
      BY <1>1, <2>1, <3>1, <3>2 DEF FrameFits
    <3> QED
      BY <1>2, <3>1, <3>2, <3>3 DEF FrameFits
  <2>2. CASE i = Len(s) + 1
    <3>1. \A j \in i - f.depth + 1 .. i - 1 : j \in 1 .. Len(s) /\ t[j] = s[j]
      BY <1>1, <1>2, <2>0, <2>2
    <3>2. \A j \in i - f.depth + 1 .. i - 1 : t[j].name # t[i].name
      BY <1>1, <1>2, <2>0, <2>2, <3>1
    <3> QED
      BY <1>2, <2>2, <3>2 DEF FrameFits
  <2> QED
    BY <1>1, <1>2, <2>0, <2>1, <2>2
<1> QED
  BY <1>2, <1>3 DEF Sound

\* A frame that goes on keeps its file and its place in the chain.
LEMMA StackReplace ==
    ASSUME NEW n \in Nat, NEW s, s # <<>>, Sound(s, n), NEW f \in Activation,
           f.kind = s[Len(s)].kind, f.name = s[Len(s)].name, f.depth = s[Len(s)].depth,
           f.section \in 0 .. n, f.kind # "config" => f.section # 0
    PROVE  Sound([s EXCEPT ![Len(s)] = f], n)
<1> DEFINE t == [s EXCEPT ![Len(s)] = f]
<1>1. s \in Seq(Activation) /\ Len(s) \in Nat \ {0} /\ Len(s) \in 1 .. Len(s)
  BY EmptySeq, LenProperties DEF Sound
<1>2. /\ t \in Seq(Activation) /\ Len(t) = Len(s)
      /\ \A i \in 1 .. Len(s) : t[i] = IF i = Len(s) THEN f ELSE s[i]
  BY <1>1, ExceptSeq
<1>3. ASSUME NEW i \in DOMAIN t PROVE FrameFits(t, i, n)
  <2>1. i \in 1 .. Len(s) /\ i \in DOMAIN s /\ FrameFits(s, i, n)
    BY <1>1, <1>2 DEF Sound
  <2>2. s[i].depth \in Nat
    BY <1>1, <2>1, Depths
  <2>3. \A j \in 1 .. Len(s) : t[j].name = s[j].name
    BY <1>2
  <2>4. \A j \in i - s[i].depth + 1 .. i - 1 : j \in 1 .. Len(s)
    BY <1>1, <2>1, <2>2 DEF FrameFits
  <2>5. t[i].depth = s[i].depth /\ t[i].kind = s[i].kind /\ t[i].name = s[i].name
    BY <1>2, <2>1
  <2>6. t[i].section \in 0 .. n /\ (t[i].kind # "config" => t[i].section # 0)
    BY <1>2, <2>1 DEF FrameFits
  <2> QED
    BY <2>1, <2>2, <2>3, <2>4, <2>5, <2>6 DEF FrameFits
<1> QED
  BY <1>2, <1>3 DEF Sound

-----------------------------------------------------------------------------
\* Lines.

LEMMA Minimum ==
    ASSUME NEW S \in SUBSET Nat, S # {}
    PROVE  \E m \in S : \A k \in S : m <= k
<1>1. PICK m \in S : \A k \in S : <<k, m>> \notin OpToRel(<, Nat)
  BY WFMin, NatLessThanWellFounded, Zenon
<1>2. \A k \in S : ~ (k < m)
  BY <1>1, Zenon DEF OpToRel
<1> QED
  BY <1>2

\* The frame that runs.
LEMMA Running ==
    ASSUME IInv, stack # <<>>
    PROVE  /\ Len(stack) \in Nat \ {0} /\ Len(stack) \in DOMAIN stack /\ Top \in Activation
           /\ FrameFits(stack, Len(stack), Len(objects))
<1>1. Len(stack) \in Nat \ {0} /\ Len(stack) \in DOMAIN stack
  BY EmptySeq, LenProperties DEF IInv, Sound
<1> QED
  BY <1>1, Depths DEF IInv, Sound, Top

\* Where the line that is read next begins and ends.
LEMMA LineSpan ==
    ASSUME IInv, HasLine
    PROVE  /\ stack # <<>> /\ Top \in Activation /\ Text \in Seq(Statement \cup Break)
           /\ Begin \in Nat \ {0} /\ Top.pos <= Begin
           /\ End \in Nat /\ Begin <= End /\ End <= Len(Text) /\ Text[End] \in Break
           /\ \A q \in Ends : End <= q
<1>1. stack # <<>> /\ Top \in Activation /\ Top.name \in DOMAIN disk
  BY Running DEF HasLine, Reading, FrameFits, Top
<1>2. Text \in Seq(Statement \cup Break)
  BY <1>1, ConfigAssumption DEF IInv, Tables, Text
<1>3. Top.pos \in Nat \ {0}
  BY <1>1 DEF Activation
<1>4. Begin \in Nat \ {0} /\ Top.pos <= Begin /\ Len(Text) \in Nat
  BY <1>2, <1>3, LenProperties DEF Begin
<1>5. Ends \in SUBSET Nat /\ Ends # {}
  BY <1>4 DEF Ends, HasLine
<1>6. End \in Ends /\ \A q \in Ends : End <= q
  BY <1>5, Minimum, Zenon DEF End
<1> QED
  BY <1>1, <1>2, <1>4, <1>6 DEF Ends

LEMMA LineIsRead ==
    ASSUME IInv, HasLine
    PROVE  /\ Line \in Statement
           /\ Line.op # "comment" => \E p \in DOMAIN Text : Line = Text[p]
           /\ After \in Activation
           /\ \A f \in {"kind", "name", "depth", "section"} : After[f] = Top[f]
<1>1. /\ Top \in Activation /\ Text \in Seq(Statement \cup Break) /\ DOMAIN Text = 1 .. Len(Text)
      /\ Begin \in Nat \ {0} /\ Len(Text) \in Nat
      /\ End \in Nat /\ Begin <= End /\ End <= Len(Text) /\ Text[End] \in Break
      /\ \A q \in Ends : End <= q
  BY LineSpan, LenProperties
<1>3. Top.pos \in Nat \ {0} /\ Top.line \in Nat
  BY <1>1 DEF Activation
<1>8. Line \in Statement /\ (Line.op # "comment" => Line = Text[Begin] /\ Begin \in DOMAIN Text)
  <2>1. CASE End = Begin
    BY <2>1 DEF Line, Statement
  <2>2. CASE End # Begin
    <3>1. Begin \notin Ends /\ Begin \in 1 .. Len(Text)
      BY <1>1, <2>2
    <3>2. Text[Begin] \notin Break
      BY <1>1, <3>1 DEF Ends
    <3>3. Text[Begin] \in Statement \cup Break
      BY <1>1, <3>1, ElementOfSeq
    <3> QED
      BY <1>1, <2>2, <3>1, <3>2, <3>3 DEF Line
  <2> QED
    BY <2>1, <2>2
<1>9. End + 1 \in Nat \ {0} /\ Top.line + 1 \in Nat
  BY <1>3, <1>1
<1> QED
  BY <1>1, <1>8, <1>9 DEF After, Activation

\* What a statement carries.
LEMMA Carried ==
    ASSUME NEW l \in Statement
    PROVE  /\ l.op \in {"include", "routeFile", "routeDir", "section"} => l.name \in Name
           /\ l.op = "section" => l.kind \in Kinds
           /\ l.op = "set" => l.field \in Fields /\ l.value \in Name \cup {None}
           /\ l.op = "service" => l.host \in {"127.0.0.1", "elsewhere"}
           /\ l.op \in {"route", "rule"} => l.via \in Seq(Name)
BY DEF Statement

LEMMA GoesOn ==
    ASSUME IInv, HasLine
    PROVE  Sound(Advanced, Len(objects)) /\ Advanced # <<>> /\ Len(Advanced) = Len(stack)
           /\ \A i \in DOMAIN stack : Advanced[i].name = stack[i].name
<1>1. stack # <<>> /\ FrameFits(stack, Len(stack), Len(objects)) /\ Len(objects) \in Nat
  BY Running, LenProperties DEF HasLine, Reading, IInv, Known
<1>2. /\ After \in Activation /\ After.kind = Top.kind /\ After.name = Top.name
      /\ After.depth = Top.depth /\ After.section = Top.section
  BY LineIsRead
<1>3. stack \in Seq(Activation) /\ Len(stack) \in 1 .. Len(stack)
  BY <1>1, EmptySeq, LenProperties DEF IInv, Sound
<1>4. Sound(Advanced, Len(objects))
  BY <1>1, <1>2, StackReplace DEF IInv, Top, Advanced, FrameFits
<1>5. Len(Advanced) = Len(stack)
      /\ \A i \in 1 .. Len(stack) : Advanced[i] = IF i = Len(stack) THEN After ELSE stack[i]
  BY <1>2, <1>3, ExceptSeq DEF Advanced
<1>6. Advanced # <<>>
  BY <1>1, <1>3, <1>4, <1>5, EmptySeq DEF Sound
<1> QED
  BY <1>2, <1>3, <1>4, <1>5, <1>6, LenProperties DEF Top

-----------------------------------------------------------------------------
\* Objects.

\* More objects, or the same ones with other contents.
Keeps(objs, more) ==
    /\ Len(objs) <= Len(more)
    /\ \A i \in DOMAIN objs : more[i].kind = objs[i].kind /\ more[i].name = objs[i].name

LEMMA FieldsOfObject ==
    ASSUME NEW o \in Object
    PROVE  /\ o.kind \in Kinds /\ o.name \in Name /\ o.set \in [Fields -> Name \cup {None}]
           /\ o.rules \in Seq([file : Name, line : Nat, via : Seq(Nat)])
           /\ o.services \in Seq({"127.0.0.1", "elsewhere"})
BY DEF Object

LEMMA LeadsOn ==
    ASSUME NEW objs \in Seq(Object), NEW more, Keeps(objs, more), Len(more) \in Nat,
           NEW o, Leads(o, objs)
    PROVE  Leads(o, more)
<1>1. Listed(objs) \subseteq Listed(more) /\ Listed(objs) \subseteq DOMAIN objs
  BY LenProperties DEF Listed, Keeps
<1> QED
  BY <1>1 DEF Leads, LeadTo, Keeps

LEMMA NewObject ==
    ASSUME Known(objects), NEW kind \in Kinds, NEW name \in Name
    PROVE  FromTemplate(kind, name) \in Object /\ FromTemplate(kind, name).kind = kind
           /\ FromTemplate(kind, name).name = name /\ FromTemplate(kind, name).rules = <<>>
<1>1. Template[kind] \in 1 .. 4
  BY DEF Template, Kinds
<1>2. Template[kind] \in 1 .. Len(objects)
  BY <1>1, LenProperties DEF Known
<1>3. objects[Template[kind]].set \in [Fields -> Name \cup {None}]
  BY <1>2, ElementOfSeq, FieldsOfObject DEF Known
<1>4. [f \in Fields |-> IF f \in Copied[kind] THEN objects[Template[kind]].set[f] ELSE None]
          \in [Fields -> Name \cup {None}]
  BY <1>3
<1>5. <<>> \in Seq([file : Name, line : Nat, via : Seq(Nat)])
      /\ <<>> \in Seq({"127.0.0.1", "elsewhere"})
  BY EmptySeq
<1> QED
  BY <1>4, <1>5 DEF FromTemplate, Fresh, Object

\* An object is looked for before it is made.
LEMMA Created ==
    ASSUME Known(objects), NEW kind \in Kinds, NEW name \in Name
    PROVE  /\ Known(FindOrCreate(kind, name)) /\ Keeps(objects, FindOrCreate(kind, name))
           /\ Found(FindOrCreate(kind, name), kind, name) # {}
<1> DEFINE o == FromTemplate(kind, name)
           more == Append(objects, o)
<1>0. objects \in Seq(Object) /\ Len(objects) \in Nat /\ DOMAIN objects = 1 .. Len(objects) /\ Len(objects) >= 4
  BY LenProperties DEF Known
<1>1. CASE Found(objects, kind, name) # {}
  BY <1>0, <1>1 DEF FindOrCreate, Keeps
<1>2. CASE Found(objects, kind, name) = {}
  <2>1. o \in Object /\ o.kind = kind /\ o.name = name /\ o.rules = <<>>
    BY NewObject
  <2> HIDE DEF o
  <2>2. /\ more \in Seq(Object) /\ Len(more) = Len(objects) + 1
        /\ \A i \in 1 .. Len(objects) : more[i] = objects[i]
        /\ more[Len(objects) + 1] = o
    BY <1>0, <2>1, AppendProperties
  <2>3. DOMAIN more = 1 .. Len(objects) + 1
    BY <2>2, LenProperties
  <2> HIDE DEF more
  <2>4. Keeps(objects, more)
    BY <1>0, <2>2 DEF Keeps
  <2>5. Listed(more) = Listed(objects) \cup {Len(objects) + 1} /\ Listed(objects) \subseteq 1 .. Len(objects)
    BY <1>0, <2>2 DEF Listed
  <2>6. \A i \in Listed(objects) : ~ (objects[i].kind = kind /\ objects[i].name = name)
    BY <1>2 DEF Found
  <2>7. Unique(more)
    BY <2>1, <2>2, <2>5, <2>6 DEF Unique, Known
  <2>8. ASSUME NEW i \in DOMAIN more PROVE Leads(more[i], more)
    <3>1. CASE i \in 1 .. Len(objects)
      BY <1>0, <2>2, <2>4, <3>1, LeadsOn DEF Known
    <3>2. CASE i = Len(objects) + 1
      BY <2>1, <2>2, <3>2 DEF Leads
    <3> QED
      BY <1>0, <2>3, <3>1, <3>2
  <2>9. Known(more)
    BY <1>0, <2>2, <2>7, <2>8 DEF Known
  <2>10. Len(objects) + 1 \in Found(more, kind, name)
    BY <2>1, <2>2, <2>5 DEF Found
  <2> QED
    BY <1>2, <2>4, <2>9, <2>10 DEF FindOrCreate, o, more
<1> QED
  BY <1>1, <1>2

\* An object gets other contents.
LEMMA Changed ==
    ASSUME NEW objs, Known(objs), NEW i \in DOMAIN objs, NEW o \in Object,
           o.kind = objs[i].kind, o.name = objs[i].name, Leads(o, objs)
    PROVE  Known([objs EXCEPT ![i] = o]) /\ Keeps(objs, [objs EXCEPT ![i] = o])
<1> DEFINE more == [objs EXCEPT ![i] = o]
<1>1. objs \in Seq(Object) /\ Len(objs) \in Nat /\ DOMAIN objs = 1 .. Len(objs)
  BY LenProperties DEF Known
<1>2. /\ more \in Seq(Object) /\ Len(more) = Len(objs)
      /\ \A j \in 1 .. Len(objs) : more[j] = IF j = i THEN o ELSE objs[j]
  BY <1>1, ExceptSeq
<1>3. DOMAIN more = 1 .. Len(objs)
  BY <1>1
<1> HIDE DEF more
<1>4. Keeps(objs, more)
  BY <1>1, <1>2 DEF Keeps
<1>5. Listed(more) = Listed(objs) /\ Listed(objs) \subseteq 1 .. Len(objs)
  BY <1>1, <1>2 DEF Listed
<1>6. Unique(more)
  BY <1>2, <1>5 DEF Unique, Known
<1>7. \A j \in 1 .. Len(objs) : Leads(more[j], objs)
  BY <1>1, <1>2 DEF Known
<1>8. \A j \in DOMAIN more : Leads(more[j], more)
  BY <1>1, <1>2, <1>3, <1>4, <1>7, LeadsOn
<1>9. Known(more)
  BY <1>2, <1>6, <1>8 DEF Known
<1> QED
  BY <1>4, <1>9 DEF more

-----------------------------------------------------------------------------
\* Calls, returns and exits.

Same == UNCHANGED <<disk, options, optind>>

\* What every step has to show, when the disk and the options do not change.
LEMMA StepKeepsIInv ==
    ASSUME IInv, Same, Flags', Known(objects'), Keeps(objects, objects'),
           Sound(stack', Len(objects)) \/ Sound(stack', Len(objects'))
    PROVE  IInv'
<1>1. Len(objects) \in Nat /\ Len(objects') \in Nat /\ Len(objects) <= Len(objects')
  BY LenProperties DEF IInv, Known, Keeps
<1>2. Sound(stack', Len(objects'))
  BY <1>1, StackGrows
<1>3. Sound(stack, Len(objects))' /\ Known(objects)'
  BY <1>2 DEF Sound, FrameFits, Same, Known, Unique, Leads, LeadTo, Listed
<1> QED
  BY <1>3 DEF IInv, Same, Tables

LEMMA NothingRuns == Sound(<<>>, Len(objects))
BY EmptySeq DEF Sound

LEMMA SameObjects == IInv => Known(objects) /\ Keeps(objects, objects)
BY LenProperties DEF IInv, Known, Keeps

LEMMA ExitKeepsIInv ==
    ASSUME IInv, Same, Flags', stack' = <<>>, UNCHANGED objects
    PROVE  IInv'
<1> QED
  BY NothingRuns, SameObjects, StepKeepsIInv

LEMMA FailKeepsIInv ==
    ASSUME IInv, Same, UNCHANGED objects, NEW kind, NEW callers, Sound(callers, Len(objects)),
           NEW told, Fail(kind, callers, told)
    PROVE  IInv'
<1>1. Len(objects) \in Nat
  BY LenProperties DEF IInv, Known
<1>2. CASE Survives(kind, callers)
  <2>1. Flags' /\ stack' = Resumed(kind, callers)
    BY <1>2 DEF Fail, IInv, Flags
  <2>2. Sound(stack', Len(objects))
    BY <1>1, <1>2, <2>1, StackShrinks DEF Survives, Resumed
  <2> QED
    BY <2>1, <2>2, SameObjects, StepKeepsIInv
<1>3. CASE ~Survives(kind, callers)
  BY <1>3, ExitKeepsIInv DEF Fail, IInv, Flags
<1> QED
  BY <1>2, <1>3

\* A file is opened for the next level of a chain, or as the first of a new one.
LEMMA CallKeepsIInv ==
    ASSUME IInv, Same, UNCHANGED objects, NEW callers, Sound(callers, Len(objects)),
           NEW kind \in {"config", "rules"}, NEW name \in Name, NEW depth \in Nat,
           NEW section \in 0 .. Len(objects), kind = "rules" => section # 0,
           depth <= Len(callers) + 1, depth <= MaxDepth,
           \A j \in Len(callers) + 1 - depth + 1 .. Len(callers) : callers[j].name # name,
           Call(kind, name, callers, depth, section)
    PROVE  IInv'
<1>1. CASE name \in DOMAIN disk
  <2> DEFINE f == Frame(kind, name, depth, section, <<>>)
  <2>1. f \in Activation /\ f.kind = kind /\ f.name = name /\ f.depth = depth /\ f.section = section
    <3>1. section \in Nat /\ <<>> \in Seq(Name)
      BY LenProperties, EmptySeq DEF IInv, Known
    <3> QED
      BY <3>1 DEF Frame, Activation
  <2>2. stack' = Append(callers, f) /\ Flags'
    BY <1>1 DEF Call, IInv, Flags
  <2> HIDE DEF f
  <2>3. Len(objects) \in Nat
    BY LenProperties DEF IInv, Known
  <2>4. Sound(stack', Len(objects))
    BY <1>1, <2>1, <2>2, <2>3, StackPush
  <2> QED
    BY <2>2, <2>4, SameObjects, StepKeepsIInv
<1>2. CASE name \notin DOMAIN disk
  BY <1>2, FailKeepsIInv DEF Call
<1> QED
  BY <1>1, <1>2

LEMMA CallersSound ==
    ASSUME IInv, stack # <<>>
    PROVE  Sound(Callers, Len(objects))
BY StackShrinks, LenProperties DEF IInv, Known, Callers

-----------------------------------------------------------------------------
\* The steps that only move through the text.

LEMMA ParseFailsKeepsIInv == IInv /\ ParseFails => IInv'
<1> SUFFICES ASSUME IInv, ParseFails PROVE IInv' OBVIOUS
<1> QED
  BY CallersSound, FailKeepsIInv DEF ParseFails, HasLine, Reading, Same

LEMMA EndOfFileKeepsIInv == IInv /\ EndOfFile => IInv'
<1> SUFFICES ASSUME IInv, EndOfFile PROVE IInv' OBVIOUS
<1>1. Flags' /\ Same /\ stack' = Callers /\ objects' = objects /\ stack # <<>>
  BY DEF EndOfFile, Reading, Same, IInv, Flags
<1> QED
  BY <1>1, CallersSound, SameObjects, StepKeepsIInv

LEMMA CommentKeepsIInv == IInv /\ Comment => IInv'
<1> SUFFICES ASSUME IInv, Comment PROVE IInv' OBVIOUS
<1>1. Flags' /\ Same /\ stack' = Advanced /\ objects' = objects /\ HasLine
  BY DEF Comment, Same, IInv, Flags
<1> QED
  BY <1>1, GoesOn, SameObjects, StepKeepsIInv

LEMMA NotUnderstoodKeepsIInv == IInv /\ NotUnderstood => IInv'
BY ExitKeepsIInv DEF NotUnderstood, Exits, Flags, Same

\* Blocked() has compared the new file with those of the chain.
LEMMA IncludeKeepsIInv == IInv /\ Include => IInv'
<1> SUFFICES ASSUME IInv, Include PROVE IInv' OBVIOUS
<1>1. Same /\ objects' = objects /\ HasLine /\ stack # <<>>
  BY DEF Include, Same, HasLine, Reading
<1>2. CASE Blocked(Line.name)
  <2>1. Flags' /\ stack' = Advanced
    BY <1>2 DEF Include, IInv, Flags
  <2> QED
    BY <1>1, <2>1, GoesOn, SameObjects, StepKeepsIInv
<1>3. CASE ~Blocked(Line.name)
  <2>1. /\ Len(stack) \in Nat \ {0} /\ Top \in Activation /\ Top.depth \in Nat
        /\ FrameFits(stack, Len(stack), Len(objects)) /\ DOMAIN stack = 1 .. Len(stack)
    BY <1>1, Running, Depths, LenProperties DEF IInv, Sound, Top
  <2>2. Line.name \in Name
    BY <1>1, LineIsRead, Carried DEF Include
  <2>3. MaxDepth \in Nat /\ Top.depth < MaxDepth /\ Top.depth <= Len(stack)
    BY <1>3, <2>1, ConfigAssumption DEF Blocked, FrameFits, Top
  <2>4. Top.kind \in {"config", "rules"}
    BY <1>1, <2>1 DEF Activation, HasLine, Reading
  <2>5. \A j \in Len(stack) - Top.depth + 1 .. Len(stack) : stack[j].name # Line.name
    BY <1>3 DEF Blocked
  <2>6. \A j \in Len(Advanced) + 1 - (Top.depth + 1) + 1 .. Len(Advanced) :
            Advanced[j].name # Line.name
    <3>1. Len(Advanced) = Len(stack) /\ \A i \in 1 .. Len(stack) : Advanced[i].name = stack[i].name
      BY <1>1, <2>1, GoesOn
    <3>2. Len(stack) + 1 - (Top.depth + 1) + 1 = Len(stack) - Top.depth + 1
      BY <2>1
    <3>3. \A j \in Len(stack) - Top.depth + 1 .. Len(stack) : j \in 1 .. Len(stack)
      BY <2>1, <2>3
    <3> QED
      BY <2>5, <3>1, <3>2, <3>3
  <2>7. /\ Top.depth + 1 \in Nat /\ Top.depth + 1 <= MaxDepth
        /\ Top.depth + 1 <= Len(Advanced) + 1
    BY <1>1, <2>1, <2>3, GoesOn
  <2> DEFINE section == IF Top.kind = "config" THEN NoSection ELSE Top.section
  <2>8. section \in 0 .. Len(objects) /\ (Top.kind = "rules" => section # 0)
    BY <2>1, LenProperties DEF FrameFits, NoSection, Top, IInv, Known
  <2>9. Call(Top.kind, Line.name, Advanced, Top.depth + 1, section)
    BY <1>3 DEF Include
  <2> HIDE DEF section
  <2> QED
    BY <1>1, <2>2, <2>4, <2>6, <2>7, <2>8, <2>9, GoesOn, CallKeepsIInv
<1> QED
  BY <1>2, <1>3

-----------------------------------------------------------------------------
\* The steps that change objects.

\* Where the sections of the running frame lead.
LEMMA OpenSection ==
    ASSUME IInv, HasLine, SectionKind # None
    PROVE  Top.section \in DOMAIN objects /\ SectionKind = objects[Top.section].kind
<1>1. Top.section \in 0 .. Len(objects) /\ Top.section # 0
  BY Running DEF HasLine, Reading, FrameFits, Top, SectionKind
<1>2. DOMAIN objects = 1 .. Len(objects) /\ Len(objects) \in Nat
  BY LenProperties DEF IInv, Known
<1> QED
  BY <1>1, <1>2 DEF SectionKind

LEMMA ProxySection ==
    ASSUME IInv, HasLine, SectionKind = "proxy"
    PROVE  Top.section \in DOMAIN objects
BY OpenSection, ConfigAssumption DEF Kinds

LEMMA SectionKeepsIInv == IInv /\ Section => IInv'
<1> SUFFICES ASSUME IInv, Section PROVE IInv' OBVIOUS
<1> DEFINE i == Place(objects', Line.kind, Line.name)
           f == [After EXCEPT !.section = i]
<1>1. HasLine /\ Same /\ Flags' /\ stack # <<>>
  BY DEF Section, InConfig, Same, IInv, Flags, HasLine, Reading
<1>2. Line.kind \in Kinds /\ Line.name \in Name
  BY <1>1, LineIsRead, Carried DEF Section, InConfig
<1>3. Known(objects') /\ Keeps(objects, objects')
  <2>1. CASE Line.name = "default"
    BY <2>1, SameObjects DEF Section
  <2>2. CASE Line.name # "default"
    BY <1>2, <2>2, Created DEF Section, IInv
  <2> QED
    BY <2>1, <2>2
<1>4. Len(objects') \in Nat /\ Len(objects') >= 4
  BY <1>3, LenProperties DEF Known
<1>5. i \in 1 .. Len(objects')
  <2>1. CASE Line.name = "default"
    <3>1. Template[Line.kind] \in 1 .. 4
      BY <1>2 DEF Template, Kinds
    <3> QED
      BY <1>4, <2>1, <3>1 DEF Place
  <2>2. CASE Line.name # "default"
    <3>1. Found(objects', Line.kind, Line.name) # {}
      BY <1>2, <2>2, Created DEF Section, IInv
    <3>2. i \in Found(objects', Line.kind, Line.name)
      BY <2>2, <3>1 DEF Place, Search
    <3> QED
      BY <1>4, <3>2 DEF Found, Listed
  <2> QED
    BY <2>1, <2>2
<1> HIDE DEF i
<1>6. After \in Activation /\ After.kind = Top.kind /\ After.name = Top.name /\ After.depth = Top.depth
  BY <1>1, LineIsRead
<1>7. f \in Activation /\ f.kind = Top.kind /\ f.name = Top.name /\ f.depth = Top.depth /\ f.section = i
  BY <1>4, <1>5, <1>6 DEF Activation
<1>8. stack' = [stack EXCEPT ![Len(stack)] = f]
  BY DEF Section, i
<1> HIDE DEF f
<1>9. Sound(stack, Len(objects'))
  BY <1>3, <1>4, StackGrows, LenProperties DEF IInv, Known, Keeps
<1>10. Sound(stack', Len(objects'))
  <2>1. f.kind = stack[Len(stack)].kind /\ f.name = stack[Len(stack)].name
        /\ f.depth = stack[Len(stack)].depth
    BY <1>7 DEF Top
  <2>2. f.section \in 0 .. Len(objects') /\ f.section # 0
    BY <1>4, <1>5, <1>7
  <2>3. Sound([stack EXCEPT ![Len(stack)] = f], Len(objects'))
    BY <1>1, <1>4, <1>7, <1>9, <2>1, <2>2, StackReplace
  <2> QED
    BY <1>8, <2>3
<1> QED
  BY <1>1, <1>3, <1>10, StepKeepsIInv

\* A setting of an object, and the log that it may name.
LEMMA SettingKeeps ==
    ASSUME IInv, NEW i \in DOMAIN objects, NEW field \in Fields, NEW value \in Name
    PROVE  Known(WithSetting(i, field, value)) /\ Keeps(objects, WithSetting(i, field, value))
<1> DEFINE objs == IF field = "file" THEN FindOrCreate("log", value) ELSE objects
           o == [objs[i] EXCEPT !.set = [objs[i].set EXCEPT ![field] = value]]
<1>1. Known(objs) /\ Keeps(objects, objs)
  <2>1. "log" \in Kinds
    BY DEF Kinds
  <2> QED
    BY <2>1, Created, SameObjects DEF IInv
<1>2. WithSetting(i, field, value) = [objs EXCEPT ![i] = o]
  BY DEF WithSetting
<1> HIDE DEF objs
<1>3. i \in DOMAIN objs /\ Len(objs) \in Nat
  BY <1>1, LenProperties DEF Known, Keeps, IInv
<1>4. objs[i] \in Object /\ Leads(objs[i], objs)
  BY <1>1, <1>3, LenProperties DEF Known
<1>5. objs[i].set \in [Fields -> Name \cup {None}]
  BY <1>4, FieldsOfObject
<1>6. [objs[i].set EXCEPT ![field] = value] \in [Fields -> Name \cup {None}]
  BY <1>5
<1>7. o \in Object /\ o.kind = objs[i].kind /\ o.name = objs[i].name /\ o.rules = objs[i].rules
  BY <1>4, <1>6 DEF Object
<1>8. Leads(o, objs)
  BY <1>4, <1>7 DEF Leads
<1> HIDE DEF o
<1>9. Known([objs EXCEPT ![i] = o]) /\ Keeps(objs, [objs EXCEPT ![i] = o])
  BY <1>1, <1>3, <1>7, <1>8, Changed
<1>10. Keeps(objects, [objs EXCEPT ![i] = o])
  <2>1. Len([objs EXCEPT ![i] = o]) \in Nat /\ DOMAIN objects = 1 .. Len(objects)
        /\ DOMAIN objs = 1 .. Len(objs) /\ Len(objects) \in Nat
    BY <1>1, <1>9, LenProperties DEF Known, IInv
  <2> QED
    BY <1>1, <1>3, <1>9, <2>1 DEF Keeps
<1> QED
  BY <1>2, <1>9, <1>10

LEMMA SetKeepsIInv == IInv /\ Set => IInv'
<1> SUFFICES ASSUME IInv, Set PROVE IInv' OBVIOUS
<1>1. HasLine /\ Same /\ Flags' /\ stack' = Advanced
      /\ objects' = WithSetting(Top.section, Line.field, Line.value)
  BY DEF Set, InConfig, Same, IInv, Flags
<1>2. Line.field \in Fields /\ Line.value \in Name
  BY <1>1, LineIsRead, Carried DEF Set, InConfig, CanSet
<1>3. Top.section \in DOMAIN objects
  BY <1>1, OpenSection DEF Set, CanSet
<1>4. Known(objects') /\ Keeps(objects, objects')
  BY <1>1, <1>2, <1>3, SettingKeeps
<1> QED
  BY <1>1, <1>4, GoesOn, StepKeepsIInv

LEMMA ServiceKeepsIInv == IInv /\ Service => IInv'
<1> SUFFICES ASSUME IInv, Service PROVE IInv' OBVIOUS
<1> DEFINE i == Top.section
           o == [objects[i] EXCEPT !.services = <<Line.host>> \o @]
<1>1. HasLine /\ Same /\ Flags' /\ stack' = Advanced /\ objects' = [objects EXCEPT ![i] = o]
  BY DEF Service, InConfig, Same, IInv, Flags
<1>2. i \in DOMAIN objects
  BY <1>1, ProxySection DEF Service
<1> HIDE DEF i
<1>3. objects[i] \in Object /\ Leads(objects[i], objects)
  BY <1>2, LenProperties DEF IInv, Known
<1>4. objects[i].services \in Seq({"127.0.0.1", "elsewhere"})
  BY <1>3, FieldsOfObject
<1>5. <<Line.host>> \in Seq({"127.0.0.1", "elsewhere"})
  BY <1>1, LineIsRead, Carried DEF Service, InConfig
<1>6. <<Line.host>> \o objects[i].services \in Seq({"127.0.0.1", "elsewhere"})
  BY <1>4, <1>5, ConcatProperties
<1>7. o \in Object /\ o.kind = objects[i].kind /\ o.name = objects[i].name /\ o.rules = objects[i].rules
  BY <1>3, <1>6 DEF Object
<1>8. Leads(o, objects)
  BY <1>3, <1>7 DEF Leads
<1> HIDE DEF o
<1>9. Known(objects') /\ Keeps(objects, objects')
  BY <1>1, <1>2, <1>7, <1>8, Changed DEF IInv
<1> QED
  BY <1>1, <1>9, GoesOn, StepKeepsIInv

\* The tunnels of a rule are found, not made.
LEMMA TunnelsAreFound ==
    ASSUME IInv, NEW via \in Seq(Name), AllDefined(via)
    PROVE  Tunnels(via) \in Seq(Nat) /\ LeadTo(Tunnels(via), objects)
<1>1. Len(via) \in Nat /\ DOMAIN via = 1 .. Len(via) /\ MaxVia \in Nat
  BY LenProperties, ConfigAssumption
<1> DEFINE n == IF Len(via) > MaxVia THEN MaxVia ELSE Len(via)
<1>2. Held(via) = 1 .. n /\ n \in Nat /\ n <= Len(via)
  BY <1>1 DEF Held
<1> HIDE DEF n
<1>3. ASSUME NEW j \in 1 .. n
      PROVE  Search(objects, "ssh", via[j]) \in Found(objects, "ssh", via[j])
  BY <1>1, <1>2, <1>3 DEF AllDefined, Search
<1>4. \A j \in 1 .. n : /\ Search(objects, "ssh", via[j]) \in Listed(objects) \cap Nat
                         /\ objects[Search(objects, "ssh", via[j])].kind = "ssh"
  BY <1>3 DEF Found, Listed
<1>5. Tunnels(via) = [j \in 1 .. n |-> Search(objects, "ssh", via[j])]
  BY <1>2 DEF Tunnels
<1>6. Tunnels(via) \in [1 .. n -> Nat]
  BY <1>4, <1>5
<1>7. Tunnels(via) \in Seq(Nat)
  BY <1>2, <1>6, SeqDef
<1> QED
  BY <1>4, <1>5, <1>7 DEF LeadTo

\* The rule is added behind the others.
LEMMA RouteAdds ==
    ASSUME IInv, Route
    PROVE  \E i \in DOMAIN objects, r \in [file : Name, line : Nat, via : Seq(Nat)], o \in Object :
               /\ HasLine /\ i = Top.section /\ objects[i].kind = "proxy"
               /\ r.file = Top.name /\ r.line = After.line /\ r.via = Tunnels(Line.via) /\ LeadTo(r.via, objects)
               /\ o.kind = objects[i].kind /\ o.name = objects[i].name /\ o.set = objects[i].set
               /\ o.services = objects[i].services /\ o.rules = Append(objects[i].rules, r)
               /\ Leads(o, objects) /\ objects' = [objects EXCEPT ![i] = o]
<1> DEFINE i == Top.section
           r == [file |-> Top.name, line |-> After.line, via |-> Tunnels(Line.via)]
           more == Append(objects[i].rules, r)
           o == [objects[i] EXCEPT !.rules = more]
<1>1. HasLine /\ SectionKind = "proxy" /\ AllDefined(Line.via) /\ objects' = [objects EXCEPT ![i] = o]
  BY DEF Route, AtEnd
<1>2. i \in DOMAIN objects /\ objects[i].kind = "proxy"
  BY <1>1, OpenSection, ConfigAssumption DEF Kinds
<1> HIDE DEF i
<1>3. Line.via \in Seq(Name)
  BY <1>1, LineIsRead, Carried DEF Route
<1>4. Tunnels(Line.via) \in Seq(Nat) /\ LeadTo(Tunnels(Line.via), objects)
  BY <1>1, <1>3, TunnelsAreFound
<1>5. Top.name \in Name /\ After.line \in Nat
  BY <1>1, LineIsRead, Running DEF HasLine, Reading, Activation
<1>6. /\ r \in [file : Name, line : Nat, via : Seq(Nat)] /\ r.file = Top.name /\ r.line = After.line
      /\ r.via = Tunnels(Line.via) /\ LeadTo(r.via, objects)
  BY <1>4, <1>5
<1> HIDE DEF r
<1>7. objects[i] \in Object /\ Leads(objects[i], objects)
  BY <1>2, LenProperties DEF IInv, Known
<1>8. objects[i].rules \in Seq([file : Name, line : Nat, via : Seq(Nat)])
  BY <1>7, FieldsOfObject
<1>9. /\ more \in Seq([file : Name, line : Nat, via : Seq(Nat)])
      /\ Len(more) = Len(objects[i].rules) + 1
      /\ \A k \in 1 .. Len(objects[i].rules) : more[k] = objects[i].rules[k]
      /\ more[Len(objects[i].rules) + 1] = r
  BY <1>6, <1>8, AppendProperties
<1>10. \A k \in DOMAIN more : LeadTo(more[k].via, objects)
  <2>1. \A k \in 1 .. Len(objects[i].rules) : LeadTo(objects[i].rules[k].via, objects)
    BY <1>7, <1>8, LenProperties DEF Leads
  <2>2. DOMAIN more = 1 .. Len(objects[i].rules) + 1 /\ Len(objects[i].rules) \in Nat
    BY <1>8, <1>9, LenProperties
  <2>3. more[Len(objects[i].rules) + 1] = r /\ LeadTo(r.via, objects)
    BY <1>6, <1>9
  <2> HIDE DEF more
  <2>4. ASSUME NEW k \in DOMAIN more PROVE LeadTo(more[k].via, objects)
    <3>1. k = Len(objects[i].rules) + 1 \/ k \in 1 .. Len(objects[i].rules)
      BY <2>2
    <3> QED
      BY <1>9, <2>1, <2>3, <3>1
  <2> QED
    BY <2>4
<1>11. /\ o \in Object /\ o.kind = objects[i].kind /\ o.name = objects[i].name /\ o.set = objects[i].set
       /\ o.services = objects[i].services /\ o.rules = more
  BY <1>7, <1>9 DEF Object
<1>12. Leads(o, objects)
  <2> HIDE DEF more, o
  <2> QED
    BY <1>10, <1>11 DEF Leads
<1> HIDE DEF o
<1> QED
  BY <1>1, <1>2, <1>6, <1>11, <1>12 DEF i

LEMMA RouteKeepsIInv == IInv /\ Route => IInv'
<1> SUFFICES ASSUME IInv, Route PROVE IInv' OBVIOUS
<1>1. HasLine /\ Same /\ Flags' /\ stack' = Advanced
  BY DEF Route, Same, IInv, Flags
<1>2. Known(objects') /\ Keeps(objects, objects')
  BY RouteAdds, Changed DEF IInv
<1> QED
  BY <1>1, <1>2, GoesOn, StepKeepsIInv

-----------------------------------------------------------------------------
\* The steps that call, and main().

LEMMA RouteFileKeepsIInv == IInv /\ RouteFile => IInv'
<1> SUFFICES ASSUME IInv, RouteFile PROVE IInv' OBVIOUS
<1>1. HasLine /\ Same /\ objects' = objects /\ Call("rules", Line.name, Advanced, 1, Top.section)
  BY DEF RouteFile, InConfig, Same
<1>2. Line.name \in Name
  BY <1>1, LineIsRead, Carried DEF RouteFile, InConfig
<1>3. Top.section \in 1 .. Len(objects)
  BY <1>1, ProxySection, LenProperties DEF RouteFile, IInv, Known
<1>4. Len(Advanced) \in Nat /\ Sound(Advanced, Len(objects)) /\ Len(objects) \in Nat
  BY <1>1, GoesOn, LenProperties DEF IInv, Known, Sound
<1>5. /\ 1 \in Nat /\ 1 <= Len(Advanced) + 1 /\ 1 <= MaxDepth
      /\ \A j \in Len(Advanced) + 1 - 1 + 1 .. Len(Advanced) : Advanced[j].name # Line.name
  BY <1>4, ConfigAssumption
<1>6. Top.section \in 0 .. Len(objects) /\ Top.section # 0
  BY <1>3, <1>4
<1> QED
  BY <1>1, <1>2, <1>4, <1>5, <1>6, CallKeepsIInv

LEMMA RouteDirKeepsIInv == IInv /\ RouteDir => IInv'
<1> SUFFICES ASSUME IInv, RouteDir PROVE IInv' OBVIOUS
<1> DEFINE f == Frame("folder", Line.name, 0, Top.section, AsListed(Line.name))
<1>1. HasLine /\ Same /\ Flags' /\ objects' = objects /\ stack' = Append(Advanced, f)
  BY DEF RouteDir, InConfig, Same, IInv, Flags
<1>2. Line.name \in Name /\ AsListed(Line.name) \in Seq(Name)
  BY <1>1, LineIsRead, Carried, ConfigAssumption DEF RouteDir, InConfig
<1>3. Top.section \in 1 .. Len(objects)
  BY <1>1, ProxySection, LenProperties DEF RouteDir, IInv, Known
<1>4. Len(Advanced) \in Nat /\ Sound(Advanced, Len(objects)) /\ Len(objects) \in Nat
  BY <1>1, GoesOn, LenProperties DEF IInv, Known, Sound
<1>5. f \in Activation /\ f.kind = "folder" /\ f.depth = 0 /\ f.section = Top.section
  BY <1>2, <1>3, <1>4 DEF Frame, Activation
<1> HIDE DEF f
<1>6. /\ f.depth <= Len(Advanced) + 1 /\ f.depth <= MaxDepth
      /\ \A j \in Len(Advanced) + 1 - f.depth + 1 .. Len(Advanced) : Advanced[j].name # f.name
      /\ f.section \in 0 .. Len(objects) /\ f.section # 0
  BY <1>3, <1>4, <1>5, ConfigAssumption
<1>7. Sound(stack', Len(objects))
  BY <1>1, <1>4, <1>5, <1>6, StackPush
<1> QED
  BY <1>1, <1>7, SameObjects, StepKeepsIInv

LEMMA NextInFolderKeepsIInv == IInv /\ NextInFolder => IInv'
<1> SUFFICES ASSUME IInv, NextInFolder PROVE IInv' OBVIOUS
<1>1. Same /\ objects' = objects /\ stack # <<>> /\ Top.kind = "folder"
  BY DEF NextInFolder, Same
<1>2. CASE Top.todo = <<>>
  <2>1. Flags' /\ stack' = Callers
    BY <1>2 DEF NextInFolder, IInv, Flags
  <2> QED
    BY <1>1, <2>1, CallersSound, SameObjects, StepKeepsIInv
<1>3. CASE Top.todo # <<>>
  <2> DEFINE f == [Top EXCEPT !.todo = Tail(@)]
             callers == [stack EXCEPT ![Len(stack)] = f]
  <2>1. Call("rules", Head(Top.todo), callers, 1, Top.section)
    BY <1>3 DEF NextInFolder, Top
  <2>2. Len(stack) \in Nat \ {0} /\ Top \in Activation /\ FrameFits(stack, Len(stack), Len(objects))
    BY <1>1, Running
  <2>3. Top.todo \in Seq(Name)
    BY <2>2 DEF Activation
  <2>4. Head(Top.todo) \in Name /\ Tail(Top.todo) \in Seq(Name)
    BY <1>3, <2>3, HeadTailProperties
  <2>5. f \in Activation /\ f.kind = Top.kind /\ f.name = Top.name /\ f.depth = Top.depth
        /\ f.section = Top.section
    BY <2>2, <2>4 DEF Activation
  <2>6. Top.section \in 0 .. Len(objects) /\ Top.section # 0 /\ Len(objects) \in Nat
    BY <1>1, <2>2, LenProperties DEF FrameFits, Top, IInv, Known
  <2> HIDE DEF f
  <2>7. Sound(callers, Len(objects))
    BY <1>1, <2>5, <2>6, StackReplace DEF Top, IInv
  <2> HIDE DEF callers
  <2>8. Len(callers) \in Nat
    BY <2>7, LenProperties DEF Sound
  <2>9. /\ 1 \in Nat /\ 1 <= Len(callers) + 1 /\ 1 <= MaxDepth
        /\ \A j \in Len(callers) + 1 - 1 + 1 .. Len(callers) : callers[j].name # Head(Top.todo)
    BY <2>8, ConfigAssumption
  <2> QED
    BY <1>1, <2>1, <2>4, <2>6, <2>7, <2>9, CallKeepsIInv
<1> QED
  BY <1>2, <1>3

\* A step of main() that takes an option.
LEMMA OptionTaken ==
    ASSUME IInv, NEW op, NextOption(op), Flags', Known(objects'), Keeps(objects, objects'),
           Sound(stack', Len(objects'))
    PROVE  IInv'
<1>1. Tables'
  <2>1. options \in Seq(Option) /\ optind \in Nat
    BY ConfigAssumption DEF IInv, Tables
  <2>2. Len(options) \in Nat
    BY <2>1, LenProperties
  <2> QED
    BY <2>1, <2>2 DEF IInv, Tables, NextOption
<1>2. Sound(stack, Len(objects))' /\ Known(objects)'
  BY DEF NextOption, Sound, FrameFits, Known, Unique, Leads, LeadTo, Listed
<1> QED
  BY <1>1, <1>2 DEF IInv

LEMMA OptionName ==
    ASSUME IInv, optind <= Len(options)
    PROVE  options[optind].name \in Name
<1>1. options \in Seq(Option) /\ optind \in 1 .. Len(options)
  BY ConfigAssumption, LenProperties DEF IInv, Tables
<1>2. options[optind] \in Option
  BY <1>1, ElementOfSeq
<1> QED
  BY <1>2 DEF Option

LEMMA LoadConfigKeepsIInv == IInv /\ LoadConfig => IInv'
<1> SUFFICES ASSUME IInv, LoadConfig PROVE IInv' OBVIOUS
<1> DEFINE name == options[optind].name
           f == Frame("config", name, 1, NoSection, <<>>)
<1>1. name \in Name /\ NextOption("c") /\ objects' = objects /\ stack = <<>>
  BY OptionName DEF LoadConfig, NextOption, Between
<1>2. Known(objects') /\ Keeps(objects, objects') /\ Len(objects) \in Nat
  BY <1>1, SameObjects, LenProperties DEF IInv, Known
<1>3. Sound(<<>>, Len(objects)) /\ Len(<<>>) = 0
  BY NothingRuns, EmptySeq
<1>4. Flags' /\ Sound(stack', Len(objects'))
  <2>1. CASE name \in DOMAIN disk
    <3>1. f \in Activation /\ f.kind = "config" /\ f.name = name /\ f.depth = 1 /\ f.section = 0
      <4>1. <<>> \in Seq(Name)
        BY EmptySeq
      <4> QED
        BY <1>1, <4>1 DEF Frame, Activation, NoSection
    <3>2. stack' = Append(<<>>, f) /\ Flags'
      BY <2>1 DEF LoadConfig, Call, IInv, Flags
    <3> HIDE DEF f
    <3>3. /\ f.section \in 0 .. Len(objects) /\ f.depth <= Len(<<>>) + 1 /\ f.depth <= MaxDepth
          /\ \A j \in Len(<<>>) + 1 - f.depth + 1 .. Len(<<>>) : (<<>>)[j].name # f.name
      BY <1>2, <1>3, <3>1, ConfigAssumption
    <3>4. Sound(Append(<<>>, f), Len(objects))
      BY <1>2, <1>3, <2>1, <3>1, <3>3, StackPush
    <3> QED
      BY <1>1, <3>2, <3>4
  <2>2. CASE name \notin DOMAIN disk
    BY <1>1, <1>3, <2>2 DEF LoadConfig, Call, Fail, Survives, IInv, Flags
  <2> QED
    BY <2>1, <2>2
<1> QED
  BY <1>1, <1>2, <1>4, OptionTaken

LEMMA SetMainKeepsIInv ==
    ASSUME IInv, NEW op, NEW field \in Fields, SetMain(op, field)
    PROVE  IInv'
<1>1. options[optind].name \in Name /\ NextOption(op) /\ Flags' /\ stack' = stack
      /\ objects' = WithSetting(1, field, options[optind].name)
  BY OptionName DEF SetMain, NextOption, Template, IInv, Flags
<1>2. 1 \in DOMAIN objects /\ Len(objects) \in Nat
  BY LenProperties DEF IInv, Known
<1>3. Known(objects') /\ Keeps(objects, objects')
  BY <1>1, <1>2, SettingKeeps
<1>4. Sound(stack', Len(objects'))
  BY <1>1, <1>2, <1>3, StackGrows, LenProperties DEF IInv, Known, Keeps
<1> QED
  BY <1>1, <1>3, <1>4, OptionTaken

LEMMA ServeKeepsIInv == IInv /\ Serve => IInv'
<1> SUFFICES ASSUME IInv, Serve PROVE IInv' OBVIOUS
<1>1. Flags' /\ Same /\ stack' = stack /\ objects' = objects
  BY DEF Serve, Same, IInv, Flags
<1> QED
  BY <1>1, SameObjects, StepKeepsIInv DEF IInv

LEMMA StartFailsKeepsIInv == IInv /\ StartFails => IInv'
BY ExitKeepsIInv DEF StartFails, Exits, Flags, Same

-----------------------------------------------------------------------------
\* Theorems.

LEMMA ObjectsAtStart ==
    ASSUME Init
    PROVE  /\ objects \in Seq(Object) /\ Len(objects) = 7 /\ DOMAIN objects = 1 .. 7
           /\ \A i \in 1 .. 4 : objects[i] = Fresh(Templates[i], "default")
           /\ \A i \in 5 .. 7 : objects[i] = Fresh("ssh", Predefined[i - 4])
<1> DEFINE four == [i \in 1 .. 4 |-> Fresh(Templates[i], "default")]
           three == [i \in 1 .. 3 |-> Fresh("ssh", Predefined[i])]
<1>1. \A kind \in Kinds, name \in Name : Fresh(kind, name) \in Object
  <2>1. <<>> \in Seq([file : Name, line : Nat, via : Seq(Nat)])
        /\ <<>> \in Seq({"127.0.0.1", "elsewhere"})
    BY EmptySeq
  <2> QED
    BY <2>1 DEF Fresh, Object
<1>2. /\ \A i \in 1 .. 4 : Templates[i] \in Kinds
      /\ \A i \in 1 .. 3 : Predefined[i] \in Name
      /\ "default" \in Name /\ "ssh" \in Kinds
  BY ConfigAssumption DEF Templates, Predefined, Kinds
<1>3. four \in Seq(Object) /\ three \in Seq(Object) /\ Len(four) = 4 /\ Len(three) = 3
  <2>1. four \in [1 .. 4 -> Object] /\ three \in [1 .. 3 -> Object]
    BY <1>1, <1>2
  <2>2. four \in Seq(Object) /\ three \in Seq(Object)
    BY <2>1, SeqDef
  <2> QED
    BY <2>2, LenProperties
<1>4. objects = four \o three
  BY DEF Init
<1>5. /\ objects \in Seq(Object) /\ Len(objects) = 7
      /\ \A i \in 1 .. 4 : objects[i] = four[i]
      /\ \A i \in 5 .. 7 : objects[i] = three[i - 4]
  <2> HIDE DEF four, three
  <2>1. /\ four \o three \in Seq(Object) /\ Len(four \o three) = Len(four) + Len(three)
        /\ \A i \in 1 .. Len(four) + Len(three) :
               (four \o three)[i] = IF i <= Len(four) THEN four[i] ELSE three[i - Len(four)]
    BY <1>3, ConcatProperties
  <2> QED
    BY <1>3, <1>4, <2>1
<1>6. \A i \in 5 .. 7 : i - 4 \in 1 .. 3
  OBVIOUS
<1> QED
  BY <1>5, <1>6, LenProperties

LEMMA InitEstablishes == Init => IInv
<1> SUFFICES ASSUME Init PROVE IInv OBVIOUS
<1>1. /\ objects \in Seq(Object) /\ Len(objects) = 7 /\ DOMAIN objects = 1 .. 7
      /\ \A i \in 1 .. 4 : objects[i] = Fresh(Templates[i], "default")
      /\ \A i \in 5 .. 7 : objects[i] = Fresh("ssh", Predefined[i - 4])
  BY ObjectsAtStart
<1>2. \A i \in 1 .. 7 : objects[i].rules = <<>>
  BY <1>1 DEF Fresh
<1>3. \A i \in DOMAIN objects : Leads(objects[i], objects)
  BY <1>1, <1>2 DEF Leads
<1>4. Unique(objects)
  <2>1. \A i, j \in 5 .. 7 : objects[i].name = objects[j].name => i = j
    BY <1>1 DEF Fresh, Predefined
  <2> QED
    BY <1>1, <2>1 DEF Unique, Listed
<1>5. Known(objects)
  BY <1>1, <1>3, <1>4 DEF Known
<1>6. Tables
  <2>1. options \in Seq(Option)
    BY ConfigAssumption DEF Init
  <2>2. Len(options) \in Nat
    BY <2>1, LenProperties
  <2> QED
    BY <2>2 DEF Init, Tables
<1>7. Flags /\ Sound(stack, Len(objects))
  BY NothingRuns DEF Init, Flags
<1> QED
  BY <1>5, <1>6, <1>7 DEF IInv

LEMMA StepPreserves == IInv /\ [Next]_vars => IInv'
<1> SUFFICES ASSUME IInv, [Next]_vars PROVE IInv' OBVIOUS
<1>1. CASE UNCHANGED vars
  BY <1>1 DEF vars, IInv, Tables, Flags, Known, Unique, Leads, LeadTo, Listed, Sound, FrameFits
<1>2. CASE SetMain("v", "level") \/ SetMain("V", "file")
  BY <1>2, SetMainKeepsIInv DEF Fields
<1> QED
  BY <1>1, <1>2, ParseFailsKeepsIInv, EndOfFileKeepsIInv, CommentKeepsIInv, IncludeKeepsIInv,
     SectionKeepsIInv, SetKeepsIInv, ServiceKeepsIInv, RouteKeepsIInv, RouteFileKeepsIInv,
     RouteDirKeepsIInv, NextInFolderKeepsIInv, NotUnderstoodKeepsIInv, LoadConfigKeepsIInv,
     ServeKeepsIInv, StartFailsKeepsIInv DEF Next

THEOREM Invariant == Spec => []IInv
BY InitEstablishes, StepPreserves, PTL DEF Spec

\* Every object, frame and flag has the form the parsing functions expect: in
\* particular an open section is the number of an object that exists.
THEOREM TypeCorrect == Spec => []TypeOK
<1>1. IInv => TypeOK
  <2> SUFFICES ASSUME IInv PROVE TypeOK OBVIOUS
  <2>1. DOMAIN disk \subseteq Name /\ optind \in 1 .. Len(options) + 1
    BY ConfigAssumption DEF IInv, Tables
  <2>2. stack \in Seq(Activation) /\ \A i \in DOMAIN stack : stack[i].section \in 0 .. Len(objects)
    BY DEF IInv, Sound, FrameFits
  <2> QED
    BY <2>1, <2>2 DEF TypeOK, IInv, Known, Flags
<1> QED
  BY <1>1, Invariant, PTL

\* No file is opened while the same chain of includes is in the middle of it,
\* and no chain is longer than filename_stack (config_file.c:588, :691).
THEOREM NeverReentered == Spec => []NoReentry
<1>1. IInv => NoReentry
  BY DEF IInv, Sound, FrameFits, NoReentry
<1> QED
  BY <1>1, Invariant, PTL

\* A name means one object, in whichever files and sections it is used, and a
\* rule's tunnels are on the list of the main thread (config_file.c:280).
THEOREM OneObjectForEachName == Spec => []OneObjectPerName
<1>1. IInv => OneObjectPerName
  BY DEF IInv, Known, Unique, Leads, LeadTo, OneObjectPerName
<1> QED
  BY <1>1, Invariant, PTL

-----------------------------------------------------------------------------
\* Reading ends.  What is left to be read, of the options and in each of the
\* calls, is a list of numbers, the options first; every step makes the first
\* number that it changes smaller.

\* A chain of includes, a folder, and a chain of rule files.
Levels == 2 * MaxDepth + 1

Ahead(f) == IF f.kind = "folder" THEN Len(f.todo) + 1 ELSE Len(disk[f.name]) + 2 - f.pos
OptionsAhead == Len(options) + 1 - optind + (IF at = "reading" THEN 1 ELSE 0)
Measure == [k \in 0 .. Levels |->
               IF k = 0 THEN OptionsAhead ELSE IF k <= Len(stack) THEN Ahead(stack[k]) ELSE 0]

Smaller(f, g) ==
    \E k \in 0 .. Levels : f[k] < g[k] /\ \A j \in 0 .. k - 1 : f[j] = g[j]

\* How deep in the stack, and how far in its text, a frame may be.
Placed(f, i) ==
    /\ f.kind = "config" => i = f.depth
    /\ f.kind = "folder" => i <= MaxDepth + 1
    /\ f.kind = "rules" => i <= f.depth + MaxDepth + 1
    /\ f.kind # "folder" => f.pos <= Len(disk[f.name]) + 1
AllPlaced == \A i \in DOMAIN stack : Placed(stack[i], i)

LEMMA AheadIsPositive ==
    ASSUME IInv, NEW i \in DOMAIN stack, Placed(stack[i], i)
    PROVE  i \in Nat \ {0} /\ i <= Levels /\ Levels \in Nat /\ Ahead(stack[i]) \in Nat \ {0}
<1>1. stack \in Seq(Activation) /\ stack[i] \in Activation /\ MaxDepth \in Nat
  BY Depths, ConfigAssumption DEF IInv, Sound
<1>2. i \in Nat \ {0} /\ FrameFits(stack, i, Len(objects))
  BY <1>1, LenProperties DEF IInv, Sound
<1>3. i <= Levels /\ Levels \in Nat
  <2>1. stack[i].kind \in {"config", "rules", "folder"} /\ stack[i].depth \in Nat /\ stack[i].depth <= MaxDepth
    BY <1>1, <1>2 DEF Activation, FrameFits
  <2>2. i <= MaxDepth \/ i <= MaxDepth + 1 \/ i <= stack[i].depth + MaxDepth + 1
    BY <2>1 DEF Placed
  <2>3. i <= 2 * MaxDepth + 1
    BY <1>1, <1>2, <2>1, <2>2
  <2> QED
    BY <1>1, <2>3 DEF Levels
<1>4. CASE stack[i].kind = "folder"
  <2>1. Len(stack[i].todo) \in Nat
    BY <1>1, LenProperties DEF Activation
  <2> QED
    BY <1>2, <1>3, <1>4, <2>1 DEF Ahead
<1>5. CASE stack[i].kind # "folder"
  <2>1. disk[stack[i].name] \in Seq(Statement \cup Break)
    BY <1>2, <1>5, ConfigAssumption DEF FrameFits, IInv, Tables
  <2>2. Len(disk[stack[i].name]) \in Nat /\ stack[i].pos \in Nat
    BY <1>1, <2>1, LenProperties DEF Activation
  <2>3. stack[i].pos <= Len(disk[stack[i].name]) + 1
    BY <1>5 DEF Placed
  <2>4. Ahead(stack[i]) = Len(disk[stack[i].name]) + 2 - stack[i].pos
    BY <1>5 DEF Ahead
  <2> QED
    BY <1>2, <1>3, <2>2, <2>3, <2>4
<1> QED
  BY <1>2, <1>3, <1>4, <1>5

\* The four ways in which a step changes the stack.

\* The frame f takes the place of the running one, and less is left in it.
Moved(f) == Placed(f, Len(stack)) /\ Ahead(f) \in Nat /\ Ahead(f) < Ahead(Top)
Moves(s) ==
    /\ stack # <<>> /\ s \in Seq(Activation) /\ Len(s) = Len(stack)
    /\ \A i \in 1 .. Len(stack) - 1 : s[i] = stack[i]
    /\ Moved(s[Len(stack)])
Calls(s) ==
    /\ stack # <<>> /\ s \in Seq(Activation) /\ Len(s) = Len(stack) + 1
    /\ \A i \in 1 .. Len(stack) - 1 : s[i] = stack[i]
    /\ Moved(s[Len(stack)]) /\ Placed(s[Len(stack) + 1], Len(stack) + 1)
Returns(s) ==
    /\ stack # <<>> /\ s \in Seq(Activation) /\ Len(s) < Len(stack)
    /\ \A i \in 1 .. Len(s) : s[i] = stack[i]
InCalls == UNCHANGED <<disk, options, optind, at>> /\ (Moves(stack') \/ Calls(stack') \/ Returns(stack'))
\* The program exits or serves, or takes the next option.
InMain ==
    /\ UNCHANGED <<disk, options>> /\ at = "reading"
    /\ \/ at' # "reading" /\ optind' \in {optind, optind + 1} /\ stack' = <<>>
       \/ at' = at /\ optind' = optind + 1 /\ (stack' = <<>> \/ \E f : stack' = <<f>> /\ Placed(f, 1))
Forward == InCalls \/ InMain

LEMMA TopFacts ==
    ASSUME IInv, AllPlaced, stack # <<>>
    PROVE  /\ stack \in Seq(Activation) /\ Len(stack) \in Nat \ {0} /\ Top \in Activation
           /\ Top = stack[Len(stack)] /\ Placed(Top, Len(stack)) /\ Ahead(Top) \in Nat \ {0}
           /\ FrameFits(stack, Len(stack), Len(objects))
BY Running, AheadIsPositive DEF AllPlaced, Top, IInv, Sound

LEMMA AfterIsMoved ==
    ASSUME IInv, AllPlaced, HasLine
    PROVE  Moved(After) /\ \A n : Moved([After EXCEPT !.section = n])
<1>1. /\ stack # <<>> /\ Text \in Seq(Statement \cup Break) /\ Top.pos <= Begin /\ Begin \in Nat
      /\ End \in Nat /\ Begin <= End /\ End <= Len(Text)
  BY LineSpan
<1>2. Top \in Activation /\ Placed(Top, Len(stack)) /\ Ahead(Top) \in Nat /\ Len(Text) \in Nat
  BY <1>1, TopFacts, LenProperties
<1>3. Top.kind # "folder" /\ Text = disk[Top.name]
  BY DEF HasLine, Reading, Text
<1>5. ASSUME NEW f, f.kind = Top.kind, f.name = Top.name, f.depth = Top.depth, f.pos = End + 1
      PROVE  Moved(f)
  <2>1. Placed(f, Len(stack))
    BY <1>1, <1>2, <1>3, <1>5 DEF Placed
  <2>2. Ahead(f) = Len(Text) + 2 - (End + 1) /\ Ahead(Top) = Len(Text) + 2 - Top.pos
    BY <1>3, <1>5 DEF Ahead
  <2> QED
    BY <1>1, <1>2, <2>1, <2>2 DEF Moved, Activation
<1>6. After.kind = Top.kind /\ After.name = Top.name /\ After.depth = Top.depth /\ After.pos = End + 1
  BY <1>2 DEF After, Activation
<1> QED
  BY <1>2, <1>5, <1>6 DEF After, Activation

\* The running frame takes the next line, in whichever section.
LEMMA NextLine ==
    ASSUME IInv, AllPlaced, HasLine, NEW n \in Nat
    PROVE  Moves([stack EXCEPT ![Len(stack)] = [After EXCEPT !.section = n]]) /\ Moves(Advanced)
<1>1. stack # <<>> /\ stack \in Seq(Activation) /\ Len(stack) \in 1 .. Len(stack) /\ Len(stack) \in Nat
  BY TopFacts DEF HasLine, Reading
<1>2. ASSUME NEW f \in Activation, Moved(f)
      PROVE  Moves([stack EXCEPT ![Len(stack)] = f])
  <2> DEFINE s == [stack EXCEPT ![Len(stack)] = f]
  <2>1. /\ s \in Seq(Activation) /\ Len(s) = Len(stack)
        /\ \A i \in 1 .. Len(stack) : s[i] = IF i = Len(stack) THEN f ELSE stack[i]
    BY <1>1, ExceptSeq
  <2> HIDE DEF s
  <2>2. Moves(s)
    BY <1>1, <1>2, <2>1 DEF Moves
  <2> QED
    BY <2>2 DEF s
<1>3. After \in Activation /\ [After EXCEPT !.section = n] \in Activation
  BY LineIsRead DEF Activation
<1> QED
  BY <1>2, <1>3, AfterIsMoved DEF Advanced

LEMMA WithoutTop ==
    ASSUME NEW s, s # <<>>, Moves(s) \/ Returns(s)
    PROVE  Returns(SubSeq(s, 1, Len(s) - 1))
<1>1. s \in Seq(Activation) /\ Len(s) \in Nat \ {0} /\ Len(stack) \in Nat
  BY EmptySeq, LenProperties DEF Moves, Returns
<1> DEFINE t == SubSeq(s, 1, Len(s) - 1)
<1>2. t \in Seq(Activation) /\ Len(t) = Len(s) - 1 /\ \A i \in 1 .. Len(s) - 1 : t[i] = s[i]
  BY <1>1, WithoutLast
<1> HIDE DEF t
<1>3. Returns(t)
  BY <1>1, <1>2 DEF Moves, Returns
<1> QED
  BY <1>3 DEF t

LEMMA CallersReturn ==
    ASSUME IInv, stack # <<>>
    PROVE  Returns(Callers)
<1>1. stack \in Seq(Activation) /\ Len(stack) \in Nat
  BY Running DEF IInv, Sound
<1>2. /\ Callers \in Seq(Activation) /\ Len(Callers) = Len(stack) - 1
      /\ \A i \in 1 .. Len(stack) - 1 : Callers[i] = stack[i]
  BY <1>1, WithoutLast DEF Callers
<1> QED
  BY <1>1, <1>2 DEF Returns

LEMMA ExitIsForward ==
    ASSUME at = "reading", stack' = <<>>, at' = "exited", UNCHANGED <<disk, options, optind>>
    PROVE  Forward
BY DEF Forward, InMain

LEMMA FailIsForward ==
    ASSUME at = "reading", UNCHANGED <<disk, options, optind>>, NEW kind, NEW s,
           Moves(s) \/ Returns(s), NEW told, Fail(kind, s, told)
    PROVE  Forward
<1>1. CASE Survives(kind, s)
  BY <1>1, WithoutTop DEF Fail, Survives, Resumed, Forward, InCalls
<1>2. CASE ~Survives(kind, s)
  BY <1>2, ExitIsForward DEF Fail
<1> QED
  BY <1>1, <1>2

LEMMA CallIsForward ==
    ASSUME IInv, AllPlaced, at = "reading", UNCHANGED <<disk, options, optind>>, NEW s, Moves(s),
           NEW kind \in {"config", "rules"}, NEW name \in Name, NEW depth \in Nat, NEW section \in Nat,
           kind = "config" => depth = Len(stack) + 1,
           kind = "rules" => Len(stack) + 1 <= depth + MaxDepth + 1,
           Call(kind, name, s, depth, section)
    PROVE  Forward
<1>1. CASE name \in DOMAIN disk
  <2> DEFINE f == Frame(kind, name, depth, section, <<>>)
             t == Append(s, f)
  <2>1. f \in Activation /\ f.kind = kind /\ f.name = name /\ f.depth = depth /\ f.pos = 1
    BY EmptySeq DEF Frame, Activation
  <2>2. stack' = t /\ at' = at
    BY <1>1 DEF Call
  <2>3. Len(disk[name]) \in Nat
    <3>1. disk[name] \in Seq(Statement \cup Break)
      BY <1>1, ConfigAssumption DEF IInv, Tables
    <3> QED
      BY <3>1, LenProperties
  <2> HIDE DEF f
  <2>4. Placed(f, Len(stack) + 1)
    BY <2>1, <2>3 DEF Placed
  <2>5. s \in Seq(Activation) /\ Len(s) = Len(stack) /\ Len(stack) \in Nat \ {0}
    BY TopFacts DEF Moves
  <2>6. /\ t \in Seq(Activation) /\ Len(t) = Len(s) + 1
        /\ \A i \in 1 .. Len(s) : t[i] = s[i]
        /\ t[Len(s) + 1] = f
    BY <2>1, <2>5, AppendProperties
  <2> HIDE DEF t
  <2>7. Calls(t)
    BY <2>4, <2>5, <2>6 DEF Moves, Calls
  <2> QED
    BY <2>2, <2>7 DEF Forward, InCalls
<1>2. CASE name \notin DOMAIN disk
  BY <1>2, FailIsForward DEF Call
<1> QED
  BY <1>1, <1>2

LEMMA IncludeIsForward == IInv /\ AllPlaced /\ Include => Forward
<1> SUFFICES ASSUME IInv, AllPlaced, Include PROVE Forward OBVIOUS
<1>1. /\ HasLine /\ at = "reading" /\ UNCHANGED <<disk, options, optind>> /\ stack # <<>>
      /\ Moves(Advanced)
  BY NextLine DEF Include, HasLine, Reading
<1>2. CASE Blocked(Line.name)
  BY <1>1, <1>2 DEF Include, Forward, InCalls
<1>3. CASE ~Blocked(Line.name)
  <2> DEFINE section == IF Top.kind = "config" THEN NoSection ELSE Top.section
  <2>1. Call(Top.kind, Line.name, Advanced, Top.depth + 1, section)
    BY <1>3 DEF Include
  <2>2. Top \in Activation /\ Placed(Top, Len(stack)) /\ Len(stack) \in Nat /\ MaxDepth \in Nat
    BY <1>1, TopFacts, ConfigAssumption
  <2>3. Top.kind \in {"config", "rules"} /\ Top.depth \in Nat /\ section \in Nat
    BY <1>1, <2>2 DEF Activation, HasLine, Reading, NoSection
  <2>4. /\ Top.kind = "config" => Top.depth + 1 = Len(stack) + 1
        /\ Top.kind = "rules" => Len(stack) + 1 <= Top.depth + 1 + MaxDepth + 1
    <3>1. /\ Top.kind = "config" => Len(stack) = Top.depth
          /\ Top.kind = "rules" => Len(stack) <= Top.depth + MaxDepth + 1
      BY <2>2 DEF Placed
    <3> QED
      BY <2>2, <2>3, <3>1
  <2>5. Line.name \in Name
    BY <1>1, LineIsRead, Carried DEF Include
  <2> HIDE DEF section
  <2>6. Top.depth + 1 \in Nat
    BY <2>3
  <2> QED
    BY <1>1, <2>1, <2>3, <2>4, <2>5, <2>6, CallIsForward
<1> QED
  BY <1>2, <1>3

LEMMA SectionIsForward == IInv /\ IInv' /\ AllPlaced /\ Section => Forward
<1> SUFFICES ASSUME IInv, IInv', AllPlaced, Section PROVE Forward OBVIOUS
<1> DEFINE i == Place(objects', Line.kind, Line.name)
<1>1. /\ HasLine /\ stack # <<>> /\ UNCHANGED <<disk, options, optind, at>>
      /\ stack' = [stack EXCEPT ![Len(stack)] = [After EXCEPT !.section = i]]
  BY DEF Section, InConfig, HasLine, Reading
<1> HIDE DEF i
<1>2. stack \in Seq(Activation) /\ Len(stack) \in 1 .. Len(stack)
  BY <1>1, TopFacts
<1>3. stack' \in Seq(Activation)
  BY DEF IInv, Sound
<1>4. Moved([After EXCEPT !.section = i])
  BY <1>1, AfterIsMoved
<1>5. /\ Len(stack') = Len(stack)
      /\ \A k \in 1 .. Len(stack) - 1 : stack'[k] = stack[k]
      /\ stack'[Len(stack)] = [After EXCEPT !.section = i]
  <2>1. DOMAIN stack' = DOMAIN stack
    BY <1>1
  <2>2. Len(stack') = Len(stack)
    BY <1>2, <1>3, <2>1, LenProperties
  <2>3. DOMAIN stack = 1 .. Len(stack) /\ Len(stack) \in Nat
    BY <1>2, LenProperties
  <2> QED
    BY <1>1, <1>2, <2>2, <2>3
<1>6. Moves(stack')
  BY <1>1, <1>3, <1>4, <1>5 DEF Moves
<1> QED
  BY <1>1, <1>6 DEF Forward, InCalls

LEMMA RouteFileIsForward == IInv /\ AllPlaced /\ RouteFile => Forward
<1> SUFFICES ASSUME IInv, AllPlaced, RouteFile PROVE Forward OBVIOUS
<1>1. /\ HasLine /\ at = "reading" /\ UNCHANGED <<disk, options, optind>> /\ stack # <<>>
      /\ Top.kind = "config" /\ Call("rules", Line.name, Advanced, 1, Top.section)
  BY DEF RouteFile, InConfig, HasLine, Reading
<1>2. /\ Moves(Advanced) /\ Len(stack) \in Nat /\ MaxDepth \in Nat /\ Top.section \in Nat
      /\ Placed(Top, Len(stack)) /\ FrameFits(stack, Len(stack), Len(objects)) /\ Top = stack[Len(stack)]
  BY <1>1, NextLine, TopFacts, ConfigAssumption DEF Activation
<1>3. Len(stack) + 1 <= 1 + MaxDepth + 1
  BY <1>1, <1>2 DEF Placed, FrameFits
<1>4. Line.name \in Name
  BY <1>1, LineIsRead, Carried DEF RouteFile, InConfig
<1> QED
  BY <1>1, <1>2, <1>3, <1>4, CallIsForward

LEMMA RouteDirIsForward == IInv /\ IInv' /\ AllPlaced /\ RouteDir => Forward
<1> SUFFICES ASSUME IInv, IInv', AllPlaced, RouteDir PROVE Forward OBVIOUS
<1> DEFINE f == Frame("folder", Line.name, 0, Top.section, AsListed(Line.name))
<1>1. /\ HasLine /\ UNCHANGED <<disk, options, optind, at>> /\ stack # <<>>
      /\ Top.kind = "config" /\ stack' = Append(Advanced, f)
  BY DEF RouteDir, InConfig, HasLine, Reading
<1>2. /\ Moves(Advanced) /\ Len(stack) \in Nat /\ MaxDepth \in Nat
      /\ Placed(Top, Len(stack)) /\ FrameFits(stack, Len(stack), Len(objects)) /\ Top = stack[Len(stack)]
  BY <1>1, NextLine, TopFacts, ConfigAssumption
<1>3. f.kind = "folder"
  BY DEF Frame
<1> HIDE DEF f
<1>4. Placed(f, Len(stack) + 1)
  BY <1>1, <1>2, <1>3 DEF Placed, FrameFits
<1>5. Advanced \in Seq(Activation) /\ Len(Advanced) = Len(stack) /\ Len(stack) \in Nat \ {0}
  BY <1>1, <1>2, TopFacts DEF Moves
<1>6. stack' \in Seq(Activation)
  BY DEF IInv, Sound
<1>7. /\ Len(stack') = Len(Advanced) + 1
      /\ \A i \in 1 .. Len(Advanced) : stack'[i] = Advanced[i]
      /\ stack'[Len(Advanced) + 1] = f
  <2> HIDE DEF Moves
  <2>1. /\ Len(Append(Advanced, f)) = Len(Advanced) + 1
        /\ \A i \in 1 .. Len(Advanced) : Append(Advanced, f)[i] = Advanced[i]
        /\ Append(Advanced, f)[Len(Advanced) + 1] = f
    BY <1>5, AppendProperties
  <2> QED
    BY <1>1, <2>1
<1>8. Calls(stack')
  BY <1>2, <1>4, <1>5, <1>6, <1>7 DEF Moves, Calls
<1> QED
  BY <1>1, <1>8 DEF Forward, InCalls

LEMMA NextInFolderIsForward == IInv /\ AllPlaced /\ NextInFolder => Forward
<1> SUFFICES ASSUME IInv, AllPlaced, NextInFolder PROVE Forward OBVIOUS
<1>1. at = "reading" /\ stack # <<>> /\ Top.kind = "folder" /\ UNCHANGED <<disk, options, optind>>
  BY DEF NextInFolder
<1>2. CASE Top.todo = <<>>
  BY <1>1, <1>2, CallersReturn DEF NextInFolder, Forward, InCalls
<1>3. CASE Top.todo # <<>>
  <2> DEFINE f == [Top EXCEPT !.todo = Tail(@)]
             callers == [stack EXCEPT ![Len(stack)] = f]
  <2>1. Call("rules", Head(Top.todo), callers, 1, Top.section)
    BY <1>3 DEF NextInFolder, Top
  <2>2. /\ stack \in Seq(Activation) /\ Len(stack) \in Nat \ {0} /\ Top \in Activation
        /\ Placed(Top, Len(stack)) /\ MaxDepth \in Nat
    BY <1>1, TopFacts, ConfigAssumption
  <2>3. Top.todo \in Seq(Name) /\ Top.section \in Nat
    BY <2>2 DEF Activation
  <2>4. /\ Head(Top.todo) \in Name /\ Tail(Top.todo) \in Seq(Name)
        /\ Len(Tail(Top.todo)) = Len(Top.todo) - 1 /\ Len(Top.todo) \in Nat \ {0}
    BY <1>3, <2>3, HeadTailProperties, EmptySeq, LenProperties
  <2>5. f \in Activation /\ f.kind = "folder" /\ f.todo = Tail(Top.todo)
    BY <1>1, <2>2, <2>4 DEF Activation
  <2> HIDE DEF f
  <2>6. Moved(f)
    <3>1. Placed(f, Len(stack))
      BY <1>1, <2>2, <2>5 DEF Placed
    <3>2. Ahead(f) = Len(Top.todo) - 1 + 1 /\ Ahead(Top) = Len(Top.todo) + 1
      BY <1>1, <2>4, <2>5 DEF Ahead
    <3> QED
      BY <2>4, <3>1, <3>2 DEF Moved
  <2>7. /\ callers \in Seq(Activation) /\ Len(callers) = Len(stack)
        /\ \A i \in 1 .. Len(stack) : callers[i] = IF i = Len(stack) THEN f ELSE stack[i]
    BY <2>2, <2>5, ExceptSeq
  <2> HIDE DEF callers
  <2>8. Moves(callers)
    BY <1>1, <2>2, <2>6, <2>7 DEF Moves
  <2>9. Len(stack) + 1 <= 1 + MaxDepth + 1
    BY <1>1, <2>2 DEF Placed
  <2> QED
    BY <1>1, <2>1, <2>3, <2>4, <2>8, <2>9, CallIsForward
<1> QED
  BY <1>2, <1>3

LEMMA LoadConfigIsForward == IInv /\ LoadConfig => Forward
<1> SUFFICES ASSUME IInv, LoadConfig PROVE Forward OBVIOUS
<1> DEFINE name == options[optind].name
           f == Frame("config", name, 1, NoSection, <<>>)
<1>1. /\ at = "reading" /\ UNCHANGED <<disk, options>> /\ optind' = optind + 1
      /\ Call("config", name, <<>>, 1, NoSection)
  BY DEF LoadConfig, NextOption, Between
<1>2. CASE name \in DOMAIN disk
  <2>1. Len(disk[name]) \in Nat
    <3>1. disk[name] \in Seq(Statement \cup Break)
      BY <1>2, ConfigAssumption DEF IInv, Tables
    <3> QED
      BY <3>1, LenProperties
  <2>2. f.kind = "config" /\ f.name = name /\ f.depth = 1 /\ f.pos = 1
    BY DEF Frame
  <2>3. stack' = Append(<<>>, f) /\ at' = at
    BY <1>1, <1>2 DEF Call
  <2> HIDE DEF f
  <2>4. Placed(f, 1)
    BY <2>1, <2>2 DEF Placed
  <2>5. stack' = <<f>>
    BY <2>3
  <2> QED
    BY <1>1, <2>3, <2>4, <2>5 DEF Forward, InMain
<1>3. CASE name \notin DOMAIN disk
  <2>1. stack' = <<>> /\ at' = "exited"
    BY <1>1, <1>3 DEF Call, Fail, Survives
  <2> QED
    BY <1>1, <2>1 DEF Forward, InMain
<1> QED
  BY <1>2, <1>3

\* Every step is of one of the four kinds.
LEMMA StepIsForward == IInv /\ IInv' /\ AllPlaced /\ Next => Forward
<1> SUFFICES ASSUME IInv, IInv', AllPlaced, Next PROVE Forward OBVIOUS
<1>1. CASE ParseFails
  BY <1>1, CallersReturn, FailIsForward DEF ParseFails, HasLine, Reading
<1>2. CASE EndOfFile
  BY <1>2, CallersReturn DEF EndOfFile, Reading, Forward, InCalls
<1>3. CASE Comment \/ Set \/ Service \/ Route
  <2>1. HasLine /\ stack' = Advanced /\ UNCHANGED <<disk, options, optind, at>>
    BY <1>3 DEF Comment, Set, Service, Route, InConfig
  <2>2. Moves(Advanced)
    BY <2>1, NextLine
  <2> QED
    BY <2>1, <2>2 DEF Forward, InCalls
<1>4. CASE NotUnderstood \/ StartFails
  <2>1. at = "reading"
    BY <1>4 DEF NotUnderstood, StartFails, HasLine, Reading, Between
  <2> QED
    BY <1>4, <2>1, ExitIsForward DEF NotUnderstood, StartFails, Exits
<1>5. CASE SetMain("v", "level") \/ SetMain("V", "file")
  BY <1>5 DEF SetMain, NextOption, Between, Forward, InMain
<1>6. CASE Serve
  BY <1>6 DEF Serve, Between, Forward, InMain
<1> QED
  BY <1>1, <1>2, <1>3, <1>4, <1>5, <1>6, IncludeIsForward, SectionIsForward, RouteFileIsForward,
     RouteDirIsForward, NextInFolderIsForward, LoadConfigIsForward DEF Next

LEMMA PlacesAreKept == IInv /\ IInv' /\ AllPlaced /\ [Next]_vars => AllPlaced'
<1> SUFFICES ASSUME IInv, IInv', AllPlaced, [Next]_vars PROVE AllPlaced' OBVIOUS
<1>0. /\ stack \in Seq(Activation) /\ Len(stack) \in Nat /\ DOMAIN stack = 1 .. Len(stack)
      /\ stack' \in Seq(Activation) /\ Len(stack') \in Nat /\ DOMAIN stack' = 1 .. Len(stack')
  BY LenProperties DEF IInv, Sound
<1>1. CASE UNCHANGED vars
  BY <1>1 DEF vars, AllPlaced, Placed
<1>2. CASE InCalls
  <2> SUFFICES ASSUME NEW i \in 1 .. Len(stack') PROVE Placed(stack'[i], i)
    BY <1>0, <1>2 DEF InCalls, AllPlaced, Placed
  <2>1. \A k \in 1 .. Len(stack) : Placed(stack[k], k)
    BY <1>0 DEF AllPlaced
  <2>2. CASE i < Len(stack) /\ stack'[i] = stack[i]
    BY <1>0, <2>1, <2>2
  <2>3. CASE i = Len(stack) /\ Moved(stack'[i])
    BY <2>3 DEF Moved
  <2>4. CASE Returns(stack')
    <3>1. i < Len(stack) /\ stack'[i] = stack[i]
      BY <1>0, <2>4 DEF Returns
    <3> QED
      BY <2>2, <3>1
  <2>5. CASE Moves(stack')
    <3>1. i \in 1 .. Len(stack) - 1 \/ i = Len(stack)
      <4>1. Len(stack') = Len(stack)
        BY <2>5 DEF Moves
      <4>2. i \in 1 .. Len(stack) /\ Len(stack) \in Nat
        BY <1>0, <4>1
      <4> QED
        BY <4>2
    <3>2. i \in 1 .. Len(stack) - 1 => i < Len(stack) /\ stack'[i] = stack[i]
      BY <1>0, <2>5 DEF Moves
    <3>3. i = Len(stack) => Moved(stack'[i])
      BY <2>5 DEF Moves
    <3> QED
      BY <2>2, <2>3, <3>1, <3>2, <3>3
  <2>6. CASE Calls(stack')
    <3>1. i \in 1 .. Len(stack) - 1 \/ i = Len(stack) \/ i = Len(stack) + 1
      <4>1. Len(stack') = Len(stack) + 1
        BY <2>6 DEF Calls
      <4>2. i \in 1 .. Len(stack) + 1 /\ Len(stack) \in Nat
        BY <1>0, <4>1
      <4> QED
        BY <4>2
    <3>2. i \in 1 .. Len(stack) - 1 => i < Len(stack) /\ stack'[i] = stack[i]
      BY <1>0, <2>6 DEF Calls
    <3>3. /\ i = Len(stack) => Moved(stack'[i])
          /\ i = Len(stack) + 1 => Placed(stack'[i], i)
      BY <2>6 DEF Calls
    <3> QED
      BY <2>2, <2>3, <3>1, <3>2, <3>3
  <2> QED
    BY <1>2, <2>4, <2>5, <2>6 DEF InCalls
<1>3. CASE InMain
  <2>1. CASE stack' = <<>>
    BY <2>1, <1>0, EmptySeq DEF AllPlaced
  <2>2. CASE \E f : stack' = <<f>> /\ Placed(f, 1)
    <3>1. PICK f : stack' = <<f>> /\ Placed(f, 1)
      BY <2>2
    <3>2. DOMAIN stack' = {1} /\ stack'[1] = f
      BY <3>1
    <3> QED
      BY <1>3, <3>1, <3>2 DEF InMain, AllPlaced, Placed
  <2> QED
    BY <1>3, <2>1, <2>2 DEF InMain
<1> QED
  BY <1>1, <1>2, <1>3, StepIsForward DEF Forward

LEMMA Placement == Spec => []AllPlaced
<1>1. Init => AllPlaced
  BY EmptySeq DEF Init, AllPlaced
<1> QED
  BY <1>1, PlacesAreKept, Invariant, PTL DEF Spec

Numbers == Len(stack) <= Levels /\ Measure \in [0 .. Levels -> Nat]

LEMMA MeasureIsNatural == IInv /\ AllPlaced => Numbers
<1> SUFFICES ASSUME IInv, AllPlaced PROVE Numbers OBVIOUS
<1>1. /\ Levels \in Nat /\ Len(stack) \in Nat /\ DOMAIN stack = 1 .. Len(stack)
  BY ConfigAssumption, LenProperties DEF Levels, IInv, Sound
<1>2. \A k \in 1 .. Len(stack) : k <= Levels /\ Ahead(stack[k]) \in Nat
  BY <1>1, AheadIsPositive DEF AllPlaced
<1>3. Len(stack) <= Levels
  BY <1>1, <1>2
<1>4. OptionsAhead \in Nat
  <2>1. options \in Seq(Option) /\ optind \in 1 .. Len(options) + 1
    BY ConfigAssumption DEF IInv, Tables
  <2>2. Len(options) \in Nat
    BY <2>1, LenProperties
  <2>3. Len(options) + 1 - optind \in Nat
    BY <2>1, <2>2
  <2> QED
    BY <2>3 DEF OptionsAhead
<1>5. ASSUME NEW k \in 0 .. Levels
      PROVE  (IF k = 0 THEN OptionsAhead ELSE IF k <= Len(stack) THEN Ahead(stack[k]) ELSE 0) \in Nat
  BY <1>1, <1>2, <1>4
<1> QED
  BY <1>3, <1>5 DEF Measure, Numbers

LEMMA StepDescends ==
    ASSUME IInv, IInv', AllPlaced, Numbers, Numbers', Forward
    PROVE  Smaller(Measure', Measure)
<1>1. /\ stack \in Seq(Activation) /\ Len(stack) \in Nat /\ DOMAIN stack = 1 .. Len(stack)
      /\ stack' \in Seq(Activation) /\ Len(stack') \in Nat
      /\ Levels \in Nat /\ Len(stack) <= Levels /\ Len(stack') <= Levels
  BY ConfigAssumption, LenProperties DEF IInv, Sound, Levels, Numbers
<1>2. \A k \in 1 .. Levels : Measure[k] = IF k <= Len(stack) THEN Ahead(stack[k]) ELSE 0
  BY <1>1 DEF Measure
<1>3. \A k \in 1 .. Levels : Measure'[k] = IF k <= Len(stack') THEN Ahead(stack'[k]) ELSE 0
  BY <1>1 DEF Measure, Ahead, Forward, InCalls, InMain
<1>4. Measure[0] = OptionsAhead /\ Measure'[0] = OptionsAhead'
  BY <1>1 DEF Measure
<1>5. \A k \in 1 .. Len(stack) : Ahead(stack[k]) \in Nat \ {0}
  BY <1>1, AheadIsPositive DEF AllPlaced
<1>6. CASE InMain
  <2>1. /\ optind \in Nat /\ optind' \in {optind, optind + 1} /\ options' = options
        /\ at = "reading" /\ (at' = "reading" => optind' = optind + 1)
    BY <1>6, ConfigAssumption DEF InMain, IInv, Tables
  <2>2. Len(options) \in Nat
    BY ConfigAssumption, LenProperties DEF IInv, Tables
  <2>3. OptionsAhead' < OptionsAhead
    BY <2>1, <2>2 DEF OptionsAhead
  <2> QED
    BY <1>1, <1>4, <2>3 DEF Smaller
<1>7. CASE InCalls
  <2>1. Measure'[0] = Measure[0]
    BY <1>4, <1>7 DEF InCalls, OptionsAhead
  <2>2. ASSUME NEW k \in 1 .. Levels, Measure'[k] < Measure[k],
               \A j \in 1 .. k - 1 : Measure'[j] = Measure[j]
        PROVE  Smaller(Measure', Measure)
    <3>1. \A j \in 0 .. k - 1 : Measure'[j] = Measure[j]
      BY <1>1, <2>1, <2>2
    <3> QED
      BY <1>1, <2>2, <3>1 DEF Smaller
  <2>3. CASE Returns(stack')
    <3> DEFINE k == Len(stack') + 1
    <3>1. k \in 1 .. Len(stack) /\ k \in 1 .. Levels /\ \A j \in 1 .. k - 1 : stack'[j] = stack[j]
      BY <1>1, <2>3 DEF Returns
    <3>2. \A j \in 1 .. k - 1 : j \in 1 .. Levels /\ j <= Len(stack) /\ j <= Len(stack')
      BY <1>1, <3>1
    <3>3. \A j \in 1 .. k - 1 : Measure'[j] = Measure[j]
      BY <1>2, <1>3, <3>1, <3>2
    <3>4. Measure'[k] = 0 /\ Measure[k] = Ahead(stack[k])
      BY <1>1, <1>2, <1>3, <3>1
    <3> HIDE DEF k
    <3>5. Measure'[k] < Measure[k]
      BY <1>5, <3>1, <3>4
    <3> QED
      BY <2>2, <3>1, <3>3, <3>5
  <2>4. CASE Moves(stack') \/ Calls(stack')
    <3> DEFINE k == Len(stack)
    <3>1. k \in 1 .. Levels /\ k <= Len(stack') /\ \A j \in 1 .. k - 1 : stack'[j] = stack[j]
      BY <1>1, <2>4, EmptySeq DEF Moves, Calls
    <3>2. Ahead(stack'[k]) < Ahead(stack[k])
      BY <2>4 DEF Moves, Calls, Moved, Top
    <3>3. \A j \in 1 .. k - 1 : j \in 1 .. Levels /\ j <= Len(stack) /\ j <= Len(stack')
      BY <1>1, <3>1
    <3>4. \A j \in 1 .. k - 1 : Measure'[j] = Measure[j]
      BY <1>2, <1>3, <3>1, <3>3
    <3>5. Measure'[k] = Ahead(stack'[k]) /\ Measure[k] = Ahead(stack[k])
      BY <1>1, <1>2, <1>3, <3>1
    <3> HIDE DEF k
    <3> QED
      BY <2>2, <3>1, <3>2, <3>4, <3>5
  <2> QED
    BY <1>7, <2>3, <2>4 DEF InCalls
<1> QED
  BY <1>6, <1>7 DEF Forward

\* Descent: every step makes what is left smaller.
Descends == Smaller(Measure', Measure)

(* config_file.c:691, "no infinite loops for us! I hope": the calls of the *)
(* parsing functions stay within one chain of configuration files, a       *)
(* folder and one chain of rule files, however the files name each other.  *)
THEOREM NestingIsBounded == Spec => [](Len(stack) <= 2 * MaxDepth + 1)
<1>1. IInv /\ AllPlaced => Len(stack) <= 2 * MaxDepth + 1
  BY MeasureIsNatural DEF Numbers, Levels
<1> QED
  BY <1>1, Invariant, Placement, PTL

(* The same comment: with every line, call and return, what is left to be  *)
(* read gets smaller, in the lexicographic order of the levels, and it is  *)
(* never negative.                                                         *)
THEOREM ReadingDescends == Spec => [](Measure \in [0 .. Levels -> Nat]) /\ [][Descends]_vars
<1>1. Spec => []Numbers
  BY MeasureIsNatural, Invariant, Placement, PTL
<1>2. Numbers => Measure \in [0 .. Levels -> Nat]
  BY DEF Numbers
<1>3. ASSUME IInv, IInv', AllPlaced, Numbers, Numbers', [Next]_vars
      PROVE  [Descends]_vars
  BY <1>3, StepIsForward, StepDescends DEF Descends
<1> QED
  BY <1>1, <1>2, <1>3, Invariant, Placement, PTL DEF Spec

(* There is no endless descent in that order: among any measures there is  *)
(* a least one.  So a program that keeps reading comes to an end.          *)
LEMMA DescentEnds ==
    ASSUME NEW S \in SUBSET [0 .. Levels -> Nat], S # {}
    PROVE  \E m \in S : \A f \in S : ~Smaller(f, m)
<1> DEFINE Least(n) == \E m \in S : \A f \in S : \A k \in 0 .. n - 1 :
                           (\A j \in 0 .. k - 1 : f[j] = m[j]) => m[k] <= f[k]
           Worse == {n \in 0 .. Levels + 1 : ~Least(n)}
<1>1. Levels \in Nat
  BY ConfigAssumption DEF Levels
<1>2. Least(0)
  OBVIOUS
<1>3. ASSUME NEW n \in 0 .. Levels, Least(n)
      PROVE  Least(n + 1)
  <2>1. PICK m \in S : \A f \in S : \A k \in 0 .. n - 1 : (\A j \in 0 .. k - 1 : f[j] = m[j]) => m[k] <= f[k]
    BY <1>3
  <2> DEFINE Ties == {f \in S : \A j \in 0 .. n - 1 : f[j] = m[j]}
             Values == {f[n] : f \in Ties}
  <2>2. m \in Ties /\ Values \in SUBSET Nat /\ Values # {}
    BY <1>1
  <2>3. PICK v \in Values : \A w \in Values : v <= w
    BY <2>2, Minimum
  <2>4. PICK b \in Ties : b[n] = v
    OBVIOUS
  <2>5. ASSUME NEW f \in S, NEW k \in 0 .. n, \A j \in 0 .. k - 1 : f[j] = b[j]
        PROVE  b[k] <= f[k]
    <3>1. \A j \in 0 .. n - 1 : b[j] = m[j]
      OBVIOUS
    <3>2. CASE k = n
      <4>1. f \in Ties
        BY <2>5, <3>1, <3>2
      <4> QED
        BY <2>3, <2>4, <3>2, <4>1
    <3>3. CASE k # n
      <4>1. k \in 0 .. n - 1 /\ \A j \in 0 .. k - 1 : j \in 0 .. n - 1
        BY <1>1, <3>3
      <4>2. \A j \in 0 .. k - 1 : f[j] = m[j]
        BY <2>5, <3>1, <4>1
      <4> QED
        BY <2>1, <3>1, <4>1, <4>2
    <3> QED
      BY <3>2, <3>3
  <2>6. \A k \in 0 .. (n + 1) - 1 : k \in 0 .. n
    BY <1>1
  <2> QED
    BY <2>5, <2>6
<1>4. Least(Levels + 1)
  <2> HIDE DEF Least
  <2>1. CASE Worse = {}
    BY <1>1, <2>1
  <2>2. CASE Worse # {}
    <3>0. Worse \in SUBSET Nat
      BY <1>1
    <3>1. PICK n \in Worse : \A k \in Worse : n <= k
      <4> HIDE DEF Worse
      <4> QED
        BY <2>2, <3>0, Minimum
    <3>2. n # 0 /\ n - 1 \in 0 .. Levels /\ n - 1 \notin Worse
      BY <1>1, <1>2, <3>1
    <3>3. Least(n - 1)
      BY <1>1, <3>2
    <3>4. (n - 1) + 1 = n
      BY <1>1
    <3>5. Least(n)
      BY <1>3, <3>2, <3>3, <3>4
    <3> QED
      BY <3>1, <3>5
  <2> QED
    BY <2>1, <2>2
<1>5. PICK m \in S : \A f \in S : \A k \in 0 .. Levels : (\A j \in 0 .. k - 1 : f[j] = m[j]) => m[k] <= f[k]
  BY <1>1, <1>4
<1>6. \A f \in S : \A k \in 0 .. Levels : f[k] \in Nat
  OBVIOUS
<1>7. ASSUME NEW f \in S, NEW k \in 0 .. Levels, f[k] < m[k], \A j \in 0 .. k - 1 : f[j] = m[j]
      PROVE  FALSE
  <2>1. m[k] <= f[k]
    BY <1>5, <1>7
  <2> QED
    BY <1>6, <1>7, <2>1
<1> QED
  BY <1>7 DEF Smaller

-----------------------------------------------------------------------------
\* What is configured stays.

LEMMA RulesOfChanged ==
    ASSUME NEW objs \in Seq(Object), NEW i \in DOMAIN objs, NEW o \in Object,
           NEW j \in DOMAIN objs
    PROVE  [objs EXCEPT ![i] = o][j] = IF j = i THEN o ELSE objs[j]
OBVIOUS

LEMMA RulesOfCreated ==
    ASSUME Known(objects), NEW kind \in Kinds, NEW name \in Name, NEW j \in DOMAIN objects
    PROVE  FindOrCreate(kind, name)[j] = objects[j]
<1>1. FromTemplate(kind, name) \in Object /\ objects \in Seq(Object)
  BY NewObject DEF Known
<1>2. j \in 1 .. Len(objects)
  BY <1>1, LenProperties
<1>3. Append(objects, FromTemplate(kind, name))[j] = objects[j]
  BY <1>1, <1>2, AppendProperties
<1> QED
  BY <1>3 DEF FindOrCreate

\* Objects, settings, services and rules are only added, the rules at the end.
AddsTo(o, more) ==
    /\ more.kind = o.kind /\ more.name = o.name
    /\ \A k \in DOMAIN o.rules : k \in DOMAIN more.rules /\ more.rules[k] = o.rules[k]
    /\ \A f \in Fields : o.set[f] # None => more.set[f] # None
    /\ \A k \in DOMAIN o.services : \E j \in DOMAIN more.services : more.services[j] = o.services[k]
Adds(objs, more) == \A i \in DOMAIN objs : i \in DOMAIN more /\ AddsTo(objs[i], more[i])
OnlyAdds == Adds(objects, objects')

LEMMA AddsFurther ==
    ASSUME NEW objs, NEW more, NEW most, Adds(objs, more), Adds(more, most)
    PROVE  Adds(objs, most)
<1> SUFFICES ASSUME NEW i \in DOMAIN objs PROVE i \in DOMAIN most /\ AddsTo(objs[i], most[i])
  BY DEF Adds
<1>1. i \in DOMAIN most /\ AddsTo(objs[i], more[i]) /\ AddsTo(more[i], most[i])
  BY DEF Adds
<1>2. \A k \in DOMAIN objs[i].services : \E j \in DOMAIN most[i].services : most[i].services[j] = objs[i].services[k]
  BY <1>1 DEF AddsTo
<1> QED
  BY <1>1, <1>2 DEF AddsTo

LEMMA CreationAdds ==
    ASSUME Known(objects), NEW kind \in Kinds, NEW name \in Name
    PROVE  Adds(objects, FindOrCreate(kind, name))
<1>1. Known(FindOrCreate(kind, name)) /\ Keeps(objects, FindOrCreate(kind, name))
  BY Created
<1>2. DOMAIN objects \subseteq DOMAIN FindOrCreate(kind, name)
  BY <1>1, LenProperties DEF Known, Keeps
<1> QED
  BY <1>2, RulesOfCreated DEF Adds, AddsTo

LEMMA ChangeAdds ==
    ASSUME NEW objs \in Seq(Object), NEW i \in DOMAIN objs, NEW o \in Object, AddsTo(objs[i], o)
    PROVE  Adds(objs, [objs EXCEPT ![i] = o])
<1>1. DOMAIN [objs EXCEPT ![i] = o] = DOMAIN objs
  OBVIOUS
<1> QED
  BY <1>1, RulesOfChanged DEF Adds, AddsTo

LEMMA SettingAdds ==
    ASSUME IInv, NEW i \in DOMAIN objects, NEW field \in Fields, NEW value \in Name
    PROVE  Adds(objects, WithSetting(i, field, value))
<1> DEFINE objs == IF field = "file" THEN FindOrCreate("log", value) ELSE objects
           o == [objs[i] EXCEPT !.set = [objs[i].set EXCEPT ![field] = value]]
<1>1. Known(objs) /\ Adds(objects, objs)
  <2>1. "log" \in Kinds
    BY DEF Kinds
  <2>2. CASE field = "file"
    BY <2>1, <2>2, Created, CreationAdds DEF IInv
  <2>3. CASE field # "file"
    BY <2>3 DEF IInv, Adds, AddsTo
  <2> QED
    BY <2>2, <2>3
<1>2. WithSetting(i, field, value) = [objs EXCEPT ![i] = o]
  BY DEF WithSetting
<1> HIDE DEF objs
<1>3. i \in DOMAIN objs /\ objs \in Seq(Object) /\ objs[i] \in Object
  BY <1>1, LenProperties DEF Adds, Known
<1>4. [objs[i].set EXCEPT ![field] = value] \in [Fields -> Name \cup {None}]
  BY <1>3, FieldsOfObject
<1>5. /\ o \in Object /\ o.kind = objs[i].kind /\ o.name = objs[i].name /\ o.rules = objs[i].rules
      /\ o.services = objs[i].services
      /\ \A f \in Fields : o.set[f] = IF f = field THEN value ELSE objs[i].set[f]
  BY <1>3, <1>4, FieldsOfObject DEF Object
<1> HIDE DEF o
<1>6. AddsTo(objs[i], o)
  BY <1>5, ConfigAssumption DEF AddsTo
<1>7. Adds(objs, [objs EXCEPT ![i] = o])
  BY <1>3, <1>5, <1>6, ChangeAdds
<1> QED
  BY <1>1, <1>2, <1>7, AddsFurther

LEMMA InFrontOf ==
    ASSUME NEW S, NEW h, NEW s \in Seq(S), <<h>> \in Seq(S)
    PROVE  /\ <<h>> \o s \in Seq(S) /\ \E j \in DOMAIN (<<h>> \o s) : (<<h>> \o s)[j] = h
           /\ \A k \in DOMAIN s : \E j \in DOMAIN (<<h>> \o s) : (<<h>> \o s)[j] = s[k]
<1> DEFINE t == <<h>> \o s
<1>1. /\ t \in Seq(S) /\ Len(t) = 1 + Len(s)
      /\ \A k \in 1 .. 1 + Len(s) : t[k] = IF k <= 1 THEN h ELSE s[k - 1]
  BY ConcatProperties
<1>2. DOMAIN t = 1 .. 1 + Len(s) /\ Len(s) \in Nat /\ DOMAIN s = 1 .. Len(s)
  BY <1>1, LenProperties
<1> HIDE DEF t
<1>3. 1 \in DOMAIN t /\ t[1] = h
  BY <1>1, <1>2
<1>4. \A k \in DOMAIN s : k + 1 \in DOMAIN t /\ t[k + 1] = s[k]
  BY <1>1, <1>2
<1>5. t \in Seq(S) /\ (\E j \in DOMAIN t : t[j] = h) /\ \A k \in DOMAIN s : \E j \in DOMAIN t : t[j] = s[k]
  BY <1>1, <1>3, <1>4
<1> QED
  BY <1>5 DEF t

LEMMA StepAdds == IInv /\ [Next]_vars => Adds(objects, objects')
<1> SUFFICES ASSUME IInv, [Next]_vars PROVE Adds(objects, objects') OBVIOUS
<1>0. objects \in Seq(Object)
  BY DEF IInv, Known
<1>1. CASE UNCHANGED objects
  BY <1>1 DEF Adds, AddsTo
<1>2. CASE Section
  <2>1. CASE Line.name = "default"
    BY <1>2, <2>1 DEF Section, Adds, AddsTo
  <2>2. CASE Line.name # "default"
    <3>1. HasLine /\ Line.op = "section" /\ objects' = FindOrCreate(Line.kind, Line.name)
      BY <1>2, <2>2 DEF Section, InConfig
    <3>2. Line.kind \in Kinds /\ Line.name \in Name
      BY <3>1, LineIsRead, Carried
    <3> QED
      BY <3>1, <3>2, CreationAdds DEF IInv
  <2> QED
    BY <2>1, <2>2
<1>3. CASE Set
  <2>1. HasLine /\ Line.op = "set" /\ objects' = WithSetting(Top.section, Line.field, Line.value)
        /\ Line.value # None
    BY <1>3 DEF Set, InConfig, CanSet
  <2>2. Line.field \in Fields /\ Line.value \in Name
    BY <2>1, LineIsRead, Carried
  <2>3. Top.section \in DOMAIN objects
    BY <1>3, <2>1, OpenSection DEF Set, CanSet
  <2> QED
    BY <2>1, <2>2, <2>3, SettingAdds
<1>4. CASE \E op, field : field \in {"level", "file"} /\ SetMain(op, field)
  <2>1. PICK op, field : field \in {"level", "file"} /\ SetMain(op, field)
    BY <1>4
  <2>2. objects' = WithSetting(1, field, options[optind].name) /\ options[optind].name \in Name
    BY <2>1, OptionName DEF SetMain, NextOption, Template
  <2>3. 1 \in DOMAIN objects /\ field \in Fields
    BY <2>1, LenProperties DEF IInv, Known, Fields
  <2> QED
    BY <2>2, <2>3, SettingAdds
<1>5. CASE Service
  <2> DEFINE i == Top.section
             more == <<Line.host>> \o objects[i].services
             o == [objects[i] EXCEPT !.services = more]
  <2>1. HasLine /\ Line.op = "service" /\ SectionKind = "proxy" /\ objects' = [objects EXCEPT ![i] = o]
    BY <1>5 DEF Service, InConfig
  <2>2. i \in DOMAIN objects
    BY <2>1, ProxySection
  <2> HIDE DEF i
  <2>3. objects[i] \in Object
    BY <2>2, <1>0, LenProperties
  <2>4. <<Line.host>> \in Seq({"127.0.0.1", "elsewhere"})
    BY <2>1, LineIsRead, Carried
  <2>5. /\ more \in Seq({"127.0.0.1", "elsewhere"}) /\ \E j \in DOMAIN more : more[j] = Line.host
        /\ \A k \in DOMAIN objects[i].services : \E j \in DOMAIN more : more[j] = objects[i].services[k]
    <3>1. objects[i].services \in Seq({"127.0.0.1", "elsewhere"})
      BY <2>3, FieldsOfObject
    <3> DEFINE S == {"127.0.0.1", "elsewhere"}
               h == Line.host
               s == objects[i].services
    <3>2. <<h>> \in Seq(S) /\ s \in Seq(S)
      BY <2>4, <3>1
    <3> HIDE DEF S, h, s
    <3>3. /\ <<h>> \o s \in Seq(S) /\ \E j \in DOMAIN (<<h>> \o s) : (<<h>> \o s)[j] = h
          /\ \A k \in DOMAIN s : \E j \in DOMAIN (<<h>> \o s) : (<<h>> \o s)[j] = s[k]
      BY <3>2, InFrontOf
    <3> QED
      BY <3>3 DEF S, h, s
  <2> HIDE DEF more
  <2>6. /\ o \in Object /\ o.kind = objects[i].kind /\ o.name = objects[i].name
        /\ o.rules = objects[i].rules /\ o.set = objects[i].set /\ o.services = more
    BY <2>3, <2>5 DEF Object
  <2> HIDE DEF o
  <2>7. AddsTo(objects[i], o)
    BY <2>5, <2>6 DEF AddsTo
  <2> QED
    BY <1>0, <2>1, <2>2, <2>6, <2>7, ChangeAdds
<1>6. CASE Route
  <2>1. PICK i \in DOMAIN objects, r \in [file : Name, line : Nat, via : Seq(Nat)], o \in Object :
            /\ o.kind = objects[i].kind /\ o.name = objects[i].name /\ o.set = objects[i].set
            /\ o.services = objects[i].services
            /\ o.rules = Append(objects[i].rules, r) /\ objects' = [objects EXCEPT ![i] = o]
    BY <1>6, RouteAdds
  <2>2. objects[i] \in Object
    BY <1>0, LenProperties
  <2>3. objects[i].rules \in Seq([file : Name, line : Nat, via : Seq(Nat)])
    BY <2>2, FieldsOfObject
  <2>4. /\ o.rules \in Seq([file : Name, line : Nat, via : Seq(Nat)])
        /\ Len(o.rules) = Len(objects[i].rules) + 1
        /\ \A k \in 1 .. Len(objects[i].rules) : o.rules[k] = objects[i].rules[k]
    BY <2>1, <2>3, AppendProperties
  <2>5. /\ DOMAIN o.rules = 1 .. Len(objects[i].rules) + 1 /\ Len(objects[i].rules) \in Nat
        /\ DOMAIN objects[i].rules = 1 .. Len(objects[i].rules)
    BY <2>3, <2>4, LenProperties
  <2>6. \A k \in DOMAIN objects[i].rules : k \in DOMAIN o.rules /\ o.rules[k] = objects[i].rules[k]
    <3>1. \A k \in 1 .. Len(objects[i].rules) : k \in 1 .. Len(objects[i].rules) + 1
      BY <2>5
    <3> QED
      BY <2>4, <2>5, <3>1
  <2>7. AddsTo(objects[i], o)
    BY <2>1, <2>6 DEF AddsTo
  <2> QED
    BY <1>0, <2>1, <2>7, ChangeAdds
<1> QED
  BY <1>1, <1>2, <1>3, <1>4, <1>5, <1>6 DEF Next, vars, ParseFails, EndOfFile, Comment, Include, RouteFile,
     RouteDir, NextInFolder, NotUnderstood, LoadConfig, Serve, StartFails

(* route_rule.c:50-58, insert_route_rule: a rule that has been read stays  *)
(* where it is in its proxy's list, whatever is read after it, in whatever *)
(* file, with or without errors: rules are tried in the order of reading.  *)
(* Objects, settings and services that have been made are not undone.      *)
THEOREM RulesStayInPlace == Spec => [][OnlyAdds]_vars
<1>1. IInv /\ [Next]_vars => [OnlyAdds]_vars
  BY StepAdds DEF OnlyAdds
<1> QED
  BY <1>1, Invariant, PTL DEF Spec

-----------------------------------------------------------------------------
\* What is configured has been written.

LEMMA TextOfFile ==
    ASSUME IInv, NEW f \in DOMAIN disk
    PROVE  /\ disk[f] \in Seq(Statement \cup Break) /\ Len(disk[f]) \in Nat
           /\ DOMAIN disk[f] = 1 .. Len(disk[f]) /\ Starts(f) \subseteq Nat \ {0}
           /\ \A p \in Starts(f) : disk[f][p] \in Statement
<1>1. disk[f] \in Seq(Statement \cup Break)
  BY ConfigAssumption DEF IInv, Tables
<1>2. Len(disk[f]) \in Nat /\ DOMAIN disk[f] = 1 .. Len(disk[f])
  BY <1>1, LenProperties
<1>3. \A p \in DOMAIN disk[f] : disk[f][p] \in Statement \cup Break
  BY <1>1, <1>2, ElementOfSeq
<1> QED
  BY <1>1, <1>2, <1>3 DEF Starts

LEMMA AreReached ==
    ASSUME NEW op, NEW from
    PROVE  /\ from \cap DOMAIN disk \subseteq Reached(op, from)
           /\ ClosedUnder(op, Reached(op, from))
BY DEF Reached, ClosedUnder

\* No line begins between two positions that is not read.

LEMMA LineStart ==
    ASSUME IInv, HasLine, AtLineStart(Top)
    PROVE  /\ Top.name \in DOMAIN disk /\ Top.pos \in Nat \ {0} /\ Begin \in Nat /\ End \in Nat
           /\ Top.pos <= Begin /\ Begin <= End /\ After.pos = End + 1 /\ AtLineStart(After)
           /\ Line.op # "comment" => Begin \in Starts(Top.name) /\ disk[Top.name][Begin] = Line
           /\ \A q \in Starts(Top.name) :
                  q <= End => q < Top.pos \/ (q = Begin /\ disk[Top.name][q] = Line)
<1>1. /\ stack # <<>> /\ Top \in Activation /\ Begin \in Nat \ {0} /\ Top.pos <= Begin
      /\ End \in Nat /\ Begin <= End /\ End <= Len(Text) /\ Text[End] \in Break
      /\ \A q \in Ends : End <= q
  BY LineSpan
<1>2. Top.name \in DOMAIN disk /\ Text = disk[Top.name] /\ Top.pos \in Nat \ {0}
  BY <1>1, Running DEF HasLine, Reading, FrameFits, Top, Text, Activation
<1>3. /\ Len(Text) \in Nat /\ DOMAIN Text = 1 .. Len(Text) /\ Starts(Top.name) \subseteq Nat \ {0}
  BY <1>2, TextOfFile
<1>4. After.pos = End + 1 /\ After.name = Top.name
  BY <1>1 DEF After, Activation
<1>5. AtLineStart(After)
  BY <1>1, <1>2, <1>4 DEF AtLineStart
<1>6. Begin = 1 \/ Text[Begin - 1] \in Break
  <2>1. CASE OtherHalf
    BY <1>2, <2>1 DEF OtherHalf, Begin
  <2>2. CASE ~OtherHalf
    BY <1>2, <2>2 DEF Begin, AtLineStart
  <2> QED
    BY <2>1, <2>2
<1>7. End # Begin => Line = Text[Begin] /\ Text[Begin] \notin Break /\ Begin \in DOMAIN Text
  BY <1>1, <1>3 DEF Line, Ends
<1>8. Line.op # "comment" => End # Begin
  BY DEF Line
<1>9. ASSUME NEW q \in Starts(Top.name), q <= End, q >= Top.pos
      PROVE  q = Begin /\ End # Begin
  <2>1. q \in DOMAIN Text /\ Text[q] \notin Break /\ (q = 1 \/ Text[q - 1] \in Break) /\ q \in Nat
    BY <1>2, <1>3 DEF Starts
  <2>2. q # End
    BY <1>1, <2>1
  <2>3. q >= Begin
    <3>1. OtherHalf => Text[Top.pos] \in Break
      BY DEF OtherHalf
    <3>2. OtherHalf => q # Top.pos
      BY <2>1, <3>1
    <3> QED
      BY <1>2, <1>9, <2>1, <3>2 DEF Begin
  <2>4. CASE q > Begin
    <3>1. q - 1 \in Begin .. Len(Text) /\ Text[q - 1] \in Break
      BY <1>1, <1>3, <1>9, <2>1, <2>4
    <3>2. End <= q - 1
      BY <1>1, <3>1 DEF Ends
    <3> QED
      BY <1>1, <1>9, <2>1, <3>2
  <2> QED
    BY <1>1, <2>1, <2>2, <2>3, <2>4
<1>10. \A q \in Starts(Top.name) : q <= End => q < Top.pos \/ (q = Begin /\ End # Begin)
  BY <1>2, <1>3, <1>9
<1> QED
  BY <1>1, <1>2, <1>4, <1>5, <1>6, <1>7, <1>8, <1>10 DEF Starts

LEMMA SectionGoesOn ==
    ASSUME IInv, NEW f \in DOMAIN disk, NEW p \in Nat, NEW q \in Nat, p <= q,
           \A r \in Starts(f) : r < q => r < p \/ disk[f][r].op # "section"
    PROVE  /\ NoSectionBefore(f, p) => NoSectionBefore(f, q)
           /\ \A kind, name : InSection(f, p, kind, name) => InSection(f, q, kind, name)
<1>1. Starts(f) \subseteq Nat
  BY TextOfFile
<1> QED
  BY <1>1 DEF NoSectionBefore, InSection

\* What a line says is written in the open section.
LEMMA LineIsWritten ==
    ASSUME IInv, HasLine, FrameIsWritten(Top, objects), Line.op # "comment"
    PROVE  /\ Top.name \in DOMAIN disk /\ Begin \in Starts(Top.name) /\ disk[Top.name][Begin] = Line
           /\ Top.kind = "config" /\ Top.section # 0 =>
                  LET o == objects[Top.section] IN
                  InSection(Top.name, Begin, o.kind, o.name) /\ Line \in Stated(Line.op, o.kind, o.name)
<1>1. AtLineStart(Top)
  BY DEF FrameIsWritten, HasLine, Reading
<1>2. /\ Top.name \in DOMAIN disk /\ Top.pos \in Nat /\ Begin \in Nat /\ End \in Nat
      /\ Top.pos <= Begin /\ Begin <= End /\ Begin \in Starts(Top.name) /\ disk[Top.name][Begin] = Line
      /\ \A q \in Starts(Top.name) : q <= End => q < Top.pos \/ q = Begin
  BY <1>1, LineStart
<1>3. Starts(Top.name) \subseteq Nat
  BY <1>2, TextOfFile
<1>4. \A r \in Starts(Top.name) : r < Begin => r < Top.pos
  BY <1>2, <1>3
<1>5. \A kind, name : InSection(Top.name, Top.pos, kind, name) => InSection(Top.name, Begin, kind, name)
  BY <1>2, <1>4, SectionGoesOn
<1>6. ASSUME Top.kind = "config", Top.section # 0
      PROVE  LET o == objects[Top.section] IN
             InSection(Top.name, Begin, o.kind, o.name) /\ Line \in Stated(Line.op, o.kind, o.name)
  <2>1. /\ Top.name \in ConfigsRead
        /\ InSection(Top.name, Begin, objects[Top.section].kind, objects[Top.section].name)
    BY <1>5, <1>6 DEF FrameIsWritten
  <2>2. Line \in Statement
    BY LineIsRead
  <2> QED
    BY <1>2, <2>1, <2>2 DEF Stated
<1> QED
  BY <1>2, <1>6

\* The section stays open, unless the line opens another one.
LEMMA AfterIsWritten ==
    ASSUME IInv, HasLine, FrameIsWritten(Top, objects), Top.kind = "config" => Line.op # "section"
    PROVE  FrameIsWritten(After, objects)
<1>1. AtLineStart(Top) /\ Top.kind # "folder"
  BY DEF FrameIsWritten, HasLine, Reading
<1>2. /\ Top.name \in DOMAIN disk /\ Top.pos \in Nat /\ Begin \in Nat /\ End \in Nat
      /\ Top.pos <= Begin /\ Begin <= End /\ After.pos = End + 1 /\ AtLineStart(After)
      /\ \A q \in Starts(Top.name) : q <= End => q < Top.pos \/ (q = Begin /\ disk[Top.name][q] = Line)
  BY <1>1, LineStart
<1>3. After.kind = Top.kind /\ After.name = Top.name /\ After.section = Top.section
  BY LineIsRead
<1>4. CASE Top.kind = "config"
  <2>1. Starts(Top.name) \subseteq Nat
    BY <1>2, TextOfFile
  <2>2. \A r \in Starts(Top.name) : r < End + 1 => r < Top.pos \/ disk[Top.name][r].op # "section"
    BY <1>2, <1>4, <2>1
  <2>3. /\ NoSectionBefore(Top.name, Top.pos) => NoSectionBefore(Top.name, End + 1)
        /\ \A kind, name : InSection(Top.name, Top.pos, kind, name) => InSection(Top.name, End + 1, kind, name)
    BY <1>2, <2>2, SectionGoesOn
  <2> QED
    BY <1>2, <1>3, <1>4, <2>3 DEF FrameIsWritten
<1>5. CASE Top.kind # "config"
  BY <1>1, <1>2, <1>3, <1>5 DEF FrameIsWritten
<1> QED
  BY <1>4, <1>5

\* Objects keep their names, so that calls keep their sections.
LEMMA FrameStays ==
    ASSUME NEW objs, Known(objs), NEW more, Keeps(objs, more), NEW f \in Activation,
           f.section \in 0 .. Len(objs), f.kind # "config" => f.section # 0, FrameIsWritten(f, objs)
    PROVE  FrameIsWritten(f, more)
<1>1. DOMAIN objs = 1 .. Len(objs) /\ Len(objs) \in Nat
  BY LenProperties DEF Known
<1>2. f.section # 0 => more[f.section].kind = objs[f.section].kind /\ more[f.section].name = objs[f.section].name
  BY <1>1 DEF Keeps
<1> QED
  BY <1>2 DEF FrameIsWritten

LEMMA CallsStay ==
    ASSUME NEW objs, Known(objs), NEW more, Keeps(objs, more), NEW s, Sound(s, Len(objs)),
           CallsAreWritten(s, objs)
    PROVE  CallsAreWritten(s, more)
BY FrameStays, Depths DEF CallsAreWritten, Sound, FrameFits

LEMMA CallsPush ==
    ASSUME NEW objs, NEW s \in Seq(Activation), CallsAreWritten(s, objs), NEW f \in Activation,
           FrameIsWritten(f, objs)
    PROVE  CallsAreWritten(Append(s, f), objs)
<1> DEFINE t == Append(s, f)
<1>1. /\ t \in Seq(Activation) /\ Len(t) = Len(s) + 1
      /\ \A i \in 1 .. Len(s) : t[i] = s[i]
      /\ t[Len(s) + 1] = f
  BY AppendProperties
<1>2. DOMAIN t = 1 .. Len(s) + 1 /\ DOMAIN s = 1 .. Len(s) /\ Len(s) \in Nat
  BY <1>1, LenProperties
<1> HIDE DEF t
<1>3. \A i \in DOMAIN t : FrameIsWritten(t[i], objs)
  BY <1>1, <1>2 DEF CallsAreWritten
<1> QED
  BY <1>3 DEF CallsAreWritten, t

LEMMA CallsReplace ==
    ASSUME NEW objs, NEW s \in Seq(Activation), CallsAreWritten(s, objs), NEW f, FrameIsWritten(f, objs)
    PROVE  CallsAreWritten([s EXCEPT ![Len(s)] = f], objs)
BY DEF CallsAreWritten

LEMMA CallsShrink ==
    ASSUME NEW objs, NEW s \in Seq(Activation), s # <<>>, CallsAreWritten(s, objs)
    PROVE  CallsAreWritten(SubSeq(s, 1, Len(s) - 1), objs)
<1> DEFINE t == SubSeq(s, 1, Len(s) - 1)
<1>1. t \in Seq(Activation) /\ Len(t) = Len(s) - 1 /\ \A i \in 1 .. Len(s) - 1 : t[i] = s[i]
  BY WithoutLast
<1>2. DOMAIN t = 1 .. Len(s) - 1 /\ DOMAIN s = 1 .. Len(s) /\ Len(s) \in Nat
  BY <1>1, LenProperties
<1> HIDE DEF t
<1>3. \A i \in DOMAIN t : FrameIsWritten(t[i], objs)
  BY <1>1, <1>2 DEF CallsAreWritten
<1> QED
  BY <1>3 DEF CallsAreWritten, t

LEMMA FailIsWritten ==
    ASSUME NEW kind, NEW callers \in Seq(Activation), CallsAreWritten(callers, objects),
           NEW told, Fail(kind, callers, told)
    PROVE  CallsAreWritten(stack', objects)
<1>1. CASE Survives(kind, callers)
  BY <1>1, CallsShrink DEF Fail, Survives, Resumed
<1>2. CASE ~Survives(kind, callers)
  BY <1>2, EmptySeq DEF Fail, CallsAreWritten
<1> QED
  BY <1>1, <1>2

LEMMA CallIsWritten ==
    ASSUME NEW kind \in {"config", "rules"}, NEW name \in Name, NEW callers \in Seq(Activation),
           NEW depth \in Nat, NEW section \in Nat,
           CallsAreWritten(callers, objects), Call(kind, name, callers, depth, section),
           name \in DOMAIN disk => FrameIsWritten(Frame(kind, name, depth, section, <<>>), objects)
    PROVE  CallsAreWritten(stack', objects)
<1>1. CASE name \in DOMAIN disk
  <2>1. <<>> \in Seq(Name)
    BY EmptySeq
  <2>2. Frame(kind, name, depth, section, <<>>) \in Activation
    BY <2>1 DEF Frame, Activation
  <2> QED
    BY <1>1, <2>2, CallsPush DEF Call
<1>2. CASE name \notin DOMAIN disk
  BY <1>2, FailIsWritten DEF Call
<1> QED
  BY <1>1, <1>2

LEMMA TopIsWritten ==
    ASSUME IInv, stack # <<>>, CallsAreWritten(stack, objects)
    PROVE  /\ FrameIsWritten(Top, objects) /\ Top \in Activation /\ Top.section \in Nat
           /\ Callers \in Seq(Activation) /\ CallsAreWritten(Callers, objects)
<1>1. Len(stack) \in DOMAIN stack /\ Top \in Activation /\ stack \in Seq(Activation)
  BY Running DEF IInv, Sound
<1>2. Callers \in Seq(Activation)
  BY <1>1, WithoutLast DEF Callers
<1> QED
  BY <1>1, <1>2, CallsShrink DEF Callers, CallsAreWritten, Top, Activation

LEMMA AdvancedIsWritten ==
    ASSUME IInv, HasLine, CallsAreWritten(stack, objects), Top.kind = "config" => Line.op # "section"
    PROVE  /\ FrameIsWritten(Top, objects) /\ Top.section \in Nat
           /\ Advanced \in Seq(Activation) /\ CallsAreWritten(Advanced, objects)
<1>1. stack # <<>> /\ stack \in Seq(Activation)
  BY DEF HasLine, Reading, IInv, Sound
<1>2. FrameIsWritten(Top, objects) /\ Top.section \in Nat
  BY <1>1, TopIsWritten
<1>3. FrameIsWritten(After, objects)
  BY <1>2, AfterIsWritten
<1>4. Advanced \in Seq(Activation)
  BY GoesOn DEF Sound
<1> QED
  BY <1>1, <1>2, <1>3, <1>4, CallsReplace DEF Advanced

LEMMA IncludeIsWritten ==
    ASSUME IInv, CallsAreWritten(stack, objects), Include
    PROVE  CallsAreWritten(stack', objects)
<1> DEFINE section == IF Top.kind = "config" THEN NoSection ELSE Top.section
<1>1. HasLine /\ Line.op = (IF Top.kind = "config" THEN "include" ELSE "routeFile") /\ stack # <<>>
  BY DEF Include, HasLine, Reading
<1>2. /\ FrameIsWritten(Top, objects) /\ Top.section \in Nat
      /\ Advanced \in Seq(Activation) /\ CallsAreWritten(Advanced, objects)
  BY <1>1, AdvancedIsWritten
<1>3. CASE Blocked(Line.name)
  BY <1>2, <1>3 DEF Include
<1>4. CASE ~Blocked(Line.name)
  <2>1. Call(Top.kind, Line.name, Advanced, Top.depth + 1, section)
    BY <1>4 DEF Include
  <2>2. Top.kind \in {"config", "rules"} /\ Top.depth + 1 \in Nat /\ section \in Nat /\ Line.name \in Name
    BY <1>1, <1>2, Running, LineIsRead, Carried DEF Activation, HasLine, Reading, NoSection
  <2>3. Top.name \in DOMAIN disk /\ Begin \in Starts(Top.name) /\ disk[Top.name][Begin] = Line
    BY <1>1, <1>2, LineIsWritten
  <2>4. ASSUME Line.name \in DOMAIN disk
        PROVE  FrameIsWritten(Frame(Top.kind, Line.name, Top.depth + 1, section, <<>>), objects)
    <3>1. CASE Top.kind = "config"
      <4>1. Top.name \in ConfigsRead /\ Line.op = "include"
        BY <1>1, <1>2, <3>1 DEF FrameIsWritten
      <4>2. Line.name \in ConfigsRead
        BY <2>3, <2>4, <4>1, AreReached DEF ConfigsRead, ClosedUnder
      <4>3. NoSectionBefore(Line.name, 1)
        BY <2>4, TextOfFile DEF NoSectionBefore
      <4> QED
        BY <3>1, <4>2, <4>3 DEF FrameIsWritten, Frame, AtLineStart, NoSection
    <3>2. CASE Top.kind = "rules"
      <4>1. /\ Top.name \in RulesRead(objects[Top.section].name) /\ Line.op = "routeFile"
            /\ objects[Top.section].kind = "proxy"
        BY <1>1, <1>2, <3>2 DEF FrameIsWritten
      <4>2. Line.name \in RulesRead(objects[Top.section].name)
        BY <2>3, <2>4, <4>1, AreReached DEF RulesRead, ClosedUnder
      <4> QED
        BY <3>2, <4>1, <4>2 DEF FrameIsWritten, Frame, AtLineStart
    <3> QED
      BY <2>2, <3>1, <3>2
  <2> HIDE DEF section
  <2> QED
    BY <1>2, <2>1, <2>2, <2>4, CallIsWritten
<1> QED
  BY <1>3, <1>4

\* The object of a name, or the object "default" of a kind.
LEMMA PlaceOfSection ==
    ASSUME IInv, Known(objects'), Section, AllWritten(objects')
    PROVE  LET i == Place(objects', Line.kind, Line.name) IN
           /\ objects'[i].kind = Line.kind /\ objects'[i].name = Line.name /\ i # 0 /\ i \in DOMAIN objects'
           /\ Line.name = "default" => i = Template[Line.kind]
<1> DEFINE i == Place(objects', Line.kind, Line.name)
<1>1. HasLine /\ Line.op = "section"
  BY DEF Section, InConfig
<1>2. Line.kind \in Kinds /\ Line.name \in Name
  BY <1>1, LineIsRead, Carried
<1>3. Len(objects') \in Nat /\ Len(objects') >= 4 /\ DOMAIN objects' = 1 .. Len(objects')
  BY LenProperties DEF Known
<1>4. CASE Line.name = "default"
  <2>1. i = Template[Line.kind] /\ i \in 1 .. 4
    BY <1>2, <1>4 DEF Place, Template, Kinds
  <2>2. objects'[i].kind = Line.kind /\ objects'[i].name = Line.name
    BY <1>2, <1>4, <2>1 DEF AllWritten
  <2> HIDE DEF i
  <2> QED
    BY <1>3, <2>1, <2>2 DEF i
<1>5. CASE Line.name # "default"
  <2>1. Found(objects', Line.kind, Line.name) # {}
    BY <1>2, <1>5, Created DEF Section, IInv
  <2>2. i \in Found(objects', Line.kind, Line.name)
    BY <1>5, <2>1 DEF Place, Search
  <2> HIDE DEF i
  <2>3. objects'[i].kind = Line.kind /\ objects'[i].name = Line.name /\ i # 0 /\ i \in DOMAIN objects'
    BY <1>3, <2>2 DEF Found, Listed
  <2> QED
    BY <1>5, <2>3 DEF i
<1> QED
  BY <1>4, <1>5

LEMMA SectionFrameIsWritten ==
    ASSUME IInv, Known(objects'), Keeps(objects, objects'), Section, AllWritten(objects'),
           CallsAreWritten(stack, objects)
    PROVE  CallsAreWritten(stack', objects')
<1> DEFINE i == Place(objects', Line.kind, Line.name)
           f == [After EXCEPT !.section = i]
<1>1. /\ HasLine /\ Top.kind = "config" /\ Line.op = "section" /\ stack # <<>>
      /\ stack' = [stack EXCEPT ![Len(stack)] = f]
  BY DEF Section, InConfig, HasLine, Reading
<1>2. FrameIsWritten(Top, objects) /\ AtLineStart(Top) /\ Top.name \in ConfigsRead
  BY <1>1, TopIsWritten DEF FrameIsWritten
<1>3. Line.kind \in Kinds /\ Line.name \in Name
  BY <1>1, LineIsRead, Carried
<1>4. /\ objects'[i].kind = Line.kind /\ objects'[i].name = Line.name /\ i # 0
      /\ Line.name = "default" => i = Template[Line.kind]
  BY PlaceOfSection
<1> HIDE DEF i
<1>5. After \in Activation /\ After.kind = Top.kind /\ After.name = Top.name
  BY <1>1, LineIsRead
<1>6. f.kind = "config" /\ f.name = Top.name /\ f.section = i /\ f.pos = After.pos
  BY <1>1, <1>5 DEF Activation
<1> HIDE DEF f
<1>7. /\ Top.name \in DOMAIN disk /\ Top.pos \in Nat /\ Begin \in Nat /\ End \in Nat /\ Top.pos <= Begin
      /\ Begin <= End /\ After.pos = End + 1 /\ AtLineStart(After)
      /\ Begin \in Starts(Top.name) /\ disk[Top.name][Begin] = Line
      /\ \A q \in Starts(Top.name) : q <= End => q < Top.pos \/ q = Begin
  BY <1>1, <1>2, LineStart
<1>8. Starts(Top.name) \subseteq Nat
  BY <1>7, TextOfFile
<1>9. InSection(Top.name, End + 1, Line.kind, Line.name)
  <2>1. \A r \in Starts(Top.name) : ~ (Begin < r /\ r < End + 1)
    BY <1>7, <1>8
  <2> QED
    BY <1>1, <1>7, <2>1 DEF InSection
<1>10. FrameIsWritten(f, objects')
  BY <1>2, <1>4, <1>5, <1>6, <1>7, <1>9 DEF FrameIsWritten, AtLineStart
<1>11. CallsAreWritten(stack, objects') /\ stack \in Seq(Activation)
  BY CallsStay DEF IInv, Sound
<1> QED
  BY <1>1, <1>10, <1>11, CallsReplace

\* A line that names rules to be read, in a section of a proxy.
LEMMA RulesAreNamed ==
    ASSUME IInv, CallsAreWritten(stack, objects), NEW op \in {"routeFile", "routeDir"}, InConfig(op),
           SectionKind = "proxy"
    PROVE  /\ objects[Top.section].kind = "proxy"
           /\ Line \in Stated(op, "proxy", objects[Top.section].name)
           /\ Line.name \in Name /\ Top.section \in Nat
           /\ Advanced \in Seq(Activation) /\ CallsAreWritten(Advanced, objects)
<1>1. HasLine /\ Top.kind = "config" /\ Line.op = op
  BY DEF InConfig
<1>2. /\ FrameIsWritten(Top, objects) /\ Top.section \in Nat
      /\ Advanced \in Seq(Activation) /\ CallsAreWritten(Advanced, objects)
  BY <1>1, AdvancedIsWritten
<1>3. Top.section # 0 /\ objects[Top.section].kind = "proxy"
  BY ConfigAssumption DEF SectionKind, Kinds
<1>4. Line.name \in Name
  BY <1>1, LineIsRead, Carried
<1> QED
  BY <1>1, <1>2, <1>3, <1>4, LineIsWritten

LEMMA NamedAreRead ==
    ASSUME NEW proxy, NEW name \in DOMAIN disk, name \in RuleFilesNamed(proxy)
    PROVE  name \in RulesRead(proxy)
BY AreReached DEF RulesRead

LEMMA RouteFileIsWritten ==
    ASSUME IInv, CallsAreWritten(stack, objects), RouteFile
    PROVE  CallsAreWritten(stack', objects)
<1> DEFINE proxy == objects[Top.section].name
<1>1. /\ InConfig("routeFile") /\ SectionKind = "proxy"
      /\ Call("rules", Line.name, Advanced, 1, Top.section)
  BY DEF RouteFile
<1>2. /\ objects[Top.section].kind = "proxy" /\ Line \in Stated("routeFile", "proxy", proxy)
      /\ Line.name \in Name /\ Top.section \in Nat
      /\ Advanced \in Seq(Activation) /\ CallsAreWritten(Advanced, objects)
  BY <1>1, RulesAreNamed
<1>3. ASSUME Line.name \in DOMAIN disk
      PROVE  FrameIsWritten(Frame("rules", Line.name, 1, Top.section, <<>>), objects)
  <2>1. Line.name \in RulesRead(proxy)
    BY <1>2, <1>3, NamedAreRead DEF RuleFilesNamed
  <2> QED
    BY <1>2, <2>1 DEF FrameIsWritten, Frame, AtLineStart
<1> QED
  BY <1>1, <1>2, <1>3, CallIsWritten

LEMMA RouteDirIsWritten ==
    ASSUME IInv, CallsAreWritten(stack, objects), RouteDir
    PROVE  CallsAreWritten(stack', objects)
<1> DEFINE proxy == objects[Top.section].name
           f == Frame("folder", Line.name, 0, Top.section, AsListed(Line.name))
<1>1. /\ InConfig("routeDir") /\ SectionKind = "proxy" /\ Line.name \in DOMAIN Folders
      /\ stack' = Append(Advanced, f)
  BY DEF RouteDir
<1>2. /\ objects[Top.section].kind = "proxy" /\ Line \in Stated("routeDir", "proxy", proxy)
      /\ Line.name \in Name /\ Top.section \in Nat
      /\ Advanced \in Seq(Activation) /\ CallsAreWritten(Advanced, objects)
  BY <1>1, RulesAreNamed
<1>3. \A k \in DOMAIN AsListed(Line.name) : AsListed(Line.name)[k] \in RuleFilesNamed(proxy)
  BY <1>1, <1>2, ConfigAssumption DEF RuleFilesNamed
<1>4. FrameIsWritten(f, objects)
  BY <1>2, <1>3 DEF FrameIsWritten, Frame
<1>5. f \in Activation
  BY <1>1, <1>2, ConfigAssumption DEF Frame, Activation
<1> QED
  BY <1>1, <1>2, <1>4, <1>5, CallsPush

LEMMA NextInFolderIsWritten ==
    ASSUME IInv, CallsAreWritten(stack, objects), NextInFolder
    PROVE  CallsAreWritten(stack', objects)
<1>1. stack # <<>> /\ Top.kind = "folder" /\ stack \in Seq(Activation)
  BY DEF NextInFolder, IInv, Sound
<1>2. /\ FrameIsWritten(Top, objects) /\ Top \in Activation /\ Top.section \in Nat
      /\ CallsAreWritten(Callers, objects)
  BY <1>1, TopIsWritten
<1>3. CASE Top.todo = <<>>
  BY <1>2, <1>3 DEF NextInFolder
<1>4. CASE Top.todo # <<>>
  <2> DEFINE f == [Top EXCEPT !.todo = Tail(@)]
             callers == [stack EXCEPT ![Len(stack)] = f]
             proxy == objects[Top.section].name
  <2>1. Call("rules", Head(Top.todo), callers, 1, Top.section)
    BY <1>4 DEF NextInFolder, Top
  <2>2. Top.todo \in Seq(Name)
    BY <1>2 DEF Activation
  <2>3. /\ Head(Top.todo) \in Name /\ Tail(Top.todo) \in Seq(Name) /\ Head(Top.todo) = Top.todo[1]
        /\ Len(Tail(Top.todo)) = Len(Top.todo) - 1 /\ Len(Top.todo) \in Nat \ {0}
        /\ \A k \in 1 .. Len(Tail(Top.todo)) : Tail(Top.todo)[k] = Top.todo[k + 1]
    BY <1>4, <2>2, HeadTailProperties, EmptySeq, LenProperties
  <2>4. /\ \A k \in 1 .. Len(Top.todo) : Top.todo[k] \in RuleFilesNamed(proxy)
        /\ objects[Top.section].kind = "proxy"
    BY <1>1, <1>2, <2>2, LenProperties DEF FrameIsWritten
  <2>5. \A k \in DOMAIN Tail(Top.todo) : Tail(Top.todo)[k] \in RuleFilesNamed(proxy)
    <3>1. DOMAIN Tail(Top.todo) = 1 .. Len(Tail(Top.todo))
      BY <2>3, LenProperties
    <3>2. \A k \in 1 .. Len(Tail(Top.todo)) : k + 1 \in 1 .. Len(Top.todo)
      BY <2>3
    <3> QED
      BY <2>3, <2>4, <3>1, <3>2
  <2>6. /\ f \in Activation /\ f.kind = "folder" /\ f.section = Top.section /\ f.todo = Tail(Top.todo)
    BY <1>1, <1>2, <2>3 DEF Activation
  <2> HIDE DEF f
  <2>7. FrameIsWritten(f, objects)
    BY <2>4, <2>5, <2>6 DEF FrameIsWritten
  <2>8. callers \in Seq(Activation) /\ CallsAreWritten(callers, objects)
    <3>1. Len(stack) \in 1 .. Len(stack)
      BY <1>1, EmptySeq, LenProperties
    <3> QED
      BY <1>1, <2>6, <2>7, <3>1, CallsReplace, ExceptSeq
  <2>9. ASSUME Head(Top.todo) \in DOMAIN disk
        PROVE  FrameIsWritten(Frame("rules", Head(Top.todo), 1, Top.section, <<>>), objects)
    <3>1. Head(Top.todo) \in RulesRead(proxy)
      BY <2>3, <2>4, <2>9, NamedAreRead
    <3> QED
      BY <2>4, <3>1 DEF FrameIsWritten, Frame, AtLineStart
  <2> HIDE DEF callers
  <2> QED
    BY <1>2, <2>1, <2>3, <2>8, <2>9, CallIsWritten
<1> QED
  BY <1>3, <1>4

LEMMA LoadConfigIsWritten ==
    ASSUME IInv, LoadConfig
    PROVE  CallsAreWritten(stack', objects)
<1> DEFINE name == options[optind].name
<1>1. /\ Call("config", name, <<>>, 1, NoSection) /\ name \in Name /\ optind \in DOMAIN options
      /\ options[optind].op = "c"
  BY OptionName, ConfigAssumption, LenProperties DEF LoadConfig, NextOption, IInv, Tables
<1>2. <<>> \in Seq(Activation) /\ CallsAreWritten(<<>>, objects)
  BY EmptySeq DEF CallsAreWritten
<1>3. ASSUME name \in DOMAIN disk
      PROVE  FrameIsWritten(Frame("config", name, 1, NoSection, <<>>), objects)
  <2>1. name \in ConfigsRead
    BY <1>1, <1>3, AreReached DEF ConfigsRead, Given
  <2>2. NoSectionBefore(name, 1)
    BY <1>3, TextOfFile DEF NoSectionBefore
  <2> QED
    BY <2>1, <2>2 DEF FrameIsWritten, Frame, AtLineStart, NoSection
<1> HIDE DEF name
<1> QED
  BY <1>1, <1>2, <1>3, CallIsWritten DEF NoSection

\* Objects keep their names, so that rules keep their tunnels.
LEMMA ObjectStaysWritten ==
    ASSUME NEW objs \in Seq(Object), NEW more, Keeps(objs, more),
           NEW o, Leads(o, objs), ObjectIsWritten(o, objs)
    PROVE  ObjectIsWritten(o, more)
<1>1. \A k \in DOMAIN o.rules : RuleIsWritten(o.rules[k], o.name, more)
  <2> SUFFICES ASSUME NEW k \in DOMAIN o.rules PROVE RuleIsWritten(o.rules[k], o.name, more)
    OBVIOUS
  <2> DEFINE r == o.rules[k]
  <2>1. \A t \in DOMAIN r.via : more[r.via[t]].name = objs[r.via[t]].name
    BY LenProperties DEF Leads, LeadTo, Listed, Keeps
  <2>2. RuleIsWritten(r, o.name, objs)
    BY DEF ObjectIsWritten
  <2> HIDE DEF r
  <2>3. RuleIsWritten(r, o.name, more)
    BY <2>1, <2>2 DEF RuleIsWritten
  <2> QED
    BY <2>3 DEF r
<1> QED
  BY <1>1 DEF ObjectIsWritten

\* A new object has what its template has.
LEMMA CreatedIsWritten ==
    ASSUME Known(objects), AllWritten(objects), NEW kind \in Kinds, NEW name \in Name,
           NameIsWritten(kind, name)
    PROVE  AllWritten(FindOrCreate(kind, name))
<1> DEFINE o == FromTemplate(kind, name)
           more == Append(objects, o)
<1>0. /\ objects \in Seq(Object) /\ Len(objects) \in Nat /\ DOMAIN objects = 1 .. Len(objects)
      /\ Len(objects) >= 4
  BY LenProperties DEF Known
<1>1. CASE Found(objects, kind, name) # {}
  BY <1>1 DEF FindOrCreate
<1>2. CASE Found(objects, kind, name) = {}
  <2>1. o \in Object /\ o.kind = kind /\ o.name = name /\ o.rules = <<>>
    BY NewObject
  <2>2. ObjectIsWritten(o, more)
    <3>1. /\ Template[kind] \in 1 .. 4 /\ objects[Template[kind]].kind = kind
          /\ objects[Template[kind]].name = "default"
      BY DEF Template, Kinds, AllWritten
    <3>2. Template[kind] \in DOMAIN objects
      BY <1>0, <3>1
    <3>3. \A f \in Fields : objects[Template[kind]].set[f] # None =>
              f \in Accepted[kind] /\ ValueIsStated(kind, "default", f, objects[Template[kind]].set[f])
      BY <3>1, <3>2 DEF AllWritten, ObjectIsWritten, ValueIsWritten
    <3>4. \A f \in Fields : o.set[f] = IF f \in Copied[kind] THEN objects[Template[kind]].set[f] ELSE None
      BY DEF FromTemplate, Fresh
    <3>5. o.services = <<>>
      BY DEF FromTemplate, Fresh
    <3> HIDE DEF o, more
    <3> QED
      BY <2>1, <3>3, <3>4, <3>5 DEF ObjectIsWritten, ValueIsWritten
  <2> HIDE DEF o
  <2>3. /\ more \in Seq(Object) /\ Len(more) = Len(objects) + 1
        /\ \A i \in 1 .. Len(objects) : more[i] = objects[i]
        /\ more[Len(objects) + 1] = o
    BY <1>0, <2>1, AppendProperties
  <2>4. DOMAIN more = 1 .. Len(objects) + 1
    BY <2>3, LenProperties
  <2> HIDE DEF more
  <2>5. Keeps(objects, more)
    BY <1>0, <2>3 DEF Keeps
  <2>6. \A i \in DOMAIN more : ObjectIsWritten(more[i], more)
    <3>1. \A i \in 1 .. Len(objects) : ObjectIsWritten(objects[i], more)
      BY <1>0, <2>5, ObjectStaysWritten DEF Known, AllWritten
    <3>2. \A i \in 1 .. Len(objects) + 1 : i \in 1 .. Len(objects) \/ i = Len(objects) + 1
      BY <1>0
    <3> QED
      BY <2>2, <2>3, <2>4, <3>1, <3>2
  <2>7. \A i \in Listed(more) : NameIsWritten(more[i].kind, more[i].name)
    <3>1. \A i \in Listed(more) : (i \in Listed(objects) /\ i \in 1 .. Len(objects)) \/ i = Len(objects) + 1
      BY <1>0, <2>3 DEF Listed
    <3> QED
      BY <2>1, <2>3, <3>1 DEF AllWritten
  <2>8. \A k \in Kinds : more[Template[k]].kind = k /\ more[Template[k]].name = "default"
    <3>1. \A k \in Kinds : Template[k] \in 1 .. Len(objects)
      BY <1>0 DEF Template, Kinds
    <3> QED
      BY <2>3, <3>1 DEF AllWritten
  <2> QED
    BY <1>2, <2>6, <2>7, <2>8 DEF FindOrCreate, AllWritten, more, o
<1> QED
  BY <1>1, <1>2

\* An object gets other contents.
LEMMA ChangedIsWritten ==
    ASSUME NEW objs, Known(objs), AllWritten(objs), NEW i \in DOMAIN objs,
           NEW o \in Object, o.kind = objs[i].kind, o.name = objs[i].name, Leads(o, objs),
           ObjectIsWritten(o, objs)
    PROVE  AllWritten([objs EXCEPT ![i] = o])
<1> DEFINE more == [objs EXCEPT ![i] = o]
<1>1. objs \in Seq(Object) /\ Len(objs) \in Nat /\ DOMAIN objs = 1 .. Len(objs) /\ Len(objs) >= 4
  BY LenProperties DEF Known
<1>2. /\ Len(more) = Len(objs)
      /\ \A j \in 1 .. Len(objs) : more[j] = IF j = i THEN o ELSE objs[j]
  BY <1>1, ExceptSeq
<1>3. DOMAIN more = 1 .. Len(objs) /\ Keeps(objs, more)
  BY Changed, <1>1
<1> HIDE DEF more
<1>4. \A j \in DOMAIN more : ObjectIsWritten(more[j], more)
  <2>1. \A j \in 1 .. Len(objs) : Leads(more[j], objs) /\ ObjectIsWritten(more[j], objs)
    BY <1>1, <1>2 DEF Known, AllWritten
  <2> QED
    BY <1>1, <1>3, <2>1, ObjectStaysWritten
<1>5. \A j \in Listed(more) : NameIsWritten(more[j].kind, more[j].name)
  <2>1. Listed(more) = Listed(objs) /\ Listed(objs) \subseteq 1 .. Len(objs)
    BY <1>1, <1>2 DEF Listed
  <2> QED
    BY <1>2, <2>1 DEF AllWritten
<1>6. \A k \in Kinds : more[Template[k]].kind = k /\ more[Template[k]].name = "default"
  <2>1. \A k \in Kinds : Template[k] \in 1 .. Len(objs)
    BY <1>1 DEF Template, Kinds
  <2> QED
    BY <1>2, <2>1 DEF AllWritten
<1>7. AllWritten(more)
  BY <1>4, <1>5, <1>6 DEF AllWritten
<1> QED
  BY <1>7 DEF more

\* A setting, and the log it may name.
LEMMA SettingIsWritten ==
    ASSUME IInv, AllWritten(objects), NEW i \in DOMAIN objects,
           NEW field \in Fields, NEW value \in Name,
           ValueIsWritten(objects[i].kind, objects[i].name, field, value),
           field = "file" => NameIsWritten("log", value)
    PROVE  AllWritten(WithSetting(i, field, value))
<1> DEFINE objs == IF field = "file" THEN FindOrCreate("log", value) ELSE objects
           o == [objs[i] EXCEPT !.set = [objs[i].set EXCEPT ![field] = value]]
<1>1. Known(objs) /\ Keeps(objects, objs) /\ AllWritten(objs)
  <2>1. "log" \in Kinds
    BY DEF Kinds
  <2> QED
    BY <2>1, Created, CreatedIsWritten, SameObjects DEF IInv
<1>2. WithSetting(i, field, value) = [objs EXCEPT ![i] = o]
  BY DEF WithSetting
<1>3. objs[i].kind = objects[i].kind /\ objs[i].name = objects[i].name
  BY <1>1 DEF Keeps
<1> HIDE DEF objs
<1>4. i \in DOMAIN objs
  BY <1>1, LenProperties DEF Known, Keeps, IInv
<1>5. objs[i] \in Object /\ Leads(objs[i], objs) /\ ObjectIsWritten(objs[i], objs)
  BY <1>1, <1>4, LenProperties DEF Known, AllWritten
<1>6. objs[i].set \in [Fields -> Name \cup {None}]
  BY <1>5, FieldsOfObject
<1>7. [objs[i].set EXCEPT ![field] = value] \in [Fields -> Name \cup {None}]
  BY <1>6
<1>8. /\ o \in Object /\ o.kind = objs[i].kind /\ o.name = objs[i].name /\ o.rules = objs[i].rules
      /\ o.services = objs[i].services
      /\ \A f \in Fields : o.set[f] = IF f = field THEN value ELSE objs[i].set[f]
  BY <1>5, <1>6, <1>7 DEF Object
<1> HIDE DEF o
<1>9. ObjectIsWritten(o, objs)
  <2>1. \A f \in Fields : o.set[f] # None => ValueIsWritten(o.kind, o.name, f, o.set[f])
    BY <1>3, <1>5, <1>8 DEF ObjectIsWritten
  <2> QED
    BY <1>5, <1>8, <2>1 DEF ObjectIsWritten
<1>10. Leads(o, objs)
  BY <1>5, <1>8 DEF Leads
<1>11. AllWritten([objs EXCEPT ![i] = o])
  BY <1>1, <1>4, <1>8, <1>9, <1>10, ChangedIsWritten
<1> QED
  BY <1>2, <1>11

LEMMA NewSectionIsWritten ==
    ASSUME IInv, Section, AllWritten(objects), CallsAreWritten(stack, objects)
    PROVE  AllWritten(objects')
<1>1. CASE Line.name = "default"
  BY <1>1 DEF Section
<1>2. CASE Line.name # "default"
  <2>1. /\ HasLine /\ Line.op = "section" /\ Top.kind = "config" /\ stack # <<>>
        /\ objects' = FindOrCreate(Line.kind, Line.name)
    BY <1>2 DEF Section, InConfig, HasLine, Reading
  <2>2. Line.kind \in Kinds /\ Line.name \in Name
    BY <2>1, LineIsRead, Carried
  <2>3. NameIsWritten(Line.kind, Line.name)
    <3>1. FrameIsWritten(Top, objects) /\ Top.name \in ConfigsRead
      BY <2>1, TopIsWritten DEF FrameIsWritten
    <3>2. Begin \in Starts(Top.name) /\ disk[Top.name][Begin] = Line
      BY <2>1, <3>1, LineIsWritten
    <3> QED
      BY <1>2, <2>1, <3>1, <3>2 DEF NameIsWritten, SectionIsWritten
  <2> QED
    BY <2>1, <2>2, <2>3, CreatedIsWritten DEF IInv
<1> QED
  BY <1>1, <1>2

\* What a line of an open section says, and of which object.
LEMMA SaidInSection ==
    ASSUME IInv, CallsAreWritten(stack, objects), NEW op, op # "comment", InConfig(op), SectionKind # None
    PROVE  LET o == objects[Top.section] IN
           /\ Top.section \in DOMAIN objects /\ SectionKind = o.kind /\ o \in Object
           /\ Leads(o, objects) /\ Line \in Stated(op, o.kind, o.name) /\ Top.name \in ConfigsRead
           /\ Top.name \in DOMAIN disk /\ Begin \in Starts(Top.name) /\ disk[Top.name][Begin] = Line
           /\ InSection(Top.name, Begin, o.kind, o.name)
<1>1. HasLine /\ Top.kind = "config" /\ Line.op = op /\ stack # <<>>
  BY DEF InConfig, HasLine, Reading
<1>2. Top.section \in DOMAIN objects /\ SectionKind = objects[Top.section].kind /\ Top.section # 0
  BY <1>1, OpenSection DEF SectionKind
<1>3. FrameIsWritten(Top, objects) /\ Top.name \in ConfigsRead
  BY <1>1, TopIsWritten DEF FrameIsWritten
<1>4. objects[Top.section] \in Object /\ Leads(objects[Top.section], objects)
  BY <1>2, LenProperties DEF IInv, Known
<1> QED
  BY <1>1, <1>2, <1>3, <1>4, LineIsWritten

LEMMA SetIsWritten ==
    ASSUME IInv, Set, AllWritten(objects), CallsAreWritten(stack, objects)
    PROVE  AllWritten(objects')
<1> DEFINE o == objects[Top.section]
<1>1. HasLine /\ Line.op = "set" /\ objects' = WithSetting(Top.section, Line.field, Line.value)
      /\ SectionKind # None /\ Line.value # None /\ Line.field \in Accepted[SectionKind]
  BY DEF Set, InConfig, CanSet
<1>2. Line.field \in Fields /\ Line.value \in Name
  BY <1>1, LineIsRead, Carried
<1>3. /\ Top.section \in DOMAIN objects /\ SectionKind = o.kind /\ o \in Object
      /\ Line \in Stated("set", o.kind, o.name)
  BY <1>1, SaidInSection DEF Set
<1>4. o.kind \in Kinds /\ o.name \in Name
  BY <1>3, FieldsOfObject
<1>5. /\ ValueIsWritten(o.kind, o.name, Line.field, Line.value)
      /\ Line.field = "file" => NameIsWritten("log", Line.value)
  BY <1>1, <1>3, <1>4 DEF ValueIsWritten, ValueIsStated, NameIsWritten
<1> QED
  BY <1>1, <1>2, <1>3, <1>5, SettingIsWritten

LEMMA SetMainIsWritten ==
    ASSUME IInv, NEW op, NEW field, <<op, field>> \in {<<"v", "level">>, <<"V", "file">>}, SetMain(op, field),
           AllWritten(objects)
    PROVE  AllWritten(objects')
<1>1. /\ optind \in DOMAIN options /\ options[optind].op = op
      /\ objects' = WithSetting(1, field, options[optind].name) /\ options[optind].name \in Name
  BY OptionName, ConfigAssumption, LenProperties DEF SetMain, NextOption, Template, IInv, Tables
<1>2. op \in {"v", "V"} /\ field \in Fields
  BY DEF Fields
<1>3. 1 \in DOMAIN objects /\ objects[1].kind = "main" /\ objects[1].name = "default"
  BY LenProperties DEF IInv, Known, AllWritten, Kinds, Template
<1>4. options[optind].name \in Given(op)
  BY <1>1 DEF Given
<1>5. /\ ValueIsWritten("main", "default", field, options[optind].name)
      /\ field = "file" => NameIsWritten("log", options[optind].name)
  BY <1>4 DEF ValueIsWritten, ValueIsStated, NameIsWritten, Accepted
<1> QED
  BY <1>1, <1>2, <1>3, <1>5, SettingIsWritten

LEMMA ServiceIsWritten ==
    ASSUME IInv, Service, AllWritten(objects), CallsAreWritten(stack, objects)
    PROVE  AllWritten(objects')
<1> DEFINE i == Top.section
           more == <<Line.host>> \o objects[i].services
           o == [objects[i] EXCEPT !.services = more]
<1>1. HasLine /\ Line.op = "service" /\ SectionKind = "proxy" /\ objects' = [objects EXCEPT ![i] = o]
  BY DEF Service, InConfig
<1>2. /\ i \in DOMAIN objects /\ objects[i].kind = "proxy"
      /\ Line \in Stated("service", "proxy", objects[i].name)
  BY <1>1, SaidInSection, ConfigAssumption DEF Kinds, Service
<1> HIDE DEF i
<1>3. objects[i] \in Object /\ Leads(objects[i], objects) /\ ObjectIsWritten(objects[i], objects)
  BY <1>2, LenProperties DEF IInv, Known, AllWritten
<1>4. objects[i].services \in Seq({"127.0.0.1", "elsewhere"})
  BY <1>3, FieldsOfObject
<1>5. <<Line.host>> \in Seq({"127.0.0.1", "elsewhere"})
  BY <1>1, LineIsRead, Carried
<1>6. /\ more \in Seq({"127.0.0.1", "elsewhere"})
      /\ \A k \in DOMAIN more : more[k] = Line.host \/ \E j \in DOMAIN objects[i].services : more[k] = objects[i].services[j]
  <2>1. /\ more \in Seq({"127.0.0.1", "elsewhere"}) /\ Len(more) = 1 + Len(objects[i].services)
        /\ \A k \in 1 .. 1 + Len(objects[i].services) :
               more[k] = IF k <= 1 THEN Line.host ELSE objects[i].services[k - 1]
    BY <1>4, <1>5, ConcatProperties
  <2>2. /\ DOMAIN more = 1 .. 1 + Len(objects[i].services) /\ Len(objects[i].services) \in Nat
        /\ DOMAIN objects[i].services = 1 .. Len(objects[i].services)
    BY <1>4, <2>1, LenProperties
  <2> HIDE DEF more
  <2>3. \A k \in 1 .. 1 + Len(objects[i].services) : k <= 1 \/ k - 1 \in 1 .. Len(objects[i].services)
    BY <2>2
  <2> QED
    BY <2>1, <2>2, <2>3
<1> HIDE DEF more
<1>7. /\ o \in Object /\ o.kind = objects[i].kind /\ o.name = objects[i].name /\ o.rules = objects[i].rules
      /\ o.set = objects[i].set /\ o.services = more
  BY <1>3, <1>6 DEF Object
<1> HIDE DEF o
<1>8. Leads(o, objects)
  BY <1>3, <1>7 DEF Leads
<1>9. ObjectIsWritten(o, objects)
  BY <1>2, <1>3, <1>5, <1>6, <1>7 DEF ObjectIsWritten
<1> QED
  BY <1>1, <1>2, <1>7, <1>8, <1>9, ChangedIsWritten DEF IInv

LEMMA RouteIsWritten ==
    ASSUME IInv, Route, AllWritten(objects), CallsAreWritten(stack, objects)
    PROVE  AllWritten(objects')
<1>1. PICK i \in DOMAIN objects, r \in [file : Name, line : Nat, via : Seq(Nat)], o \in Object :
          /\ HasLine /\ i = Top.section /\ objects[i].kind = "proxy"
          /\ r.file = Top.name /\ r.via = Tunnels(Line.via) /\ LeadTo(r.via, objects)
          /\ o.kind = objects[i].kind /\ o.name = objects[i].name /\ o.set = objects[i].set
          /\ o.services = objects[i].services /\ o.rules = Append(objects[i].rules, r)
          /\ Leads(o, objects) /\ objects' = [objects EXCEPT ![i] = o]
  BY RouteAdds
<1>2. /\ objects[i].rules \in Seq([file : Name, line : Nat, via : Seq(Nat)])
      /\ ObjectIsWritten(objects[i], objects) /\ i # 0
  <2>1. objects[i] \in Object /\ DOMAIN objects = 1 .. Len(objects) /\ Len(objects) \in Nat
    BY LenProperties DEF IInv, Known
  <2>2. i # 0
    BY <2>1
  <2> QED
    BY <2>1, <2>2, FieldsOfObject DEF AllWritten
<1>3. Line.op = (IF Top.kind = "config" THEN "route" ELSE "rule") /\ AllDefined(Line.via)
  BY DEF Route
<1>4. Line \in Statement /\ Line.via \in Seq(Name)
  BY <1>1, <1>3, LineIsRead, Carried
<1>5. /\ Top.name \in DOMAIN disk /\ Begin \in Starts(Top.name) /\ disk[Top.name][Begin] = Line
      /\ \/ Line.op = "route" /\ Top.name \in ConfigsRead /\ InSection(Top.name, Begin, "proxy", o.name)
         \/ Line.op = "rule" /\ Top.name \in RulesRead(o.name)
  <2>1. stack # <<>> /\ Top.kind \in {"config", "rules"}
    BY <1>1, Running DEF HasLine, Reading, Activation
  <2>2. FrameIsWritten(Top, objects)
    BY <2>1, TopIsWritten
  <2>3. /\ Top.name \in DOMAIN disk /\ Begin \in Starts(Top.name) /\ disk[Top.name][Begin] = Line
        /\ Top.kind = "config" => InSection(Top.name, Begin, "proxy", o.name)
    BY <1>1, <1>2, <1>3, <2>2, LineIsWritten
  <2>4. /\ Top.kind = "config" => Top.name \in ConfigsRead
        /\ Top.kind = "rules" => Top.name \in RulesRead(o.name)
    BY <1>1, <2>2 DEF FrameIsWritten
  <2> QED
    BY <1>3, <2>1, <2>3, <2>4
<1>6. DOMAIN r.via = Held(Line.via)
  BY <1>1 DEF Tunnels
<1>7. ASSUME NEW t \in Held(Line.via)
      PROVE  objects[r.via[t]].name = Line.via[t]
  <2>1. Held(Line.via) \subseteq DOMAIN Line.via
    BY <1>4, LenProperties, ConfigAssumption DEF Held
  <2>2. r.via[t] = Search(objects, "ssh", Line.via[t])
    BY <1>1 DEF Tunnels
  <2>3. Found(objects, "ssh", Line.via[t]) # {}
    BY <1>3, <2>1 DEF AllDefined
  <2>4. Search(objects, "ssh", Line.via[t]) \in Found(objects, "ssh", Line.via[t])
    BY <2>3 DEF Search
  <2> QED
    BY <2>2, <2>4 DEF Found
<1>8. RuleIsWritten(r, o.name, objects)
  BY <1>1, <1>5, <1>6, <1>7 DEF RuleIsWritten
<1>9. \A k \in DOMAIN o.rules :
          (k \in DOMAIN objects[i].rules /\ o.rules[k] = objects[i].rules[k]) \/ o.rules[k] = r
  <2>1. /\ Len(o.rules) = Len(objects[i].rules) + 1
        /\ \A k \in 1 .. Len(objects[i].rules) : o.rules[k] = objects[i].rules[k]
        /\ o.rules[Len(objects[i].rules) + 1] = r
    BY <1>1, <1>2, AppendProperties
  <2>2. /\ DOMAIN o.rules = 1 .. Len(objects[i].rules) + 1 /\ Len(objects[i].rules) \in Nat
        /\ DOMAIN objects[i].rules = 1 .. Len(objects[i].rules)
    BY <1>2, <2>1, FieldsOfObject, LenProperties
  <2> QED
    BY <2>1, <2>2
<1>10. ObjectIsWritten(o, objects)
  BY <1>1, <1>2, <1>8, <1>9 DEF ObjectIsWritten
<1> QED
  BY <1>1, <1>10, ChangedIsWritten DEF IInv

\* The texts and the options stay what they are.
LEMMA SameText ==
    ASSUME UNCHANGED <<disk, options>>
    PROVE  /\ \A objs, s : AllWritten(objs) /\ CallsAreWritten(s, objs)
                                => (AllWritten(objs) /\ CallsAreWritten(s, objs))'
           /\ HasQuietLine' <=> HasQuietLine
<1>1. \A f : Starts(f)' = Starts(f)
  BY DEF Starts
<1>2. /\ \A f, p : NoSectionBefore(f, p)' <=> NoSectionBefore(f, p)
      /\ \A f, p, kind, name : InSection(f, p, kind, name)' <=> InSection(f, p, kind, name)
      /\ \A op, R : ClosedUnder(op, R)' <=> ClosedUnder(op, R)
  BY <1>1 DEF NoSectionBefore, InSection, ClosedUnder
<1>3. /\ \A op, from : Reached(op, from)' = Reached(op, from)
      /\ \A op : Given(op)' = Given(op)
  BY <1>2 DEF Reached, Given
<1>4. ConfigsRead' = ConfigsRead
  BY <1>3 DEF ConfigsRead
<1>5. /\ \A op, kind, name : Stated(op, kind, name)' = Stated(op, kind, name)
      /\ \A kind, name : SectionIsWritten(kind, name)' <=> SectionIsWritten(kind, name)
  BY <1>1, <1>2, <1>4 DEF Stated, SectionIsWritten
<1>6. \A proxy : RuleFilesNamed(proxy)' = RuleFilesNamed(proxy)
  BY <1>5 DEF RuleFilesNamed
<1>7. \A proxy : RulesRead(proxy)' = RulesRead(proxy)
  BY <1>3, <1>6 DEF RulesRead
<1>8. \A r, proxy, objs : RuleIsWritten(r, proxy, objs)' <=> RuleIsWritten(r, proxy, objs)
  BY <1>1, <1>2, <1>4, <1>7 DEF RuleIsWritten
<1>9. \A kind, name, field, value :
          ValueIsStated(kind, name, field, value)' <=> ValueIsStated(kind, name, field, value)
  BY <1>3, <1>5 DEF ValueIsStated
<1>10. \A kind, name, field, value :
           ValueIsWritten(kind, name, field, value)' <=> ValueIsWritten(kind, name, field, value)
  BY <1>9 DEF ValueIsWritten
<1>11. \A o, objs : ObjectIsWritten(o, objs)' <=> ObjectIsWritten(o, objs)
  BY <1>5, <1>8, <1>10 DEF ObjectIsWritten
<1>12. \A kind, name : NameIsWritten(kind, name)' <=> NameIsWritten(kind, name)
  BY <1>3, <1>5 DEF NameIsWritten
<1>13. \A objs : AllWritten(objs)' <=> AllWritten(objs)
  BY <1>11, <1>12 DEF AllWritten, Listed
<1>14. \A f, objs : FrameIsWritten(f, objs)' <=> FrameIsWritten(f, objs)
  BY <1>2, <1>4, <1>6, <1>7 DEF FrameIsWritten, AtLineStart
<1>15. \A op : NamedBy(op)' = NamedBy(op)
  BY <1>1, <1>4 DEF NamedBy
<1>16. HasQuietLine' <=> HasQuietLine
  BY <1>1, <1>3, <1>4, <1>15 DEF HasQuietLine, NamedRuleFiles
<1> QED
  BY <1>13, <1>14, <1>16 DEF CallsAreWritten

LEMMA StepIsWritten == IInv /\ IInv' /\ Written /\ [Next]_vars => Written'
<1> SUFFICES ASSUME IInv, IInv', Written, [Next]_vars PROVE Written' OBVIOUS
<1>1. AllWritten(objects) /\ CallsAreWritten(stack, objects)
  BY DEF Written
<1>2. UNCHANGED <<disk, options>>
  BY DEF Next, vars, ParseFails, EndOfFile, Comment, Include, Section, Set, Service, Route, RouteFile,
         RouteDir, NextInFolder, NotUnderstood, LoadConfig, SetMain, NextOption, Serve, StartFails
<1>3. Known(objects') /\ Keeps(objects, objects') /\ Sound(stack, Len(objects))
  <2>1. Known(objects')
    BY DEF IInv, Known, Unique, Leads, LeadTo, Listed
  <2>2. /\ DOMAIN objects = 1 .. Len(objects) /\ Len(objects) \in Nat /\ Len(objects) >= 4
        /\ DOMAIN objects' = 1 .. Len(objects') /\ Len(objects') \in Nat
    BY <2>1, LenProperties DEF IInv, Known
  <2>3. \A i \in DOMAIN objects :
            i \in DOMAIN objects' /\ objects'[i].kind = objects[i].kind /\ objects'[i].name = objects[i].name
    BY StepAdds DEF Adds, AddsTo
  <2>4. Len(objects) \in 1 .. Len(objects')
    BY <2>2, <2>3
  <2>5. Len(objects) <= Len(objects')
    BY <2>2, <2>4
  <2> QED
    BY <2>1, <2>3, <2>5 DEF Keeps, IInv
<1>4. CallsAreWritten(stack, objects') /\ CallsAreWritten(<<>>, objects')
  BY <1>1, <1>3, CallsStay, EmptySeq DEF IInv, CallsAreWritten
<1>5. AllWritten(objects')
  <2>1. CASE UNCHANGED objects
    BY <1>1, <2>1
  <2>2. CASE Section \/ Set \/ Service \/ Route
    BY <1>1, <2>2, NewSectionIsWritten, SetIsWritten, ServiceIsWritten, RouteIsWritten
  <2>3. CASE SetMain("v", "level") \/ SetMain("V", "file")
    BY <1>1, <2>3, SetMainIsWritten
  <2> QED
    BY <2>1, <2>2, <2>3 DEF Next, vars, ParseFails, EndOfFile, Comment, Include, RouteFile,
       RouteDir, NextInFolder, NotUnderstood, LoadConfig, Serve, StartFails
<1>6. CallsAreWritten(stack', objects')
  <2>1. CASE stack' = stack \/ stack' = <<>>
    BY <1>4, <2>1
  <2>2. CASE Comment \/ Set \/ Service \/ Route
    <3>1. /\ HasLine /\ stack' = Advanced /\ (Top.kind = "config" => Line.op # "section")
      BY <2>2 DEF Comment, Set, Service, Route, InConfig
    <3>2. CallsAreWritten(Advanced, objects) /\ Sound(Advanced, Len(objects))
      BY <1>1, <3>1, AdvancedIsWritten, GoesOn
    <3> QED
      BY <1>3, <3>1, <3>2, CallsStay DEF IInv
  <2>3. CASE EndOfFile \/ ParseFails
    <3>1. stack # <<>> /\ objects' = objects /\ (stack' = Callers \/ \E told : Fail(Top.kind, Callers, told))
      BY <2>3 DEF EndOfFile, ParseFails, HasLine, Reading
    <3>2. Callers \in Seq(Activation) /\ CallsAreWritten(Callers, objects)
      BY <1>1, <3>1, TopIsWritten
    <3> QED
      BY <3>1, <3>2, FailIsWritten
  <2>4. CASE Include \/ RouteFile \/ RouteDir \/ NextInFolder \/ LoadConfig
    <3>1. objects' = objects
      BY <2>4 DEF Include, RouteFile, RouteDir, NextInFolder, LoadConfig
    <3>2. CallsAreWritten(stack', objects)
      BY <1>1, <2>4, IncludeIsWritten, RouteFileIsWritten, RouteDirIsWritten, NextInFolderIsWritten,
         LoadConfigIsWritten
    <3> QED
      BY <3>1, <3>2
  <2>5. CASE Section
    BY <1>1, <1>3, <1>5, <2>5, SectionFrameIsWritten
  <2> QED
    BY <2>1, <2>2, <2>3, <2>4, <2>5 DEF Next, vars, NotUnderstood, Exits, SetMain, Serve, StartFails
<1>7. (AllWritten(objects) /\ CallsAreWritten(stack, objects))'
  BY <1>2, <1>5, <1>6, SameText
<1> QED
  BY <1>7 DEF Written

LEMMA InitIsWritten == Init => Written
<1> SUFFICES ASSUME Init PROVE Written OBVIOUS
<1>1. /\ Len(objects) = 7 /\ DOMAIN objects = 1 .. 7
      /\ \A i \in 1 .. 4 : objects[i] = Fresh(Templates[i], "default")
      /\ \A i \in 5 .. 7 : objects[i] = Fresh("ssh", Predefined[i - 4])
  BY ObjectsAtStart
<1>2. /\ \A i \in 1 .. 7 : /\ objects[i].rules = <<>> /\ objects[i].services = <<>>
                           /\ \A f \in Fields : objects[i].set[f] = None
      /\ \A i \in 1 .. 4 : objects[i].kind = Templates[i] /\ objects[i].name = "default"
      /\ \A i \in 5 .. 7 : objects[i].kind = "ssh" /\ objects[i].name = Predefined[i - 4] /\ i - 4 \in 1 .. 3
  BY <1>1 DEF Fresh
<1>3. \A i \in DOMAIN objects : ObjectIsWritten(objects[i], objects)
  BY <1>1, <1>2 DEF ObjectIsWritten
<1>4. \A i \in Listed(objects) : NameIsWritten(objects[i].kind, objects[i].name)
  BY <1>1, <1>2 DEF Listed, NameIsWritten
<1>5. \A kind \in Kinds : Template[kind] \in 1 .. 4 /\ Templates[Template[kind]] = kind
  BY DEF Kinds, Template, Templates
<1>6. CallsAreWritten(stack, objects)
  BY EmptySeq DEF Init, CallsAreWritten
<1> QED
  BY <1>2, <1>3, <1>4, <1>5, <1>6 DEF Written, AllWritten

(* readme.md:70: whatever the files include, and even after an error that  *)
(* did not end the program, nothing is configured that is not written for  *)
(* it: every rule of a proxy is a line of one of its sections, or of a     *)
(* rule file that one of them reads, with the tunnels named there; every   *)
(* value is one that a section of its object, an option or, if it is       *)
(* copied, a section "default" of its kind gives it; every object has a    *)
(* section, is a log that is used, or is predefined; and all of these      *)
(* stand in files that are reached from the options.                       *)
THEOREM OnlyWhatIsWritten == Spec => []Written
BY InitIsWritten, StepIsWritten, Invariant, PTL DEF Spec

-----------------------------------------------------------------------------
\* Nothing is lost without a message, but for quiet lines.

\* The rule files that are read are among those that are named.
LEMMA RuleFilesAreNamed ==
    ASSUME NEW proxy
    PROVE  RulesRead(proxy) \subseteq Reached("routeFile", NamedRuleFiles)
<1>1. \A op : {l.name : l \in Stated(op, "proxy", proxy)} \subseteq NamedBy(op)
  BY DEF Stated, NamedBy
<1>2. RuleFilesNamed(proxy) \subseteq NamedRuleFiles
  BY <1>1 DEF RuleFilesNamed, NamedRuleFiles
<1> QED
  BY <1>2 DEF RulesRead, Reached

\* A line that ends the reading of its file has a message or is quiet.
LEMMA FailureIsTold ==
    ASSUME IInv, Written, ParseFails, ~reported'
    PROVE  HasQuietLine
<1>1. HasLine /\ Unreadable /\ ~IsTold /\ stack # <<>> /\ FrameIsWritten(Top, objects)
  BY TopIsWritten DEF ParseFails, Fail, HasLine, Reading, Written
<1>2. Line.op # "comment"
  BY <1>1 DEF Unreadable, Undefined
<1>3. Top.name \in DOMAIN disk /\ Begin \in Starts(Top.name) /\ disk[Top.name][Begin] = Line
  BY <1>1, <1>2, LineIsWritten
<1>4. CASE Top.kind = "config"
  BY <1>1, <1>3, <1>4 DEF Unreadable, Undefined, IsTold, FrameIsWritten, HasQuietLine
<1>5. CASE Top.kind = "rules"
  <2>1. Top.name \in Reached("routeFile", NamedRuleFiles)
    BY <1>1, <1>5, RuleFilesAreNamed DEF FrameIsWritten
  <2>2. Line.op \notin {"rule", "routeFile", "comment", "unreadable"}
    BY <1>1 DEF Unreadable, IsTold
  <2> QED
    BY <1>3, <2>1, <2>2 DEF HasQuietLine
<1> QED
  BY <1>1, <1>4, <1>5, Running DEF HasLine, Reading, Activation

(* The calls of error() before each "return 0" and "exit": of everything a *)
(* start has lost it has told, unless the files have one of the two kinds  *)
(* of line that end the reading of a file without a word.                  *)
THEOREM NothingIsLostQuietly == Spec => []LossesAreTold
<1>1. Init => LossesAreTold
  BY DEF Init, LossesAreTold
<1>2. IInv /\ Written /\ LossesAreTold /\ [Next]_vars => LossesAreTold'
  <2> SUFFICES ASSUME IInv, Written, LossesAreTold, [Next]_vars, lost', ~reported' PROVE HasQuietLine'
    BY DEF LossesAreTold
  <2>1. UNCHANGED <<disk, options>>
    BY DEF Next, vars, ParseFails, EndOfFile, Comment, Include, Section, Set, Service, Route, RouteFile,
       RouteDir, NextInFolder, NotUnderstood, LoadConfig, SetMain, NextOption, Serve, StartFails
  <2>2. ParseFails => HasQuietLine
    BY FailureIsTold
  <2>3. ~ParseFails => lost /\ ~reported
    BY DEF Next, vars, EndOfFile, Comment, Include, Section, Set, Service, Route, RouteFile, RouteDir,
       NextInFolder, NotUnderstood, LoadConfig, SetMain, Serve, StartFails, Exits, Call, Fail
  <2> QED
    BY <2>1, <2>2, <2>3, SameText DEF LossesAreTold
<1> QED
  BY <1>1, <1>2, Invariant, OnlyWhatIsWritten, PTL DEF Spec

LEMMA NothingIsLost == LossesAreTold /\ Serves => at = "serving" /\ ~lost
BY DEF LossesAreTold, Serves

-----------------------------------------------------------------------------
\* What is written has been configured.

\* What has been done stays done.
LEMMA RuleStays ==
    ASSUME NEW objs, Known(objs), NEW more, Adds(objs, more), NEW i \in DOMAIN objs, NEW f, NEW l,
           HasRule(objs[i], f, l, objs)
    PROVE  HasRule(more[i], f, l, more)
<1>1. PICK k \in DOMAIN objs[i].rules :
          LET r == objs[i].rules[k] IN
          r.file = f /\ DOMAIN r.via = DOMAIN l.via /\ \A t \in DOMAIN l.via : objs[r.via[t]].name = l.via[t]
  BY DEF HasRule
<1>2. k \in DOMAIN more[i].rules /\ more[i].rules[k] = objs[i].rules[k]
  BY DEF Adds, AddsTo
<1>3. Listed(objs) \subseteq DOMAIN objs
  BY LenProperties DEF Known, Listed
<1>4. \A t \in DOMAIN objs[i].rules[k].via : objs[i].rules[k].via[t] \in DOMAIN objs
  BY <1>3 DEF Known, Leads, LeadTo
<1>5. \A t \in DOMAIN l.via : more[objs[i].rules[k].via[t]].name = l.via[t]
  BY <1>1, <1>4 DEF Adds, AddsTo
<1> QED
  BY <1>1, <1>2, <1>5 DEF HasRule

LEMMA LineStaysDone ==
    ASSUME NEW objs, Known(objs), NEW more, Adds(objs, more), NEW C, NEW D, C \subseteq D, NEW R, NEW Q,
           R \subseteq Q, NEW f \in DOMAIN disk, NEW p \in Starts(f), disk[f][p] \in Statement,
           LineIsDone(f, p, objs, C, R)
    PROVE  LineIsDone(f, p, more, D, Q)
<1> DEFINE l == disk[f][p]
<1>1. \A i \in DOMAIN objs : i \in DOMAIN more /\ more[i].kind = objs[i].kind /\ more[i].name = objs[i].name
  BY DEF Adds, AddsTo
<1>2. /\ l.op = "include" => l.name \in C
      /\ l.op = "section" => \E i \in DOMAIN objs : IsCalled(i, l.kind, l.name, objs)
      /\ l.op \notin {"include", "section", "comment"} =>
             /\ l.op \in InOpenSection
             /\ \E i \in DOMAIN objs :
                    /\ InSection(f, p, objs[i].kind, objs[i].name)
                    /\ IsCalled(i, objs[i].kind, objs[i].name, objs) /\ IsTaken(l, f, i, objs, R)
  BY DEF LineIsDone
<1>3. l \in Statement
  OBVIOUS
<1> HIDE DEF l
<1>4. ASSUME NEW i \in DOMAIN objs, NEW kind, NEW name, IsCalled(i, kind, name, objs)
      PROVE  IsCalled(i, kind, name, more)
  BY <1>1, <1>4 DEF IsCalled
<1>5. ASSUME NEW i \in DOMAIN objs, IsTaken(l, f, i, objs, R)
      PROVE  IsTaken(l, f, i, more, Q)
  <2>1. l.op = "set" => more[i].set[l.field] # None
    BY <1>3, <1>5, Carried DEF IsTaken, Adds, AddsTo
  <2>2. l.op = "service" => \E k \in DOMAIN more[i].services : more[i].services[k] = l.host
    BY <1>5 DEF IsTaken, Adds, AddsTo
  <2>3. l.op = "route" => HasRule(more[i], f, l, more)
    BY <1>5, RuleStays DEF IsTaken
  <2> QED
    BY <1>1, <1>5, <2>1, <2>2, <2>3 DEF IsTaken
<1>6. /\ l.op = "section" => \E i \in DOMAIN more : IsCalled(i, l.kind, l.name, more)
      /\ l.op \notin {"include", "section", "comment"} =>
             /\ l.op \in InOpenSection
             /\ \E i \in DOMAIN more :
                    /\ InSection(f, p, more[i].kind, more[i].name)
                    /\ IsCalled(i, more[i].kind, more[i].name, more) /\ IsTaken(l, f, i, more, Q)
  <2>1. ASSUME l.op = "section"
        PROVE  \E i \in DOMAIN more : IsCalled(i, l.kind, l.name, more)
    BY <1>1, <1>2, <1>4, <2>1
  <2>2. ASSUME l.op \notin {"include", "section", "comment"}
        PROVE  \E i \in DOMAIN more :
                   /\ InSection(f, p, more[i].kind, more[i].name)
                   /\ IsCalled(i, more[i].kind, more[i].name, more) /\ IsTaken(l, f, i, more, Q)
    <3>1. PICK i \in DOMAIN objs :
              /\ InSection(f, p, objs[i].kind, objs[i].name)
              /\ IsCalled(i, objs[i].kind, objs[i].name, objs) /\ IsTaken(l, f, i, objs, R)
      BY <1>2, <2>2
    <3>2. IsTaken(l, f, i, more, Q) /\ IsCalled(i, objs[i].kind, objs[i].name, more)
      BY <1>4, <1>5, <3>1
    <3> QED
      BY <1>1, <3>1, <3>2
  <2> QED
    BY <1>2, <2>1, <2>2
<1> QED
  BY <1>2, <1>6 DEF LineIsDone, l

LEMMA RuleLineStaysDone ==
    ASSUME NEW objs, Known(objs), NEW more, Adds(objs, more), NEW R, NEW Q, R \subseteq Q,
           NEW i \in DOMAIN objs, NEW f, NEW p, RuleLineIsDone(i, f, p, objs, R)
    PROVE  RuleLineIsDone(i, f, p, more, Q)
BY RuleStays DEF RuleLineIsDone

LEMMA OptionsStayDone ==
    ASSUME NEW objs, Known(objs), NEW more, Adds(objs, more), NEW C, NEW D, C \subseteq D, NEW n,
           OptionsDone(n, objs, C)
    PROVE  OptionsDone(n, more, D)
<1>1. 1 \in DOMAIN objs /\ {"level", "file"} \subseteq Fields
  BY LenProperties DEF Known, Fields
<1> QED
  BY <1>1 DEF OptionsDone, OptionIsDone, Adds, AddsTo

LEMMA FrameStaysDone ==
    ASSUME IInv, NEW objs, Known(objs), NEW more, Adds(objs, more), NEW C, NEW D, C \subseteq D, NEW R, NEW Q,
           R \subseteq Q, NEW f, f.section \in 0 .. Len(objs), f.kind # "config" => f.section # 0,
           f.kind # "folder" => f.name \in DOMAIN disk, FrameIsDone(f, objs, C, R)
    PROVE  FrameIsDone(f, more, D, Q)
<1>1. DOMAIN objs = 1 .. Len(objs) /\ Len(objs) \in Nat
  BY LenProperties DEF Known
<1>2. f.section # 0 => f.section \in DOMAIN objs
  BY <1>1
<1>3. CASE f.kind = "config"
  <2>1. \A p \in Starts(f.name) : disk[f.name][p] \in Statement
    BY <1>3, TextOfFile
  <2>2. \A p \in Starts(f.name) : p < f.pos => LineIsDone(f.name, p, more, D, Q)
    BY <1>3, <2>1, LineStaysDone DEF FrameIsDone
  <2> QED
    BY <1>2, <1>3, <2>2 DEF FrameIsDone, Adds, AddsTo, IsCalled
<1>4. CASE f.kind = "rules"
  <2>1. \A p \in Starts(f.name) : p < f.pos => RuleLineIsDone(f.section, f.name, p, more, Q)
    BY <1>2, <1>4, RuleLineStaysDone DEF FrameIsDone
  <2> QED
    BY <1>4, <2>1 DEF FrameIsDone
<1>5. CASE f.kind \notin {"config", "rules"}
  BY <1>5 DEF FrameIsDone
<1> QED
  BY <1>3, <1>4, <1>5

\* The frame that runs goes on behind its line, which has been done.
LEMMA NextIsDone ==
    ASSUME IInv, HasLine, AtLineStart(Top), NEW more, Adds(objects, more), NEW C, NEW D, C \subseteq D,
           NEW R, NEW Q, R \subseteq Q, FrameIsDone(Top, objects, C, R),
           NEW f, f.kind = Top.kind, f.name = Top.name, f.pos = After.pos,
           Top.kind = "rules" => f.section = Top.section,
           f.kind = "config" /\ f.section # 0 => IsCalled(f.section, more[f.section].kind, more[f.section].name, more),
           Top.kind = "config" /\ Begin \in Starts(Top.name) /\ disk[Top.name][Begin] = Line
               => LineIsDone(Top.name, Begin, more, D, Q),
           Top.kind = "rules" /\ Begin \in Starts(Top.name) /\ disk[Top.name][Begin] = Line
               => RuleLineIsDone(Top.section, Top.name, Begin, more, Q)
    PROVE  FrameIsDone(f, more, D, Q)
<1>1. /\ Top.name \in DOMAIN disk /\ Top.pos \in Nat /\ End \in Nat /\ f.pos = End + 1
      /\ \A q \in Starts(Top.name) : q <= End => q < Top.pos \/ (q = Begin /\ disk[Top.name][q] = Line)
  BY LineStart
<1>2. Starts(Top.name) \subseteq Nat
  BY <1>1, TextOfFile
<1>3. \A q \in Starts(Top.name) : q < f.pos => q < Top.pos \/ (q = Begin /\ disk[Top.name][q] = Line)
  BY <1>1, <1>2
<1>4. Known(objects) /\ Top.section \in 0 .. Len(objects) /\ (Top.kind # "config" => Top.section # 0)
  BY Running DEF IInv, HasLine, Reading, FrameFits, Top
<1>5. FrameIsDone(Top, more, D, Q)
  BY <1>1, <1>4, FrameStaysDone
<1>6. CASE Top.kind = "config"
  BY <1>3, <1>5, <1>6 DEF FrameIsDone
<1>7. CASE Top.kind = "rules"
  BY <1>3, <1>5, <1>7 DEF FrameIsDone
<1> QED
  BY <1>6, <1>7, Running DEF HasLine, Reading, Activation

\* The other frames, and the files that are read already.
LEMMA OthersStayDone ==
    ASSUME IInv, stack # <<>>, NEW more, Adds(objects, more), NEW C \in SUBSET DOMAIN disk, NEW D, C \subseteq D,
           NEW R \in SUBSET ((DOMAIN objects) \X Name), NEW Q, R \subseteq Q, NEW n, Progress(stack, objects, n, C, R),
           NEW f, f.kind = Top.kind, f.name = Top.name, f.kind # "config" => f.section = Top.section,
           f.kind # "folder", FrameIsDone(f, more, D, Q)
    PROVE  LET s == [stack EXCEPT ![Len(stack)] = f] IN
           FramesDone(s, more, D, Q) /\ FilesDone(C, s, more, D, Q) /\ RulesDone(R, s, more, Q)
<1> DEFINE s == [stack EXCEPT ![Len(stack)] = f]
<1>0. Len(stack) \in DOMAIN stack /\ Known(objects) /\ Top = stack[Len(stack)]
  BY Running DEF IInv, Top
<1>1. /\ DOMAIN s = DOMAIN stack /\ s[Len(stack)] = f
      /\ \A j \in DOMAIN stack : j # Len(stack) => s[j] = stack[j]
  BY <1>0
<1> HIDE DEF s
<1>2. \A j \in DOMAIN stack : FrameIsDone(stack[j], more, D, Q)
  BY <1>0, FrameStaysDone DEF IInv, Sound, FrameFits, Progress, FramesDone
<1>3. FramesDone(s, more, D, Q)
  BY <1>1, <1>2 DEF FramesDone
<1>4. \A g : IsOpen(g, stack) => IsOpen(g, s)
  BY <1>0, <1>1 DEF IsOpen
<1>5. \A r : IsPending(r, stack) => IsPending(r, s)
  BY <1>0, <1>1 DEF IsPending
<1>6. FilesDone(C, s, more, D, Q)
  <2>1. \A g \in DOMAIN disk : \A p \in Starts(g) : disk[g][p] \in Statement
    BY TextOfFile
  <2>2. \A g \in C : g \in DOMAIN disk /\ (IsOpen(g, stack) \/ \A p \in Starts(g) : LineIsDone(g, p, objects, C, R))
    BY DEF Progress, FilesDone
  <2>3. \A g \in C : (\A p \in Starts(g) : LineIsDone(g, p, objects, C, R)) => \A p \in Starts(g) : LineIsDone(g, p, more, D, Q)
    BY <1>0, <2>1, <2>2, LineStaysDone
  <2> QED
    BY <1>4, <2>2, <2>3 DEF FilesDone
<1>7. RulesDone(R, s, more, Q)
  <2>1. \A r \in R : r[1] \in DOMAIN objects
    OBVIOUS
  <2>2. \A r \in R : \/ IsPending(r, stack)
                     \/ r[2] \in DOMAIN disk /\ \A p \in Starts(r[2]) : RuleLineIsDone(r[1], r[2], p, objects, R)
    BY DEF Progress, RulesDone
  <2>3. \A r \in R : \A p : RuleLineIsDone(r[1], r[2], p, objects, R) => RuleLineIsDone(r[1], r[2], p, more, Q)
    BY <1>0, <2>1, RuleLineStaysDone
  <2> QED
    BY <1>5, <2>2, <2>3 DEF RulesDone
<1> QED
  BY <1>3, <1>6, <1>7 DEF s

\* A call: the files that are new are those of the new frame.
LEMMA PushIsDone ==
    ASSUME NEW s \in Seq(Activation), NEW objs, NEW C, NEW D, NEW R, NEW Q,
           FramesDone(s, objs, D, Q), FilesDone(C, s, objs, D, Q), RulesDone(R, s, objs, Q),
           NEW f \in Activation, FrameIsDone(f, objs, D, Q),
           \A g \in D : g \in C \/ (g \in DOMAIN disk /\ f.kind = "config" /\ f.name = g),
           \A r \in Q : \/ r \in R
                        \/ /\ f.section = r[1]
                           /\ \/ f.kind = "rules" /\ f.name = r[2]
                              \/ f.kind = "folder" /\ \E k \in DOMAIN f.todo : f.todo[k] = r[2]
    PROVE  LET t == Append(s, f) IN
           FramesDone(t, objs, D, Q) /\ FilesDone(D, t, objs, D, Q) /\ RulesDone(Q, t, objs, Q)
<1> DEFINE t == Append(s, f)
<1>1. /\ t \in Seq(Activation) /\ Len(t) = Len(s) + 1
      /\ \A i \in 1 .. Len(s) : t[i] = s[i]
      /\ t[Len(s) + 1] = f
  BY AppendProperties
<1>2. DOMAIN t = 1 .. Len(s) + 1 /\ DOMAIN s = 1 .. Len(s) /\ Len(s) \in Nat
  BY <1>1, LenProperties
<1> HIDE DEF t
<1>3. /\ DOMAIN s \subseteq DOMAIN t /\ \A i \in DOMAIN s : t[i] = s[i]
      /\ Len(s) + 1 \in DOMAIN t /\ \A i \in DOMAIN t : i \in DOMAIN s \/ i = Len(s) + 1
  BY <1>1, <1>2
<1>4. FramesDone(t, objs, D, Q)
  BY <1>1, <1>3 DEF FramesDone
<1>5. FilesDone(D, t, objs, D, Q)
  BY <1>1, <1>3 DEF FilesDone, IsOpen
<1>6. RulesDone(Q, t, objs, Q)
  <2>1. \A r : IsPending(r, s) => IsPending(r, t)
    BY <1>3 DEF IsPending
  <2>2. \A r \in Q : r \in R \/ IsPending(r, t)
    BY <1>1, <1>3 DEF IsPending
  <2> QED
    BY <2>1, <2>2 DEF RulesDone
<1> QED
  BY <1>4, <1>5, <1>6 DEF t

\* A return: a text of which nothing is left has been done.
LEMMA PopIsDone ==
    ASSUME IInv, stack # <<>>, NEW C \in SUBSET DOMAIN disk, NEW R \in SUBSET ((DOMAIN objects) \X Name),
           NEW n, Progress(stack, objects, n, C, R),
           Top.kind = "folder" => Top.todo = <<>>,
           Top.kind # "folder" => \A p \in Starts(Top.name) : p < Top.pos
    PROVE  Progress(Callers, objects, n, C, R)
<1>1. /\ stack \in Seq(Activation) /\ Len(stack) \in DOMAIN stack /\ Top = stack[Len(stack)]
      /\ FrameFits(stack, Len(stack), Len(objects))
  BY Running DEF IInv, Sound, Top
<1>2. Callers \in Seq(Activation) /\ Len(Callers) = Len(stack) - 1 /\ \A i \in 1 .. Len(stack) - 1 : Callers[i] = stack[i]
  BY <1>1, WithoutLast DEF Callers
<1>3. DOMAIN Callers = 1 .. Len(stack) - 1 /\ DOMAIN stack = 1 .. Len(stack) /\ Len(stack) \in Nat
  BY <1>1, <1>2, LenProperties
<1>4. /\ DOMAIN Callers \subseteq DOMAIN stack /\ \A i \in DOMAIN Callers : Callers[i] = stack[i]
      /\ \A i \in DOMAIN stack : i \in DOMAIN Callers \/ i = Len(stack)
  BY <1>2, <1>3
<1>5. FramesDone(Callers, objects, C, R)
  BY <1>4 DEF Progress, FramesDone
<1>6. FrameIsDone(Top, objects, C, R)
  BY <1>1 DEF Progress, FramesDone
<1>7. FilesDone(C, Callers, objects, C, R)
  <2>1. \A g : IsOpen(g, stack) => IsOpen(g, Callers) \/ (Top.kind = "config" /\ Top.name = g)
    BY <1>1, <1>4 DEF IsOpen
  <2>2. Top.kind = "config" => \A p \in Starts(Top.name) : LineIsDone(Top.name, p, objects, C, R)
    BY <1>6 DEF FrameIsDone
  <2> QED
    BY <2>1, <2>2 DEF Progress, FilesDone
<1>8. RulesDone(R, Callers, objects, R)
  <2>1. Top.kind = "folder" => DOMAIN Top.todo = {}
    BY EmptySeq
  <2>2. \A r : IsPending(r, stack) =>
                   IsPending(r, Callers) \/ (Top.kind = "rules" /\ Top.section = r[1] /\ Top.name = r[2])
    BY <1>1, <1>4, <2>1 DEF IsPending
  <2>3. Top.kind = "rules" =>
            Top.name \in DOMAIN disk /\ \A p \in Starts(Top.name) : RuleLineIsDone(Top.section, Top.name, p, objects, R)
    BY <1>1, <1>6 DEF FrameIsDone, FrameFits
  <2> QED
    BY <2>2, <2>3 DEF Progress, RulesDone
<1> QED
  BY <1>5, <1>7, <1>8 DEF Progress

\* The chain that a call on top of s would belong to.
Links(s, kind, depth, section) ==
    \A j \in Len(s) + 1 - depth + 1 .. Len(s) :
        /\ s[j].kind = kind /\ s[j].depth = depth - (Len(s) + 1 - j)
        /\ kind = "rules" => s[j].section = section

LEMMA ChainPush ==
    ASSUME NEW n, NEW s, Sound(s, n), Chained(s), NEW f \in Activation, f.depth <= Len(s) + 1,
           Links(s, f.kind, f.depth, f.section)
    PROVE  Chained(Append(s, f))
<1> DEFINE t == Append(s, f)
<1>1. /\ s \in Seq(Activation) /\ t \in Seq(Activation) /\ Len(t) = Len(s) + 1
      /\ \A i \in 1 .. Len(s) : t[i] = s[i]
      /\ t[Len(s) + 1] = f
  BY AppendProperties DEF Sound
<1>2. DOMAIN t = 1 .. Len(s) + 1 /\ DOMAIN s = 1 .. Len(s) /\ Len(s) \in Nat /\ f.depth \in Nat
  BY <1>1, LenProperties DEF Activation
<1> HIDE DEF t
<1>3. ASSUME NEW i \in 1 .. Len(s) PROVE Linked(t, i)
  <2>1. s[i].depth \in Nat /\ s[i].depth <= i /\ Linked(s, i)
    BY <1>1, <1>2, Depths DEF Sound, FrameFits, Chained
  <2>2. \A j \in i - s[i].depth + 1 .. i - 1 : j \in 1 .. Len(s)
    BY <1>2, <2>1
  <2> QED
    BY <1>1, <2>1, <2>2 DEF Linked
<1>4. Linked(t, Len(s) + 1)
  <2>1. \A j \in (Len(s) + 1) - f.depth + 1 .. (Len(s) + 1) - 1 :
            /\ t[j].kind = f.kind /\ t[j].depth = f.depth - ((Len(s) + 1) - j)
            /\ f.kind = "rules" => t[j].section = f.section
    <3>1. \A j \in (Len(s) + 1) - f.depth + 1 .. (Len(s) + 1) - 1 :
              /\ j \in 1 .. Len(s) /\ j \in Len(s) + 1 - f.depth + 1 .. Len(s)
              /\ f.depth - ((Len(s) + 1) - j) = f.depth - (Len(s) + 1 - j)
      BY <1>2
    <3> QED
      BY <1>1, <3>1 DEF Links
  <2> QED
    BY <1>1, <2>1, Zenon DEF Linked
<1>5. \A i \in DOMAIN t : i \in 1 .. Len(s) \/ i = Len(s) + 1
  BY <1>2
<1>6. Chained(t)
  BY <1>3, <1>4, <1>5 DEF Chained
<1> QED
  BY <1>6 DEF t

LEMMA ChainReplace ==
    ASSUME NEW n, NEW s, s # <<>>, Sound(s, n), Chained(s), NEW f,
           f.kind = s[Len(s)].kind, f.depth = s[Len(s)].depth, f.kind = "rules" => f.section = s[Len(s)].section
    PROVE  Chained([s EXCEPT ![Len(s)] = f])
<1> DEFINE t == [s EXCEPT ![Len(s)] = f]
<1>1. s \in Seq(Activation) /\ Len(s) \in Nat \ {0} /\ DOMAIN s = 1 .. Len(s) /\ DOMAIN t = 1 .. Len(s)
  BY EmptySeq, LenProperties DEF Sound
<1>2. t[Len(s)] = f /\ \A i \in 1 .. Len(s) : i # Len(s) => t[i] = s[i]
  <2>1. Len(s) \in DOMAIN s
    BY <1>1
  <2> QED
    BY <1>1, <2>1
<1> HIDE DEF t
<1>3. ASSUME NEW i \in 1 .. Len(s) PROVE Linked(t, i)
  <2>1. s[i].depth \in Nat /\ s[i].depth <= i /\ Linked(s, i)
    BY <1>1, Depths DEF Sound, FrameFits, Chained
  <2>2. t[i].kind = s[i].kind /\ t[i].depth = s[i].depth /\ (t[i].kind = "rules" => t[i].section = s[i].section)
    BY <1>2
  <2>3. \A j \in i - s[i].depth + 1 .. i - 1 : j \in 1 .. Len(s) /\ j # Len(s)
    <3> DEFINE d == s[i].depth
               m == Len(s)
    <3>1. i \in Nat /\ m \in Nat /\ i <= m /\ d \in Nat /\ d <= i
      BY <1>1, <2>1
    <3> HIDE DEF d, m
    <3>2. \A j \in i - d + 1 .. i - 1 : j \in 1 .. m /\ j # m
      BY <3>1
    <3> QED
      BY <3>2 DEF d, m
  <2> QED
    BY <1>2, <2>1, <2>2, <2>3 DEF Linked
<1>4. Chained(t)
  BY <1>1, <1>3 DEF Chained
<1> QED
  BY <1>4 DEF t

LEMMA ChainPop ==
    ASSUME NEW n, NEW s, s # <<>>, Sound(s, n), Chained(s)
    PROVE  Chained(SubSeq(s, 1, Len(s) - 1))
<1> DEFINE t == SubSeq(s, 1, Len(s) - 1)
<1>1. s \in Seq(Activation) /\ Len(s) \in Nat \ {0} /\ DOMAIN s = 1 .. Len(s)
  BY EmptySeq, LenProperties DEF Sound
<1>2. t \in Seq(Activation) /\ Len(t) = Len(s) - 1 /\ \A i \in 1 .. Len(s) - 1 : t[i] = s[i]
  BY <1>1, WithoutLast
<1>3. DOMAIN t = 1 .. Len(s) - 1
  BY <1>2, LenProperties
<1> HIDE DEF t
<1>4. ASSUME NEW i \in DOMAIN t PROVE Linked(t, i)
  <2>1. i \in 1 .. Len(s) - 1 /\ i \in DOMAIN s
    BY <1>1, <1>3
  <2>2. s[i].depth \in Nat /\ s[i].depth <= i /\ Linked(s, i)
    BY <1>1, <2>1, Depths DEF Sound, FrameFits, Chained
  <2>3. \A j \in i - s[i].depth + 1 .. i - 1 : j \in 1 .. Len(s) - 1
    BY <1>1, <2>1, <2>2
  <2> QED
    BY <1>2, <2>1, <2>2, <2>3 DEF Linked
<1>5. Chained(t)
  BY <1>4 DEF Chained
<1> QED
  BY <1>5 DEF t

LEMMA FailIsChained ==
    ASSUME NEW kind, NEW callers, Sound(callers, Len(objects)), Chained(callers),
           NEW told, Fail(kind, callers, told)
    PROVE  Chained(stack')
<1>1. CASE Survives(kind, callers)
  BY <1>1, ChainPop DEF Fail, Survives, Resumed
<1>2. CASE ~Survives(kind, callers)
  BY <1>2, EmptySeq DEF Fail, Chained
<1> QED
  BY <1>1, <1>2

LEMMA CallIsChained ==
    ASSUME NEW kind \in {"config", "rules"}, NEW name \in Name, NEW callers, Sound(callers, Len(objects)),
           Chained(callers), NEW depth \in Nat, depth <= Len(callers) + 1, NEW section \in Nat,
           Links(callers, kind, depth, section), Call(kind, name, callers, depth, section)
    PROVE  Chained(stack')
<1>1. CASE name \in DOMAIN disk
  <2> DEFINE f == Frame(kind, name, depth, section, <<>>)
  <2>1. <<>> \in Seq(Name)
    BY EmptySeq
  <2>2. f \in Activation /\ f.kind = kind /\ f.depth = depth /\ f.section = section
    BY <2>1 DEF Frame, Activation
  <2>3. stack' = Append(callers, f)
    BY <1>1 DEF Call
  <2> HIDE DEF f
  <2> QED
    BY <2>2, <2>3, ChainPush
<1>2. CASE name \notin DOMAIN disk
  BY <1>2, FailIsChained DEF Call
<1> QED
  BY <1>1, <1>2

\* The first of a chain.
LEMMA FirstLinks ==
    ASSUME NEW s \in Seq(Activation), NEW kind, NEW depth \in {0, 1}, NEW section
    PROVE  Links(s, kind, depth, section)
BY LenProperties DEF Links

LEMMA AdvancedIsChained ==
    ASSUME IInv, HasLine, Chained(stack)
    PROVE  Chained(Advanced)
BY LineIsRead, ChainReplace DEF IInv, HasLine, Reading, Advanced, Top

LEMMA IncludeLinks ==
    ASSUME IInv, HasLine, Chained(stack), NEW section, Top.kind = "rules" => section = Top.section
    PROVE  Links(Advanced, Top.kind, Top.depth + 1, section)
<1>1. /\ stack # <<>> /\ Len(stack) \in Nat \ {0} /\ stack \in Seq(Activation) /\ Top \in Activation
      /\ Top = stack[Len(stack)] /\ Top.depth \in Nat /\ Top.depth <= Len(stack)
      /\ Linked(stack, Len(stack))
  BY Running, Depths DEF HasLine, Reading, IInv, Sound, FrameFits, Top, Chained
<1>2. After.kind = Top.kind /\ After.depth = Top.depth /\ After.section = Top.section
  BY LineIsRead
<1>3. Advanced[Len(stack)] = After /\ \A j \in 1 .. Len(stack) - 1 : Advanced[j] = stack[j]
  BY <1>1, LenProperties DEF Advanced
<1>4. Len(Advanced) = Len(stack)
  BY GoesOn
<1>5. ASSUME NEW j \in Len(stack) + 1 - (Top.depth + 1) + 1 .. Len(stack)
      PROVE  /\ Advanced[j].kind = Top.kind
             /\ Advanced[j].depth = Top.depth + 1 - (Len(stack) + 1 - j)
             /\ Top.kind = "rules" => Advanced[j].section = section
  <2>1. CASE j = Len(stack)
    BY <1>1, <1>2, <1>3, <2>1
  <2>2. CASE j # Len(stack)
    <3>1. j \in Len(stack) - Top.depth + 1 .. Len(stack) - 1 /\ j \in 1 .. Len(stack) - 1
      BY <1>1, <2>2
    <3>2. /\ stack[j].kind = Top.kind /\ stack[j].depth = Top.depth - (Len(stack) - j)
          /\ Top.kind = "rules" => stack[j].section = Top.section
      BY <1>1, <3>1 DEF Linked
    <3>3. Top.depth - (Len(stack) - j) = Top.depth + 1 - (Len(stack) + 1 - j)
      BY <1>1, <3>1
    <3> QED
      BY <1>3, <3>1, <3>2, <3>3
  <2> QED
    BY <2>1, <2>2
<1>6. \A j \in Len(Advanced) + 1 - (Top.depth + 1) + 1 .. Len(Advanced) :
          /\ Advanced[j].kind = Top.kind /\ Advanced[j].depth = Top.depth + 1 - (Len(Advanced) + 1 - j)
          /\ Top.kind = "rules" => Advanced[j].section = section
  BY <1>4, <1>5, Zenon
<1>7. \A j \in Len(Advanced) + 1 - (Top.depth + 1) + 1 .. Len(Advanced) :
          Top.depth + 1 - (Len(Advanced) + 1 - j) = (Top.depth + 1) - (Len(Advanced) + 1 - j)
  BY <1>1, <1>4
<1> QED
  BY <1>6, <1>7, Zenon DEF Links

LEMMA StepIsChained == IInv /\ Chained(stack) /\ [Next]_vars => Chained(stack')
<1> SUFFICES ASSUME IInv, Chained(stack), [Next]_vars PROVE Chained(stack') OBVIOUS
<1>0. Chained(<<>>) /\ Len(objects) \in Nat
  BY EmptySeq, LenProperties DEF Chained, IInv, Known
<1>1. CASE stack' = stack \/ stack' = <<>>
  BY <1>0, <1>1
<1>2. CASE Comment \/ Set \/ Service \/ Route
  BY <1>2, AdvancedIsChained DEF Comment, Set, Service, Route, InConfig
<1>3. CASE Section
  <2>1. HasLine /\ stack # <<>> /\ Top.kind = "config"
    BY <1>3 DEF Section, InConfig, HasLine, Reading
  <2>2. After \in Activation /\ After.kind = Top.kind /\ After.depth = Top.depth
    BY <2>1, LineIsRead
  <2> DEFINE f == [After EXCEPT !.section = Place(objects', Line.kind, Line.name)]
  <2>3. f.kind = Top.kind /\ f.depth = Top.depth /\ stack' = [stack EXCEPT ![Len(stack)] = f]
    BY <1>3, <2>2 DEF Section, Activation
  <2> HIDE DEF f
  <2> QED
    BY <2>1, <2>3, ChainReplace DEF Top, IInv
<1>4. CASE ParseFails \/ EndOfFile
  <2>1. stack # <<>> /\ (stack' = Callers \/ \E told : Fail(Top.kind, Callers, told))
    BY <1>4 DEF ParseFails, EndOfFile, HasLine, Reading
  <2>2. Sound(Callers, Len(objects)) /\ Chained(Callers)
    BY <2>1, CallersSound, ChainPop DEF Callers, IInv
  <2> QED
    BY <2>1, <2>2, FailIsChained
<1>5. CASE Include
  <2> DEFINE section == IF Top.kind = "config" THEN NoSection ELSE Top.section
  <2>1. HasLine /\ stack # <<>>
    BY <1>5 DEF Include, HasLine, Reading
  <2>2. Sound(Advanced, Len(objects)) /\ Chained(Advanced) /\ Len(Advanced) = Len(stack)
    BY <2>1, GoesOn, AdvancedIsChained
  <2>3. /\ Top.depth + 1 \in Nat /\ section \in Nat /\ Line.name \in Name
        /\ Top.kind \in {"config", "rules"} /\ Top.depth + 1 <= Len(Advanced) + 1
    <3>1. Top \in Activation /\ FrameFits(stack, Len(stack), Len(objects)) /\ Len(stack) \in Nat
      BY <2>1, Running
    <3>2. Line.name \in Name
      BY <1>5, <2>1, LineIsRead, Carried DEF Include
    <3> QED
      BY <2>1, <2>2, <3>1, <3>2 DEF FrameFits, Top, Activation, NoSection, HasLine, Reading
  <2>4. Links(Advanced, Top.kind, Top.depth + 1, section)
    BY <2>1, <2>3, IncludeLinks
  <2>5. stack' = Advanced \/ Call(Top.kind, Line.name, Advanced, Top.depth + 1, section)
    BY <1>5 DEF Include
  <2> HIDE DEF section
  <2> QED
    BY <2>2, <2>3, <2>4, <2>5, CallIsChained
<1>6. CASE RouteFile
  <2>1. HasLine /\ stack # <<>> /\ Call("rules", Line.name, Advanced, 1, Top.section) /\ Line.name \in Name
    BY <1>6, LineIsRead, Carried DEF RouteFile, InConfig, HasLine, Reading
  <2>2. Sound(Advanced, Len(objects)) /\ Chained(Advanced) /\ Advanced \in Seq(Activation) /\ Top.section \in Nat
    BY <2>1, GoesOn, AdvancedIsChained, Running DEF Sound, Activation
  <2>3. 1 <= Len(Advanced) + 1
    BY <2>2, LenProperties
  <2> QED
    BY <2>1, <2>2, <2>3, FirstLinks, CallIsChained
<1>7. CASE RouteDir
  <2> DEFINE f == Frame("folder", Line.name, 0, Top.section, AsListed(Line.name))
  <2>1. HasLine /\ stack # <<>> /\ stack' = Append(Advanced, f) /\ Line.name \in Name /\ AsListed(Line.name) \in Seq(Name)
    BY <1>7, LineIsRead, Carried, ConfigAssumption DEF RouteDir, InConfig, HasLine, Reading
  <2>2. Sound(Advanced, Len(objects)) /\ Chained(Advanced) /\ Advanced \in Seq(Activation) /\ Top.section \in Nat
    BY <2>1, GoesOn, AdvancedIsChained, Running DEF Sound, Activation
  <2>3. f \in Activation /\ f.depth = 0
    BY <2>1, <2>2 DEF Frame, Activation
  <2> HIDE DEF f
  <2>4. f.depth <= Len(Advanced) + 1
    BY <2>2, <2>3, LenProperties
  <2>5. Links(Advanced, f.kind, f.depth, f.section)
    BY <2>2, <2>3, FirstLinks
  <2> QED
    BY <2>1, <2>2, <2>3, <2>4, <2>5, ChainPush
<1>8. CASE NextInFolder
  <2>1. stack # <<>> /\ Top.kind = "folder" /\ Top \in Activation /\ Top.section \in Nat
    BY <1>8, Running DEF NextInFolder, Activation
  <2>2. CASE Top.todo = <<>>
    BY <1>8, <2>1, <2>2, ChainPop DEF NextInFolder, Callers, IInv
  <2>3. CASE Top.todo # <<>>
    <3> DEFINE f == [Top EXCEPT !.todo = Tail(@)]
               callers == [stack EXCEPT ![Len(stack)] = f]
    <3>1. Call("rules", Head(Top.todo), callers, 1, Top.section)
      BY <1>8, <2>3 DEF NextInFolder, Top
    <3>2. Head(Top.todo) \in Name /\ Tail(Top.todo) \in Seq(Name)
      BY <2>1, <2>3, HeadTailProperties DEF Activation
    <3>3. f \in Activation /\ f.kind = Top.kind /\ f.name = Top.name /\ f.depth = Top.depth /\ f.section = Top.section
      BY <2>1, <3>2 DEF Activation
    <3>4. Top.section \in 0 .. Len(objects) /\ Top.section # 0
      BY <2>1, Running DEF FrameFits, Top
    <3> HIDE DEF f
    <3>5. Sound(callers, Len(objects)) /\ Chained(callers)
      BY <1>0, <2>1, <3>3, <3>4, StackReplace, ChainReplace DEF Top, IInv
    <3> HIDE DEF callers
    <3>6. callers \in Seq(Activation) /\ 1 <= Len(callers) + 1
      BY <3>5, LenProperties DEF Sound
    <3> QED
      BY <2>1, <3>1, <3>2, <3>5, <3>6, FirstLinks, CallIsChained
  <2> QED
    BY <2>2, <2>3
<1>9. CASE LoadConfig
  <2>1. Call("config", options[optind].name, <<>>, 1, NoSection) /\ options[optind].name \in Name
    BY <1>9, OptionName DEF LoadConfig, NextOption
  <2>2. Sound(<<>>, Len(objects)) /\ <<>> \in Seq(Activation) /\ 1 <= Len(<<>>) + 1
    BY NothingRuns, EmptySeq
  <2> QED
    BY <1>0, <2>1, <2>2, FirstLinks, CallIsChained DEF NoSection
<1> QED
  BY <1>1, <1>2, <1>3, <1>4, <1>5, <1>6, <1>7, <1>8, <1>9 DEF Next, vars, NotUnderstood, Exits, SetMain,
     Serve, StartFails

\* As no file is in a chain twice, a chain is not longer than there are files.
LEMMA ChainIsShort ==
    ASSUME IInv, Chained(stack), FewFiles, stack # <<>>, Top.kind # "folder"
    PROVE  Top.depth < MaxDepth
<1> DEFINE n == Len(stack)
           d == Top.depth
           S == n - d + 1 .. n
           f == [j \in S |-> stack[j].name]
<1>1. /\ n \in Nat \ {0} /\ n \in DOMAIN stack /\ stack \in Seq(Activation) /\ Top = stack[n] /\ d \in Nat /\ d <= n
      /\ Linked(stack, n) /\ DOMAIN stack = 1 .. n /\ \A i \in DOMAIN stack : FrameFits(stack, i, Len(objects))
  BY Running, Depths, LenProperties DEF IInv, Sound, FrameFits, Top, Chained
<1> HIDE DEF n, d
<1>2. \A j \in S : j \in DOMAIN stack /\ stack[j].kind = Top.kind /\ stack[j].depth = d - (n - j)
  <2> SUFFICES ASSUME NEW j \in S PROVE j \in DOMAIN stack /\ stack[j].kind = Top.kind /\ stack[j].depth = d - (n - j)
    OBVIOUS
  <2>1. j \in DOMAIN stack
    BY <1>1
  <2>2. CASE j = n
    BY <1>1, <2>2 DEF d
  <2>3. CASE j # n
    <3>1. j \in n - stack[n].depth + 1 .. n - 1
      BY <1>1, <2>3 DEF d
    <3> QED
      BY <1>1, <2>1, <3>1 DEF Linked, d
  <2> QED
    BY <2>1, <2>2, <2>3
<1>3. f \in [S -> DOMAIN disk]
  BY <1>1, <1>2 DEF FrameFits
<1>4. ASSUME NEW x \in S, NEW y \in S, x < y
      PROVE  f[x] # f[y]
  <2>1. x \in y - stack[y].depth + 1 .. y - 1
    BY <1>1, <1>2, <1>4
  <2> QED
    BY <1>1, <1>2, <2>1 DEF FrameFits
<1>5. \A x, y \in S : x # y => f[x] # f[y]
  <2>1. \A x, y \in S : x # y => x < y \/ y < x
    BY <1>1
  <2> QED
    BY <1>4, <2>1
<1>6. IsFiniteSet(S) /\ Cardinality(S) = d
  <2>1. n - d + 1 \in Int /\ n \in Int
    BY <1>1
  <2>2. IsFiniteSet(S) /\ Cardinality(S) = IF n - d + 1 > n THEN 0 ELSE n - (n - d + 1) + 1
    BY <2>1, FS_Interval
  <2> QED
    BY <1>1, <2>2
<1>7. ~ (Cardinality(DOMAIN disk) < Cardinality(S))
  <2> HIDE DEF S, f
  <2> QED
    BY <1>3, <1>5, <1>6, FS_PigeonHole DEF FewFiles
<1>8. Cardinality(DOMAIN disk) \in Nat /\ Cardinality(DOMAIN disk) < MaxDepth
  BY FS_CardinalityType DEF FewFiles
<1> QED
  BY <1>1, <1>6, <1>7, <1>8, ConfigAssumption DEF d

\* The line that has been read is done, and everything else stays so.
LEMMA TopIsDone ==
    ASSUME IInv, stack # <<>>, NEW C, NEW R, NEW n, Progress(stack, objects, n, C, R)
    PROVE  FrameIsDone(Top, objects, C, R)
BY Running DEF Progress, FramesDone, Top

LEMMA NothingLeft ==
    ASSUME IInv, Reading, Ends = {}
    PROVE  \A p \in Starts(Top.name) : p < Top.pos
<1>1. Top \in Activation /\ Top.name \in DOMAIN disk
  BY Running DEF Reading, FrameFits, Top
<1>2. DOMAIN Text = 1 .. Len(Text) /\ Len(Text) \in Nat /\ Starts(Top.name) \subseteq Nat /\ Top.pos \in Nat
  BY <1>1, TextOfFile DEF Text, Activation
<1>3. ASSUME NEW p \in Starts(Top.name), ~ (p < Top.pos)
      PROVE  FALSE
  <2>1. PICK q \in DOMAIN Text : p < q /\ Text[q] \in Break
    BY DEF Starts, Text
  <2>2. Begin <= Top.pos + 1 /\ Begin \in Nat
    BY <1>2 DEF Begin
  <2>3. q \in Begin .. Len(Text)
    BY <1>2, <1>3, <2>1, <2>2
  <2> QED
    BY <2>1, <2>3 DEF Ends
<1> QED
  BY <1>3

LEMMA LineGoesOn ==
    ASSUME IInv, CallsAreWritten(stack, objects), HasLine, NEW more, Adds(objects, more),
           NEW C \in SUBSET DOMAIN disk, NEW D, C \subseteq D,
           NEW R \in SUBSET ((DOMAIN objects) \X Name), NEW Q, R \subseteq Q,
           NEW n, Progress(stack, objects, n, C, R),
           NEW f, f.kind = Top.kind, f.name = Top.name, f.pos = After.pos,
           Top.kind = "rules" => f.section = Top.section,
           f.kind = "config" /\ f.section # 0 => IsCalled(f.section, more[f.section].kind, more[f.section].name, more),
           Top.kind = "config" /\ Begin \in Starts(Top.name) /\ disk[Top.name][Begin] = Line
               => LineIsDone(Top.name, Begin, more, D, Q),
           Top.kind = "rules" /\ Begin \in Starts(Top.name) /\ disk[Top.name][Begin] = Line
               => RuleLineIsDone(Top.section, Top.name, Begin, more, Q)
    PROVE  LET s == [stack EXCEPT ![Len(stack)] = f] IN
           /\ FramesDone(s, more, D, Q) /\ FilesDone(C, s, more, D, Q) /\ RulesDone(R, s, more, Q)
           /\ OptionsDone(n, more, D)
<1>1. stack # <<>> /\ Top.kind # "folder" /\ Top \in Activation
  BY Running DEF HasLine, Reading
<1>2. FrameIsDone(Top, objects, C, R)
  BY <1>1, TopIsDone
<1>3. AtLineStart(Top)
  BY <1>1, TopIsWritten DEF FrameIsWritten
<1>4. FrameIsDone(f, more, D, Q)
  BY <1>2, <1>3, NextIsDone
<1>5. OptionsDone(n, more, D)
  BY OptionsStayDone DEF IInv, Progress
<1>6. f.kind # "folder" /\ (f.kind # "config" => f.section = Top.section)
  BY <1>1 DEF Activation
<1> QED
  BY <1>1, <1>4, <1>5, <1>6, OthersStayDone

LEMMA AdvancedIsDone ==
    ASSUME IInv, CallsAreWritten(stack, objects), HasLine, NEW more, Adds(objects, more),
           NEW C \in SUBSET DOMAIN disk, NEW D, C \subseteq D,
           NEW R \in SUBSET ((DOMAIN objects) \X Name), NEW Q, R \subseteq Q,
           NEW n, Progress(stack, objects, n, C, R),
           Top.kind = "config" /\ Begin \in Starts(Top.name) /\ disk[Top.name][Begin] = Line
               => LineIsDone(Top.name, Begin, more, D, Q),
           Top.kind = "rules" /\ Begin \in Starts(Top.name) /\ disk[Top.name][Begin] = Line
               => RuleLineIsDone(Top.section, Top.name, Begin, more, Q)
    PROVE  /\ FramesDone(Advanced, more, D, Q) /\ FilesDone(C, Advanced, more, D, Q)
           /\ RulesDone(R, Advanced, more, Q) /\ OptionsDone(n, more, D)
<1>1. After.kind = Top.kind /\ After.name = Top.name /\ After.section = Top.section
  BY LineIsRead
<1>2. stack # <<>> /\ FrameIsDone(Top, objects, C, R)
  BY TopIsDone DEF HasLine, Reading
<1>3. Known(objects) /\ Top.section \in 0 .. Len(objects) /\ (Top.section # 0 => Top.section \in DOMAIN objects)
  BY <1>2, Running, LenProperties DEF IInv, FrameFits, Top, Known
<1>4. Top.kind = "config" /\ Top.section # 0 => IsCalled(Top.section, more[Top.section].kind, more[Top.section].name, more)
  BY <1>2, <1>3 DEF FrameIsDone, Adds, AddsTo, IsCalled
<1> QED
  BY <1>1, <1>4, LineGoesOn DEF Advanced

LEMMA SameAdds == IInv => Adds(objects, objects)
BY DEF Adds, AddsTo

LEMMA CommentIsThorough ==
    ASSUME IInv, CallsAreWritten(stack, objects), Comment, ReadSoFar(stack, objects, optind)
    PROVE  ReadSoFar(stack', objects', optind')
<1>1. PICK C \in SUBSET DOMAIN disk : \E R \in SUBSET ((DOMAIN objects) \X Name) : Progress(stack, objects, optind, C, R)
  BY DEF ReadSoFar
<1>2. PICK R \in SUBSET ((DOMAIN objects) \X Name) : Progress(stack, objects, optind, C, R)
  BY <1>1
<1>3. HasLine /\ Line.op = "comment" /\ stack' = Advanced /\ UNCHANGED <<optind, objects>>
  BY DEF Comment
<1>4. disk[Top.name][Begin] = Line => LineIsDone(Top.name, Begin, objects, C, R)
  BY <1>3 DEF LineIsDone
<1>5. disk[Top.name][Begin] = Line => RuleLineIsDone(Top.section, Top.name, Begin, objects, R)
  BY <1>3 DEF RuleLineIsDone
<1>6. Progress(Advanced, objects, optind, C, R)
  BY <1>2, <1>3, <1>4, <1>5, SameAdds, AdvancedIsDone DEF Progress
<1> QED
  BY <1>3, <1>6 DEF ReadSoFar

LEMMA EndOfFileIsThorough ==
    ASSUME IInv, EndOfFile, ReadSoFar(stack, objects, optind)
    PROVE  ReadSoFar(stack', objects', optind')
<1>1. stack # <<>> /\ Top.kind # "folder" /\ stack' = Callers /\ UNCHANGED <<optind, objects>>
  BY DEF EndOfFile, Reading
<1>2. \A p \in Starts(Top.name) : p < Top.pos
  BY NothingLeft DEF EndOfFile
<1> QED
  BY <1>1, <1>2, PopIsDone DEF ReadSoFar

\* The files that a line names are called, or being read.
LEMMA OpenIsTaken ==
    ASSUME IInv, Chained(stack), FewFiles, HasLine, NEW C, NEW R, NEW n, Progress(stack, objects, n, C, R),
           NEW name, Blocked(name)
    PROVE  /\ Top.kind = "config" => name \in C
           /\ Top.kind = "rules" => <<Top.section, name>> \in R
<1>1. /\ stack # <<>> /\ Top.kind # "folder" /\ stack \in Seq(Activation) /\ Len(stack) \in Nat \ {0}
      /\ Top = stack[Len(stack)] /\ Top.depth \in Nat /\ Top.depth <= Len(stack) /\ Linked(stack, Len(stack))
      /\ DOMAIN stack = 1 .. Len(stack)
  BY Running, Depths, LenProperties DEF HasLine, Reading, IInv, Sound, FrameFits, Top, Chained
<1>2. Top.depth < MaxDepth
  BY <1>1, ChainIsShort
<1>3. PICK j \in Len(stack) - Top.depth + 1 .. Len(stack) : stack[j].name = name
  BY <1>1, <1>2, ConfigAssumption DEF Blocked
<1>4. j \in DOMAIN stack /\ stack[j].kind = Top.kind /\ (Top.kind = "rules" => stack[j].section = Top.section)
  <2>1. CASE j = Len(stack)
    BY <1>1, <2>1
  <2>2. CASE j # Len(stack)
    <3>0. /\ Len(stack) \in Nat \ {0} /\ Top.depth \in Nat /\ Top.depth <= Len(stack) /\ j # Len(stack)
          /\ j \in Len(stack) - Top.depth + 1 .. Len(stack)
      BY <1>1, <1>3, <2>2
    <3>1. j \in Len(stack) - Top.depth + 1 .. Len(stack) - 1 /\ j \in DOMAIN stack
      <4>1. j \in Len(stack) - Top.depth + 1 .. Len(stack) - 1 /\ j \in 1 .. Len(stack)
        BY <3>0
      <4> QED
        BY <1>1, <4>1
    <3>2. j \in Len(stack) - stack[Len(stack)].depth + 1 .. Len(stack) - 1
      BY <1>1, <3>1, Zenon
    <3> QED
      BY <1>1, <3>1, <3>2 DEF Linked
  <2> QED
    BY <2>1, <2>2
<1>5. FrameIsDone(stack[j], objects, C, R)
  BY <1>4 DEF Progress, FramesDone
<1> QED
  BY <1>3, <1>4, <1>5 DEF FrameIsDone

LEMMA CallIsDone ==
    ASSUME IInv, NEW kind \in {"config", "rules"}, NEW name \in Name, NEW callers \in Seq(Activation),
           NEW depth \in Nat, NEW section \in Nat, Call(kind, name, callers, depth, section), ~lost',
           NEW C, NEW D, NEW P, NEW Q,
           FramesDone(callers, objects, D, Q), FilesDone(C, callers, objects, D, Q), RulesDone(P, callers, objects, Q),
           kind = "config" => section = 0 /\ name \in D,
           \A g \in D : g \in C \/ (kind = "config" /\ g = name),
           kind = "rules" => <<section, name>> \in Q,
           \A r \in Q : r \in P \/ (kind = "rules" /\ r = <<section, name>>)
    PROVE  name \in DOMAIN disk
           /\ FramesDone(stack', objects, D, Q) /\ FilesDone(D, stack', objects, D, Q) /\ RulesDone(Q, stack', objects, Q)
<1> DEFINE f == Frame(kind, name, depth, section, <<>>)
<1>1. name \in DOMAIN disk /\ stack' = Append(callers, f)
  BY DEF Call, Fail
<1>2. <<>> \in Seq(Name)
  BY EmptySeq
<1>3. f \in Activation /\ f.kind = kind /\ f.name = name /\ f.pos = 1 /\ f.section = section
  BY <1>2 DEF Frame, Activation
<1> HIDE DEF f
<1>4. \A p \in Starts(name) : ~ (p < 1)
  BY <1>1, TextOfFile
<1>5. FrameIsDone(f, objects, D, Q)
  BY <1>3, <1>4 DEF FrameIsDone
<1>6. /\ \A g \in D : g \in C \/ (g \in DOMAIN disk /\ f.kind = "config" /\ f.name = g)
      /\ \A r \in Q : r \in P \/ (f.section = r[1] /\ f.kind = "rules" /\ f.name = r[2])
  BY <1>1, <1>3
<1> QED
  BY <1>1, <1>3, <1>5, <1>6, PushIsDone

\* A line of an open section has been done, if it is done to its object.
LEMMA DoneInSection ==
    ASSUME IInv, CallsAreWritten(stack, objects), NEW op \in InOpenSection, InConfig(op), SectionKind # None,
           NEW C, NEW R, NEW n, Progress(stack, objects, n, C, R), NEW more, Adds(objects, more), NEW D, NEW Q,
           IsTaken(Line, Top.name, Top.section, more, Q)
    PROVE  LineIsDone(Top.name, Begin, more, D, Q)
<1>1. op # "comment" /\ Line.op = op /\ Line.op \notin {"include", "section", "comment"} /\ Top.kind = "config"
      /\ stack # <<>>
  BY DEF InOpenSection, InConfig, HasLine, Reading
<1>2. Top.section \in DOMAIN objects /\ disk[Top.name][Begin] = Line
      /\ InSection(Top.name, Begin, objects[Top.section].kind, objects[Top.section].name)
  BY <1>1, SaidInSection
<1>3. Top.section # 0
  BY <1>2, LenProperties DEF IInv, Known
<1>4. IsCalled(Top.section, objects[Top.section].kind, objects[Top.section].name, objects)
  BY <1>1, <1>3, TopIsDone DEF FrameIsDone
<1>5. /\ Top.section \in DOMAIN more /\ more[Top.section].kind = objects[Top.section].kind
      /\ more[Top.section].name = objects[Top.section].name
  BY <1>2 DEF Adds, AddsTo
<1>6. /\ InSection(Top.name, Begin, more[Top.section].kind, more[Top.section].name)
      /\ IsCalled(Top.section, more[Top.section].kind, more[Top.section].name, more)
  BY <1>2, <1>4, <1>5 DEF IsCalled
<1> QED
  BY <1>1, <1>2, <1>5, <1>6 DEF LineIsDone

LEMMA IncludeIsThorough ==
    ASSUME IInv, CallsAreWritten(stack, objects), Chained(stack), FewFiles, Include, ~lost',
           ReadSoFar(stack, objects, optind)
    PROVE  ReadSoFar(stack', objects', optind')
<1>1. PICK C \in SUBSET DOMAIN disk : \E R \in SUBSET ((DOMAIN objects) \X Name) : Progress(stack, objects, optind, C, R)
  BY DEF ReadSoFar
<1>2. PICK R \in SUBSET ((DOMAIN objects) \X Name) : Progress(stack, objects, optind, C, R)
  BY <1>1
<1>3. /\ HasLine /\ stack # <<>> /\ Line.op = (IF Top.kind = "config" THEN "include" ELSE "routeFile")
      /\ UNCHANGED <<optind, objects>>
  BY DEF Include, HasLine, Reading
<1>4. /\ Top \in Activation /\ Top.kind \in {"config", "rules"} /\ Top.depth + 1 \in Nat /\ Line.name \in Name
      /\ Top.section \in 0 .. Len(objects) /\ (Top.kind = "rules" => Top.section \in DOMAIN objects)
  <2>1. Top \in Activation /\ FrameFits(stack, Len(stack), Len(objects)) /\ Top = stack[Len(stack)]
    BY <1>3, Running DEF Top
  <2>2. Line.name \in Name
    BY <1>3, LineIsRead, Carried
  <2>3. DOMAIN objects = 1 .. Len(objects) /\ Len(objects) \in Nat
    BY LenProperties DEF IInv, Known
  <2> QED
    BY <1>3, <2>1, <2>2, <2>3 DEF FrameFits, Activation, HasLine, Reading
<1>5. ASSUME NEW D, C \subseteq D, NEW Q, R \subseteq Q,
             Top.kind = "config" => Line.name \in D, Top.kind = "rules" => <<Top.section, Line.name>> \in Q
      PROVE  /\ FramesDone(Advanced, objects, D, Q) /\ FilesDone(C, Advanced, objects, D, Q)
             /\ RulesDone(R, Advanced, objects, Q) /\ OptionsDone(optind, objects, D)
  <2>1. Top.kind = "config" /\ disk[Top.name][Begin] = Line => LineIsDone(Top.name, Begin, objects, D, Q)
    BY <1>3, <1>5 DEF LineIsDone
  <2>2. Top.kind = "rules" /\ disk[Top.name][Begin] = Line => RuleLineIsDone(Top.section, Top.name, Begin, objects, Q)
    BY <1>3, <1>5 DEF RuleLineIsDone
  <2> QED
    BY <1>2, <1>3, <1>5, <2>1, <2>2, SameAdds, AdvancedIsDone
<1>6. CASE Blocked(Line.name)
  <2>1. stack' = Advanced
    BY <1>6 DEF Include
  <2>2. Progress(Advanced, objects, optind, C, R)
    BY <1>2, <1>3, <1>5, <1>6, OpenIsTaken DEF Progress
  <2> QED
    BY <1>3, <2>1, <2>2 DEF ReadSoFar
<1>7. CASE ~Blocked(Line.name)
  <2> DEFINE D == IF Top.kind = "config" THEN C \cup {Line.name} ELSE C
             Q == IF Top.kind = "rules" THEN R \cup {<<Top.section, Line.name>>} ELSE R
             section == IF Top.kind = "config" THEN NoSection ELSE Top.section
  <2>1. Call(Top.kind, Line.name, Advanced, Top.depth + 1, section)
    BY <1>7 DEF Include
  <2>2. /\ C \subseteq D /\ R \subseteq Q
        /\ Top.kind = "config" => Line.name \in D /\ section = 0
        /\ Top.kind = "rules" => <<Top.section, Line.name>> \in Q /\ section = Top.section
        /\ \A g \in D : g \in C \/ (Top.kind = "config" /\ g = Line.name)
        /\ \A r \in Q : r \in R \/ (Top.kind = "rules" /\ r = <<Top.section, Line.name>>)
        /\ section \in Nat /\ Q \in SUBSET ((DOMAIN objects) \X Name)
    BY <1>4 DEF NoSection
  <2> HIDE DEF D, Q, section
  <2>3. Advanced \in Seq(Activation)
    BY <1>3, GoesOn DEF Sound
  <2>4. /\ Line.name \in DOMAIN disk /\ FramesDone(stack', objects, D, Q) /\ FilesDone(D, stack', objects, D, Q)
        /\ RulesDone(Q, stack', objects, Q) /\ OptionsDone(optind, objects, D)
    <3>1. /\ FramesDone(Advanced, objects, D, Q) /\ FilesDone(C, Advanced, objects, D, Q)
          /\ RulesDone(R, Advanced, objects, Q) /\ OptionsDone(optind, objects, D)
      BY <1>5, <2>2
    <3>2. Top.kind = "rules" => <<section, Line.name>> \in Q
      BY <2>2
    <3>3. \A r \in Q : r \in R \/ (Top.kind = "rules" /\ r = <<section, Line.name>>)
      BY <2>2
    <3> QED
      BY <1>4, <2>1, <2>2, <2>3, <3>1, <3>2, <3>3, CallIsDone
  <2>5. D \in SUBSET DOMAIN disk
    BY <2>2, <2>4
  <2> QED
    BY <1>3, <2>2, <2>4, <2>5 DEF ReadSoFar, Progress
<1> QED
  BY <1>6, <1>7

LEMMA RouteFileIsThorough ==
    ASSUME IInv, CallsAreWritten(stack, objects), RouteFile, ~lost', ReadSoFar(stack, objects, optind)
    PROVE  ReadSoFar(stack', objects', optind')
<1>1. PICK C \in SUBSET DOMAIN disk : \E R \in SUBSET ((DOMAIN objects) \X Name) : Progress(stack, objects, optind, C, R)
  BY DEF ReadSoFar
<1>2. PICK R \in SUBSET ((DOMAIN objects) \X Name) : Progress(stack, objects, optind, C, R)
  BY <1>1
<1> DEFINE Q == R \cup {<<Top.section, Line.name>>}
<1>3. /\ HasLine /\ InConfig("routeFile") /\ Line.op = "routeFile" /\ Top.kind = "config" /\ SectionKind = "proxy"
      /\ Call("rules", Line.name, Advanced, 1, Top.section) /\ UNCHANGED <<optind, objects>>
  BY DEF RouteFile, InConfig
<1>4. Line.name \in Name /\ Top.section \in DOMAIN objects /\ Top.section \in Nat /\ SectionKind # None
      /\ objects[Top.section].kind = "proxy"
  BY <1>3, LineIsRead, Carried, ProxySection, OpenSection, ConfigAssumption, LenProperties DEF IInv, Known, Kinds
<1>5. Advanced \in Seq(Activation)
  BY <1>3, GoesOn DEF Sound
<1>6. R \subseteq Q /\ Q \in SUBSET ((DOMAIN objects) \X Name) /\ <<Top.section, Line.name>> \in Q
      /\ \A r \in Q : r \in R \/ r = <<Top.section, Line.name>>
  BY <1>4
<1> HIDE DEF Q
<1>7. IsTaken(Line, Top.name, Top.section, objects, Q)
  BY <1>3, <1>4, <1>6 DEF IsTaken
<1>8. LineIsDone(Top.name, Begin, objects, C, Q)
  BY <1>2, <1>3, <1>4, <1>7, SameAdds, DoneInSection DEF InOpenSection
<1>9. /\ FramesDone(Advanced, objects, C, Q) /\ FilesDone(C, Advanced, objects, C, Q)
      /\ RulesDone(R, Advanced, objects, Q) /\ OptionsDone(optind, objects, C)
  BY <1>2, <1>3, <1>6, <1>8, SameAdds, AdvancedIsDone
<1>10. FramesDone(stack', objects, C, Q) /\ FilesDone(C, stack', objects, C, Q) /\ RulesDone(Q, stack', objects, Q)
  BY <1>3, <1>4, <1>5, <1>6, <1>9, CallIsDone
<1> QED
  BY <1>3, <1>6, <1>9, <1>10 DEF ReadSoFar, Progress

LEMMA RouteDirIsThorough ==
    ASSUME IInv, CallsAreWritten(stack, objects), RouteDir, ReadSoFar(stack, objects, optind)
    PROVE  ReadSoFar(stack', objects', optind')
<1>1. PICK C \in SUBSET DOMAIN disk : \E R \in SUBSET ((DOMAIN objects) \X Name) : Progress(stack, objects, optind, C, R)
  BY DEF ReadSoFar
<1>2. PICK R \in SUBSET ((DOMAIN objects) \X Name) : Progress(stack, objects, optind, C, R)
  BY <1>1
<1> DEFINE todo == AsListed(Line.name)
           f == Frame("folder", Line.name, 0, Top.section, todo)
           Q == R \cup {<<Top.section, todo[k]>> : k \in DOMAIN todo}
<1>3. /\ HasLine /\ InConfig("routeDir") /\ Line.op = "routeDir" /\ Top.kind = "config" /\ SectionKind = "proxy"
      /\ Line.name \in DOMAIN Folders /\ stack' = Append(Advanced, f) /\ UNCHANGED <<optind, objects>>
  BY DEF RouteDir, InConfig
<1>4. Line.name \in Name /\ Top.section \in DOMAIN objects /\ Top.section \in Nat /\ SectionKind # None
      /\ objects[Top.section].kind = "proxy"
  BY <1>3, LineIsRead, Carried, ProxySection, OpenSection, ConfigAssumption, LenProperties DEF IInv, Known, Kinds
<1>5. todo \in Seq(Name) /\ Folders[Line.name] = {todo[k] : k \in DOMAIN todo}
  BY <1>3, ConfigAssumption
<1>6. Advanced \in Seq(Activation)
  BY <1>3, GoesOn DEF Sound
<1> HIDE DEF todo
<1>7. f \in Activation /\ f.kind = "folder" /\ f.section = Top.section /\ f.todo = todo
  BY <1>4, <1>5 DEF Frame, Activation
<1>8. \A k \in DOMAIN todo : todo[k] \in Name
  BY <1>5, LenProperties
<1>9. /\ R \subseteq Q /\ Q \in SUBSET ((DOMAIN objects) \X Name)
      /\ \A k \in DOMAIN todo : <<Top.section, todo[k]>> \in Q
      /\ \A r \in Q : r \in R \/ (f.section = r[1] /\ \E k \in DOMAIN f.todo : f.todo[k] = r[2])
  BY <1>4, <1>7, <1>8
<1> HIDE DEF Q, f
<1>10. IsTaken(Line, Top.name, Top.section, objects, Q)
  <2>1. \A g \in Folders[Line.name] : <<Top.section, g>> \in Q
    BY <1>5, <1>9
  <2> QED
    BY <1>3, <1>4, <2>1 DEF IsTaken
<1>11. LineIsDone(Top.name, Begin, objects, C, Q)
  BY <1>2, <1>3, <1>4, <1>10, SameAdds, DoneInSection DEF InOpenSection
<1>12. /\ FramesDone(Advanced, objects, C, Q) /\ FilesDone(C, Advanced, objects, C, Q)
       /\ RulesDone(R, Advanced, objects, Q) /\ OptionsDone(optind, objects, C)
  BY <1>2, <1>3, <1>9, <1>11, SameAdds, AdvancedIsDone
<1>13. FrameIsDone(f, objects, C, Q)
  BY <1>7, <1>9 DEF FrameIsDone
<1>14. FramesDone(stack', objects, C, Q) /\ FilesDone(C, stack', objects, C, Q) /\ RulesDone(Q, stack', objects, Q)
  BY <1>3, <1>6, <1>7, <1>9, <1>12, <1>13, PushIsDone
<1> QED
  BY <1>3, <1>9, <1>12, <1>14 DEF ReadSoFar, Progress

LEMMA NextInFolderIsThorough ==
    ASSUME IInv, NextInFolder, ~lost', ReadSoFar(stack, objects, optind)
    PROVE  ReadSoFar(stack', objects', optind')
<1>1. PICK C \in SUBSET DOMAIN disk : \E R \in SUBSET ((DOMAIN objects) \X Name) : Progress(stack, objects, optind, C, R)
  BY DEF ReadSoFar
<1>2. PICK R \in SUBSET ((DOMAIN objects) \X Name) : Progress(stack, objects, optind, C, R)
  BY <1>1
<1>3. /\ stack # <<>> /\ Top.kind = "folder" /\ UNCHANGED <<optind, objects>> /\ stack \in Seq(Activation)
      /\ Len(stack) \in DOMAIN stack /\ Top \in Activation /\ Top = stack[Len(stack)] /\ Top.section \in Nat
  BY Running DEF NextInFolder, IInv, Sound, Activation, Top
<1>4. CASE Top.todo = <<>>
  <2>1. stack' = Callers
    BY <1>4 DEF NextInFolder
  <2> QED
    BY <1>2, <1>3, <1>4, <2>1, PopIsDone DEF ReadSoFar
<1>5. CASE Top.todo # <<>>
  <2> DEFINE name == Head(Top.todo)
             f == [Top EXCEPT !.todo = Tail(@)]
             callers == [stack EXCEPT ![Len(stack)] = f]
             r0 == <<Top.section, name>>
  <2>1. Call("rules", name, callers, 1, Top.section)
    BY <1>3, <1>5 DEF NextInFolder
  <2>2. Top.todo \in Seq(Name)
    BY <1>3 DEF Activation
  <2>3. /\ name \in Name /\ Tail(Top.todo) \in Seq(Name) /\ name = Top.todo[1] /\ 1 \in DOMAIN Top.todo
        /\ \A k \in DOMAIN Tail(Top.todo) : k + 1 \in DOMAIN Top.todo /\ Tail(Top.todo)[k] = Top.todo[k + 1]
        /\ \A k \in DOMAIN Top.todo : k = 1 \/ (k - 1 \in DOMAIN Tail(Top.todo) /\ Tail(Top.todo)[k - 1] = Top.todo[k])
    BY <1>5, <2>2, HeadTailProperties, LenProperties, EmptySeq
  <2>4. f \in Activation /\ f.kind = "folder" /\ f.name = Top.name /\ f.section = Top.section /\ f.todo = Tail(Top.todo)
    BY <1>3, <2>3 DEF Activation
  <2> HIDE DEF f
  <2>5. /\ DOMAIN callers = DOMAIN stack /\ callers[Len(stack)] = f
        /\ \A j \in DOMAIN stack : j # Len(stack) => callers[j] = stack[j]
    BY <1>3
  <2>6. callers \in Seq(Activation)
    BY <1>3, <2>4
  <2> HIDE DEF callers
  <2>7. FrameIsDone(Top, objects, C, R)
    BY <1>2, <1>3, TopIsDone
  <2>8. <<Top.section, name>> \in R
    BY <1>3, <2>3, <2>7 DEF FrameIsDone
  <2>9. FrameIsDone(f, objects, C, R)
    <3>1. \A k \in DOMAIN Top.todo : <<Top.section, Top.todo[k]>> \in R
      BY <1>3, <2>7 DEF FrameIsDone
    <3>2. \A k \in DOMAIN Tail(Top.todo) : <<Top.section, Tail(Top.todo)[k]>> \in R
      BY <2>3, <3>1
    <3>3. \A k \in DOMAIN f.todo : <<f.section, f.todo[k]>> \in R
      BY <2>4, <3>2
    <3> QED
      BY <2>4, <3>3 DEF FrameIsDone
  <2>10. FramesDone(callers, objects, C, R)
    BY <1>2, <2>5, <2>9 DEF Progress, FramesDone
  <2>11. FilesDone(C, callers, objects, C, R)
    <3>1. \A g : IsOpen(g, stack) => IsOpen(g, callers)
      BY <1>3, <2>5 DEF IsOpen
    <3> QED
      BY <1>2, <3>1 DEF Progress, FilesDone
  <2>12. RulesDone(R \ {r0}, callers, objects, R)
    <3>1. ASSUME NEW r \in R, r # r0, IsPending(r, stack)
          PROVE  IsPending(r, callers)
      <4>1. PICK j \in DOMAIN stack :
                /\ stack[j].section = r[1]
                /\ \/ stack[j].kind = "rules" /\ stack[j].name = r[2]
                   \/ stack[j].kind = "folder" /\ \E k \in DOMAIN stack[j].todo : stack[j].todo[k] = r[2]
        BY <3>1 DEF IsPending
      <4>2. CASE j # Len(stack)
        BY <2>5, <4>1, <4>2 DEF IsPending
      <4>3. CASE j = Len(stack)
        <5>1. Top.section = r[1] /\ \E k \in DOMAIN Top.todo : Top.todo[k] = r[2]
          BY <1>3, <4>1, <4>3
        <5>2. PICK k \in DOMAIN Top.todo : Top.todo[k] = r[2]
          BY <5>1
        <5>3. k # 1
          BY <2>3, <3>1, <5>1, <5>2
        <5>4. \E m \in DOMAIN f.todo : f.todo[m] = r[2]
          <6>1. k - 1 \in DOMAIN Tail(Top.todo) /\ Tail(Top.todo)[k - 1] = r[2]
            BY <2>3, <5>2, <5>3
          <6>2. \E m \in DOMAIN Tail(Top.todo) : Tail(Top.todo)[m] = r[2]
            BY <6>1
          <6> QED
            BY <2>4, <6>2
        <5> QED
          BY <1>3, <2>4, <2>5, <5>1, <5>4 DEF IsPending
      <4> QED
        BY <4>2, <4>3
    <3> QED
      BY <1>2, <3>1 DEF Progress, RulesDone
  <2>13. \A r \in R : r \in R \ {r0} \/ r = <<Top.section, name>>
    OBVIOUS
  <2>14. FramesDone(stack', objects, C, R) /\ FilesDone(C, stack', objects, C, R) /\ RulesDone(R, stack', objects, R)
    BY <1>3, <2>1, <2>3, <2>6, <2>8, <2>10, <2>11, <2>12, <2>13, CallIsDone
  <2> QED
    BY <1>2, <1>3, <2>14 DEF ReadSoFar, Progress
<1> QED
  BY <1>4, <1>5

\* Between the files.
LEMMA IdleStaysDone ==
    ASSUME IInv, NEW more, Adds(objects, more), NEW C \in SUBSET DOMAIN disk, NEW D, C \subseteq D,
           NEW R \in SUBSET ((DOMAIN objects) \X Name), NEW n, Progress(<<>>, objects, n, C, R)
    PROVE  /\ FramesDone(<<>>, more, D, R) /\ FilesDone(C, <<>>, more, D, R) /\ RulesDone(R, <<>>, more, R)
           /\ OptionsDone(n, more, D)
<1>1. DOMAIN <<>> = {}
  BY EmptySeq
<1>2. FramesDone(<<>>, more, D, R)
  BY <1>1 DEF FramesDone
<1>3. FilesDone(C, <<>>, more, D, R)
  <2>1. \A g \in DOMAIN disk : \A p \in Starts(g) : disk[g][p] \in Statement
    BY TextOfFile
  <2>2. \A g \in C : g \in DOMAIN disk /\ \A p \in Starts(g) : LineIsDone(g, p, objects, C, R)
    BY <1>1 DEF Progress, FilesDone, IsOpen
  <2>3. \A g \in C : \A p \in Starts(g) : LineIsDone(g, p, more, D, R)
    BY <2>1, <2>2, LineStaysDone DEF IInv
  <2> QED
    BY <2>2, <2>3 DEF FilesDone
<1>4. RulesDone(R, <<>>, more, R)
  <2>1. \A r \in R : r[1] \in DOMAIN objects /\ r[2] \in DOMAIN disk
                     /\ \A p \in Starts(r[2]) : RuleLineIsDone(r[1], r[2], p, objects, R)
    BY <1>1 DEF Progress, RulesDone, IsPending
  <2> QED
    BY <2>1, RuleLineStaysDone DEF IInv, RulesDone
<1> QED
  BY <1>2, <1>3, <1>4, OptionsStayDone DEF IInv, Progress

LEMMA OneMoreOption ==
    ASSUME IInv, optind <= Len(options), NEW objs, NEW C, OptionsDone(optind, objs, C), OptionIsDone(optind, objs, C)
    PROVE  OptionsDone(optind + 1, objs, C)
<1>1. options \in Seq(Option) /\ optind \in Nat /\ DOMAIN options = 1 .. Len(options) /\ Len(options) \in Nat
  BY ConfigAssumption, LenProperties DEF IInv, Tables
<1>2. \A o \in DOMAIN options : o < optind + 1 => o < optind \/ o = optind
  BY <1>1
<1> QED
  BY <1>2 DEF OptionsDone

LEMMA LoadConfigIsThorough ==
    ASSUME IInv, LoadConfig, ~lost', ReadSoFar(stack, objects, optind)
    PROVE  ReadSoFar(stack', objects', optind')
<1>1. PICK C \in SUBSET DOMAIN disk : \E R \in SUBSET ((DOMAIN objects) \X Name) : Progress(stack, objects, optind, C, R)
  BY DEF ReadSoFar
<1>2. PICK R \in SUBSET ((DOMAIN objects) \X Name) : Progress(stack, objects, optind, C, R)
  BY <1>1
<1> DEFINE name == options[optind].name
           D == C \cup {name}
<1>3. /\ stack = <<>> /\ optind <= Len(options) /\ options[optind].op = "c" /\ optind' = optind + 1
      /\ UNCHANGED objects /\ Call("config", name, <<>>, 1, 0) /\ name \in Name
  BY OptionName DEF LoadConfig, NextOption, Between, NoSection
<1>4. C \subseteq D /\ name \in D /\ \A g \in D : g \in C \/ g = name
  OBVIOUS
<1> HIDE DEF name, D
<1>5. /\ FramesDone(<<>>, objects, D, R) /\ FilesDone(C, <<>>, objects, D, R) /\ RulesDone(R, <<>>, objects, R)
      /\ OptionsDone(optind, objects, D)
  BY <1>2, <1>3, <1>4, SameAdds, IdleStaysDone
<1>7. /\ name \in DOMAIN disk /\ FramesDone(stack', objects, D, R) /\ FilesDone(D, stack', objects, D, R)
      /\ RulesDone(R, stack', objects, R)
  <2> DEFINE callers == <<>>
  <2>1. callers \in Seq(Activation)
    BY EmptySeq
  <2>2. /\ FramesDone(callers, objects, D, R) /\ FilesDone(C, callers, objects, D, R)
        /\ RulesDone(R, callers, objects, R) /\ Call("config", name, callers, 1, 0)
    BY <1>3, <1>5
  <2> HIDE DEF callers
  <2> QED
    BY <1>3, <1>4, <2>1, <2>2, CallIsDone
<1>8. OptionsDone(optind + 1, objects, D)
  BY <1>3, <1>4, <1>5, OneMoreOption DEF OptionIsDone, name
<1>9. D \in SUBSET DOMAIN disk
  BY <1>4, <1>7
<1> QED
  BY <1>3, <1>7, <1>8, <1>9 DEF ReadSoFar, Progress

LEMMA SettingIsMade ==
    ASSUME IInv, NEW i \in DOMAIN objects, NEW field \in Fields, NEW value \in Name
    PROVE  LET more == WithSetting(i, field, value) IN
           /\ Adds(objects, more) /\ DOMAIN objects \subseteq DOMAIN more
           /\ more[i].kind = objects[i].kind /\ more[i].set[field] # None
<1> DEFINE objs == IF field = "file" THEN FindOrCreate("log", value) ELSE objects
           more == WithSetting(i, field, value)
<1>1. Adds(objects, more) /\ DOMAIN objects \subseteq DOMAIN more /\ more[i].kind = objects[i].kind
  BY SettingAdds DEF Adds, AddsTo
<1>2. Known(objs) /\ DOMAIN objects \subseteq DOMAIN objs
  <2>1. CASE field = "file"
    BY <2>1, Created, CreationAdds DEF IInv, Kinds, Adds
  <2>2. CASE field # "file"
    BY <2>2 DEF IInv
  <2> QED
    BY <2>1, <2>2
<1>3. more = [objs EXCEPT ![i].set[field] = value]
  BY DEF WithSetting
<1> HIDE DEF objs, more
<1>4. i \in DOMAIN objs /\ objs[i] \in Object
  BY <1>2, LenProperties DEF Known
<1>5. more[i] = [objs[i] EXCEPT !.set[field] = value]
  BY <1>3, <1>4
<1>6. more[i].set[field] = value
  BY <1>4, <1>5, FieldsOfObject DEF Object
<1>7. value # None
  BY ConfigAssumption
<1> QED
  BY <1>1, <1>6, <1>7 DEF more

LEMMA SetMainIsThorough ==
    ASSUME IInv, NEW op, NEW field, <<op, field>> \in {<<"v", "level">>, <<"V", "file">>}, SetMain(op, field),
           ReadSoFar(stack, objects, optind)
    PROVE  ReadSoFar(stack', objects', optind')
<1>1. PICK C \in SUBSET DOMAIN disk : \E R \in SUBSET ((DOMAIN objects) \X Name) : Progress(stack, objects, optind, C, R)
  BY DEF ReadSoFar
<1>2. PICK R \in SUBSET ((DOMAIN objects) \X Name) : Progress(stack, objects, optind, C, R)
  BY <1>1
<1>3. /\ stack = <<>> /\ optind <= Len(options) /\ options[optind].op = op /\ optind' = optind + 1
      /\ UNCHANGED stack /\ objects' = WithSetting(1, field, options[optind].name) /\ options[optind].name \in Name
  BY OptionName DEF SetMain, NextOption, Between, Template
<1>4. 1 \in DOMAIN objects /\ field \in Fields
  BY LenProperties DEF IInv, Known, Fields
<1>5. Adds(objects, objects') /\ DOMAIN objects \subseteq DOMAIN objects' /\ objects'[1].set[field] # None
  BY <1>3, <1>4, SettingIsMade
<1>6. OptionIsDone(optind, objects', C)
  BY <1>3, <1>5 DEF OptionIsDone
<1>7. /\ FramesDone(<<>>, objects', C, R) /\ FilesDone(C, <<>>, objects', C, R) /\ RulesDone(R, <<>>, objects', R)
      /\ OptionsDone(optind, objects', C)
  BY <1>2, <1>3, <1>5, IdleStaysDone
<1>8. R \in SUBSET ((DOMAIN objects') \X Name)
  BY <1>5
<1> QED
  BY <1>3, <1>6, <1>7, <1>8, OneMoreOption DEF ReadSoFar, Progress

LEMMA SetIsThorough ==
    ASSUME IInv, CallsAreWritten(stack, objects), Set, ReadSoFar(stack, objects, optind)
    PROVE  ReadSoFar(stack', objects', optind')
<1>1. PICK C \in SUBSET DOMAIN disk : \E R \in SUBSET ((DOMAIN objects) \X Name) : Progress(stack, objects, optind, C, R)
  BY DEF ReadSoFar
<1>2. PICK R \in SUBSET ((DOMAIN objects) \X Name) : Progress(stack, objects, optind, C, R)
  BY <1>1
<1>3. /\ HasLine /\ InConfig("set") /\ Line.op = "set" /\ Top.kind = "config" /\ SectionKind # None
      /\ Line.value # None /\ Line.field \in Accepted[SectionKind]
      /\ objects' = WithSetting(Top.section, Line.field, Line.value) /\ stack' = Advanced /\ UNCHANGED optind
  BY DEF Set, CanSet, InConfig
<1>4. Top.section \in DOMAIN objects /\ SectionKind = objects[Top.section].kind
  BY <1>3, OpenSection
<1>5. Line.field \in Fields /\ Line.value \in Name
  BY <1>3, LineIsRead, Carried
<1>6. /\ Adds(objects, objects') /\ DOMAIN objects \subseteq DOMAIN objects'
      /\ objects'[Top.section].kind = objects[Top.section].kind /\ objects'[Top.section].set[Line.field] # None
  BY <1>3, <1>4, <1>5, SettingIsMade
<1>7. IsTaken(Line, Top.name, Top.section, objects', R)
  BY <1>3, <1>4, <1>6 DEF IsTaken
<1>8. LineIsDone(Top.name, Begin, objects', C, R)
  BY <1>2, <1>3, <1>6, <1>7, DoneInSection DEF InOpenSection
<1>9. Progress(Advanced, objects', optind, C, R)
  BY <1>2, <1>3, <1>6, <1>8, AdvancedIsDone DEF Progress
<1>10. R \in SUBSET ((DOMAIN objects') \X Name)
  BY <1>6
<1> QED
  BY <1>3, <1>9, <1>10 DEF ReadSoFar

LEMMA ServiceIsThorough ==
    ASSUME IInv, CallsAreWritten(stack, objects), Service, Adds(objects, objects'),
           ReadSoFar(stack, objects, optind)
    PROVE  ReadSoFar(stack', objects', optind')
<1>1. PICK C \in SUBSET DOMAIN disk : \E R \in SUBSET ((DOMAIN objects) \X Name) : Progress(stack, objects, optind, C, R)
  BY DEF ReadSoFar
<1>2. PICK R \in SUBSET ((DOMAIN objects) \X Name) : Progress(stack, objects, optind, C, R)
  BY <1>1
<1> DEFINE i == Top.section
           more == <<Line.host>> \o objects[i].services
           o == [objects[i] EXCEPT !.services = more]
<1>3. /\ HasLine /\ InConfig("service") /\ Line.op = "service" /\ Top.kind = "config" /\ SectionKind = "proxy"
      /\ objects' = [objects EXCEPT ![i] = o] /\ stack' = Advanced /\ UNCHANGED optind
  BY DEF Service, InConfig
<1>4. i \in DOMAIN objects /\ SectionKind # None /\ objects[i].kind = "proxy" /\ objects[i] \in Object
  BY <1>3, ProxySection, OpenSection, ConfigAssumption, LenProperties DEF IInv, Known, Kinds
<1> HIDE DEF i
<1>5. \E j \in DOMAIN more : more[j] = Line.host
  <2> DEFINE S == {"127.0.0.1", "elsewhere"}
             h == Line.host
             s == objects[i].services
  <2>1. <<h>> \in Seq(S) /\ s \in Seq(S)
    BY <1>3, <1>4, LineIsRead, Carried, FieldsOfObject
  <2> HIDE DEF S, h, s
  <2>2. \E j \in DOMAIN (<<h>> \o s) : (<<h>> \o s)[j] = h
    BY <2>1, InFrontOf
  <2> QED
    BY <2>2 DEF h, s
<1> HIDE DEF more
<1>6. objects'[i].services = more
  BY <1>3, <1>4 DEF Object
<1>7. objects'[i].kind = "proxy" /\ DOMAIN objects \subseteq DOMAIN objects'
  BY <1>4 DEF Adds, AddsTo
<1>8. IsTaken(Line, Top.name, Top.section, objects', R)
  BY <1>3, <1>5, <1>6, <1>7 DEF IsTaken, i
<1>9. LineIsDone(Top.name, Begin, objects', C, R)
  BY <1>2, <1>3, <1>4, <1>8, DoneInSection DEF InOpenSection
<1>10. Progress(Advanced, objects', optind, C, R)
  BY <1>2, <1>3, <1>9, AdvancedIsDone DEF Progress
<1>11. R \in SUBSET ((DOMAIN objects') \X Name)
  BY <1>7
<1> QED
  BY <1>3, <1>10, <1>11 DEF ReadSoFar

\* A rule that has been read without an error has all its tunnels.
LEMMA RuleIsTaken ==
    ASSUME IInv, Route, ~lost', Adds(objects, objects')
    PROVE  /\ Top.section \in DOMAIN objects /\ objects[Top.section].kind = "proxy"
           /\ HasRule(objects'[Top.section], Top.name, Line, objects')
<1>1. PICK i \in DOMAIN objects, r \in [file : Name, line : Nat, via : Seq(Nat)], o \in Object :
          /\ HasLine /\ i = Top.section /\ objects[i].kind = "proxy"
          /\ r.file = Top.name /\ r.via = Tunnels(Line.via) /\ LeadTo(r.via, objects)
          /\ o.kind = objects[i].kind /\ o.name = objects[i].name /\ o.set = objects[i].set
          /\ o.services = objects[i].services /\ o.rules = Append(objects[i].rules, r)
          /\ Leads(o, objects) /\ objects' = [objects EXCEPT ![i] = o]
  BY RouteAdds
<1>2. Line.op \in {"route", "rule"} /\ AllDefined(Line.via) /\ ~ (Len(Line.via) > MaxVia)
  BY DEF Route
<1>3. Line.via \in Seq(Name)
  BY <1>1, <1>2, LineIsRead, Carried
<1>4. DOMAIN r.via = DOMAIN Line.via /\ Held(Line.via) = DOMAIN Line.via
  BY <1>1, <1>2, <1>3, LenProperties DEF Tunnels, Held
<1>5. ASSUME NEW t \in DOMAIN Line.via
      PROVE  objects'[r.via[t]].name = Line.via[t]
  <2>1. r.via[t] = Search(objects, "ssh", Line.via[t])
    BY <1>1, <1>4 DEF Tunnels
  <2>2. Found(objects, "ssh", Line.via[t]) # {}
    BY <1>2 DEF AllDefined
  <2>3. Search(objects, "ssh", Line.via[t]) \in Found(objects, "ssh", Line.via[t])
    BY <2>2 DEF Search
  <2>4. Listed(objects) \subseteq DOMAIN objects
    BY LenProperties DEF IInv, Known, Listed
  <2> QED
    BY <2>1, <2>3, <2>4 DEF Found, Adds, AddsTo
<1>6. \E k \in DOMAIN o.rules : o.rules[k] = r
  <2>1. objects[i].rules \in Seq([file : Name, line : Nat, via : Seq(Nat)])
    <3>1. objects[i] \in Object
      BY <1>1, LenProperties DEF IInv, Known
    <3> QED
      BY <3>1, FieldsOfObject
  <2>2. /\ Len(o.rules) = Len(objects[i].rules) + 1 /\ o.rules \in Seq([file : Name, line : Nat, via : Seq(Nat)])
        /\ o.rules[Len(objects[i].rules) + 1] = r
    BY <1>1, <2>1, AppendProperties
  <2>3. Len(objects[i].rules) + 1 \in DOMAIN o.rules
    BY <2>1, <2>2, LenProperties
  <2> QED
    BY <2>2, <2>3
<1>7. objects'[i].rules = o.rules
  BY <1>1
<1>8. PICK k \in DOMAIN objects'[i].rules : objects'[i].rules[k] = r
  BY <1>6, <1>7
<1>9. HasRule(objects'[i], Top.name, Line, objects')
  <2>1. /\ r.file = Top.name /\ DOMAIN r.via = DOMAIN Line.via
        /\ \A t \in DOMAIN Line.via : objects'[r.via[t]].name = Line.via[t]
    BY <1>1, <1>4, <1>5
  <2> QED
    BY <1>8, <2>1, Zenon DEF HasRule
<1> QED
  BY <1>1, <1>9

LEMMA RouteIsThorough ==
    ASSUME IInv, CallsAreWritten(stack, objects), Route, ~lost', Adds(objects, objects'),
           ReadSoFar(stack, objects, optind)
    PROVE  ReadSoFar(stack', objects', optind')
<1>1. PICK C \in SUBSET DOMAIN disk : \E R \in SUBSET ((DOMAIN objects) \X Name) : Progress(stack, objects, optind, C, R)
  BY DEF ReadSoFar
<1>2. PICK R \in SUBSET ((DOMAIN objects) \X Name) : Progress(stack, objects, optind, C, R)
  BY <1>1
<1>3. /\ HasLine /\ Line.op = (IF Top.kind = "config" THEN "route" ELSE "rule") /\ SectionKind = "proxy"
      /\ stack' = Advanced /\ UNCHANGED optind
  BY DEF Route
<1>4. /\ Top.section \in DOMAIN objects /\ objects[Top.section].kind = "proxy" /\ SectionKind # None
      /\ HasRule(objects'[Top.section], Top.name, Line, objects')
  BY <1>3, RuleIsTaken, ConfigAssumption DEF Kinds
<1>5. objects'[Top.section].kind = "proxy" /\ DOMAIN objects \subseteq DOMAIN objects'
  BY <1>4 DEF Adds, AddsTo
<1>6. Top.kind = "config" => LineIsDone(Top.name, Begin, objects', C, R)
  <2> SUFFICES ASSUME Top.kind = "config" PROVE LineIsDone(Top.name, Begin, objects', C, R)
    OBVIOUS
  <2>1. InConfig("route") /\ Line.op = "route"
    BY <1>3 DEF InConfig
  <2>2. IsTaken(Line, Top.name, Top.section, objects', R)
    BY <1>4, <1>5, <2>1 DEF IsTaken
  <2> QED
    BY <1>2, <1>4, <2>1, <2>2, DoneInSection DEF InOpenSection
<1>7. Top.kind = "rules" /\ disk[Top.name][Begin] = Line => RuleLineIsDone(Top.section, Top.name, Begin, objects', R)
  BY <1>3, <1>4 DEF RuleLineIsDone
<1>8. Progress(Advanced, objects', optind, C, R)
  BY <1>2, <1>3, <1>6, <1>7, AdvancedIsDone DEF Progress
<1>9. R \in SUBSET ((DOMAIN objects') \X Name)
  BY <1>5
<1> QED
  BY <1>3, <1>8, <1>9 DEF ReadSoFar

LEMMA SectionIsThorough ==
    ASSUME IInv, CallsAreWritten(stack, objects), Section, Adds(objects, objects'), Known(objects'),
           AllWritten(objects'), ReadSoFar(stack, objects, optind)
    PROVE  ReadSoFar(stack', objects', optind')
<1>1. PICK C \in SUBSET DOMAIN disk : \E R \in SUBSET ((DOMAIN objects) \X Name) : Progress(stack, objects, optind, C, R)
  BY DEF ReadSoFar
<1>2. PICK R \in SUBSET ((DOMAIN objects) \X Name) : Progress(stack, objects, optind, C, R)
  BY <1>1
<1> DEFINE i == Place(objects', Line.kind, Line.name)
           f == [After EXCEPT !.section = i]
<1>3. /\ HasLine /\ Top.kind = "config" /\ Line.op = "section" /\ UNCHANGED optind
      /\ stack' = [stack EXCEPT ![Len(stack)] = f]
  BY DEF Section, InConfig
<1>4. i \in DOMAIN objects' /\ IsCalled(i, Line.kind, Line.name, objects')
  BY PlaceOfSection DEF IsCalled
<1> HIDE DEF i
<1>5. After \in Activation /\ After.kind = Top.kind /\ After.name = Top.name
  BY <1>3, LineIsRead
<1>6. f.kind = "config" /\ f.name = Top.name /\ f.section = i /\ f.pos = After.pos
  BY <1>3, <1>5 DEF Activation
<1> HIDE DEF f
<1>7. disk[Top.name][Begin] = Line => LineIsDone(Top.name, Begin, objects', C, R)
  BY <1>3, <1>4 DEF LineIsDone
<1>8. IsCalled(f.section, objects'[f.section].kind, objects'[f.section].name, objects')
  BY <1>4, <1>6 DEF IsCalled
<1>9. Progress(stack', objects', optind, C, R)
  BY <1>2, <1>3, <1>6, <1>7, <1>8, LineGoesOn DEF Progress
<1>10. R \in SUBSET ((DOMAIN objects') \X Name)
  BY DEF Adds
<1> QED
  BY <1>3, <1>9, <1>10 DEF ReadSoFar

LEMMA SameDone ==
    ASSUME UNCHANGED <<disk, options>>
    PROVE  /\ FewFiles' <=> FewFiles
           /\ \A s, objs, n : ReadSoFar(s, objs, n) => ReadSoFar(s, objs, n)'
<1>1. \A f : Starts(f)' = Starts(f)
  BY DEF Starts
<1>2. \A f, p, kind, name : InSection(f, p, kind, name)' <=> InSection(f, p, kind, name)
  BY <1>1 DEF InSection
<1>3. \A f, p, objs, C, R : LineIsDone(f, p, objs, C, R)' <=> LineIsDone(f, p, objs, C, R)
  <2>1. \A i, kind, name, objs : IsCalled(i, kind, name, objs)' <=> IsCalled(i, kind, name, objs)
    BY DEF IsCalled
  <2>2. \A l, f, i, objs, R : IsTaken(l, f, i, objs, R)' <=> IsTaken(l, f, i, objs, R)
    BY DEF IsTaken, HasRule
  <2>3. disk' = disk /\ InOpenSection' = InOpenSection
    BY DEF InOpenSection
  <2> QED
    BY <1>2, <2>1, <2>2, <2>3, SMTT(40) DEF LineIsDone
<1>4. \A i, f, p, objs, R : RuleLineIsDone(i, f, p, objs, R)' <=> RuleLineIsDone(i, f, p, objs, R)
  BY DEF RuleLineIsDone, HasRule
<1>5. \A f, objs, C, R : FrameIsDone(f, objs, C, R)' <=> FrameIsDone(f, objs, C, R)
  BY <1>1, <1>3, <1>4, SMTT(40) DEF FrameIsDone, IsCalled
<1>6. \A s, objs, C, R : FramesDone(s, objs, C, R)' <=> FramesDone(s, objs, C, R)
  BY <1>5 DEF FramesDone
<1>7. \A S, s, objs, C, R : FilesDone(S, s, objs, C, R)' <=> FilesDone(S, s, objs, C, R)
  BY <1>1, <1>3, SMTT(40) DEF FilesDone, IsOpen
<1>8. \A S, s, objs, R : RulesDone(S, s, objs, R)' <=> RulesDone(S, s, objs, R)
  BY <1>1, <1>4, SMTT(40) DEF RulesDone, IsPending
<1>9. \A n, objs, C : OptionsDone(n, objs, C)' <=> OptionsDone(n, objs, C)
  BY DEF OptionsDone, OptionIsDone
<1>10. \A s, objs, n, C, R : Progress(s, objs, n, C, R)' <=> Progress(s, objs, n, C, R)
  BY <1>6, <1>7, <1>8, <1>9, SMTT(40) DEF Progress
<1>11. \A s, objs, n : ReadSoFar(s, objs, n) => ReadSoFar(s, objs, n)'
  BY <1>10 DEF ReadSoFar
<1> QED
  BY <1>11 DEF FewFiles

LEMMA StepIsThorough == IInv /\ IInv' /\ Written /\ Written' /\ Thorough /\ [Next]_vars => Thorough'
<1> SUFFICES ASSUME IInv, IInv', Written, Written', Thorough, [Next]_vars PROVE Thorough' OBVIOUS
<1>1. AllWritten(objects) /\ CallsAreWritten(stack, objects) /\ Chained(stack)
  BY DEF Written, Thorough
<1>2. UNCHANGED <<disk, options>>
  BY DEF Next, vars, ParseFails, EndOfFile, Comment, Include, Section, Set, Service, Route, RouteFile,
         RouteDir, NextInFolder, NotUnderstood, LoadConfig, SetMain, NextOption, Serve, StartFails
<1>3. Adds(objects, objects')
  BY StepAdds
<1>4. Chained(stack)'
  <2>1. Chained(stack')
    BY <1>1, StepIsChained
  <2> QED
    BY <2>1 DEF Chained, Linked
<1>5. (at = "serving" => stack = <<>> /\ optind > Len(options))'
  <2>1. CASE UNCHANGED vars
    BY <2>1 DEF vars, Thorough
  <2>2. CASE Serve
    BY <2>2 DEF Serve, Between
  <2>3. CASE ~ Serve /\ Next
    <3>1. at = "reading"
      BY <2>3 DEF Next, ParseFails, EndOfFile, Comment, Include, Section, Set, Service, Route, RouteFile,
         RouteDir, NextInFolder, NotUnderstood, LoadConfig, SetMain, NextOption, StartFails, InConfig,
         HasLine, Reading, Between
    <3>2. at' = at \/ at' = "exited"
      BY <2>3 DEF Next, ParseFails, EndOfFile, Comment, Include, Section, Set, Service, Route, RouteFile,
         RouteDir, NextInFolder, NotUnderstood, LoadConfig, SetMain, StartFails, Exits, Call, Fail
    <3> QED
      BY <3>1, <3>2
  <2> QED
    BY <2>1, <2>2, <2>3
<1>6. ASSUME FewFiles, ~lost'
      PROVE  ReadSoFar(stack', objects', optind')
  <2>1. ~lost
    BY <1>6 DEF Next, vars, ParseFails, EndOfFile, Comment, Include, Section, Set, Service, Route, RouteFile,
       RouteDir, NextInFolder, NotUnderstood, LoadConfig, SetMain, Serve, StartFails, Exits, Call, Fail
  <2>2. ReadSoFar(stack, objects, optind)
    BY <1>6, <2>1 DEF Thorough
  <2>3. Known(objects') /\ AllWritten(objects')
    <3>1. Known(objects')
      BY DEF IInv, Known, Unique, Leads, LeadTo, Listed
    <3>2. Section => AllWritten(objects')
      BY <1>1, NewSectionIsWritten
    <3>3. Set \/ Service \/ Route => AllWritten(objects')
      BY <1>1, SetIsWritten, ServiceIsWritten, RouteIsWritten
    <3>4. SetMain("v", "level") \/ SetMain("V", "file") => AllWritten(objects')
      BY <1>1, SetMainIsWritten
    <3>5. UNCHANGED objects => AllWritten(objects')
      BY <1>1
    <3> QED
      BY <3>1, <3>2, <3>3, <3>4, <3>5 DEF Next, vars, ParseFails, EndOfFile, Comment, Include, RouteFile,
         RouteDir, NextInFolder, NotUnderstood, LoadConfig, Serve, StartFails
  <2>4. CASE UNCHANGED <<stack, objects, optind>>
    BY <2>2, <2>4
  <2>5. CASE EndOfFile \/ Comment \/ Include
    BY <1>1, <1>6, <2>2, <2>5, EndOfFileIsThorough, CommentIsThorough, IncludeIsThorough
  <2>6. CASE RouteFile \/ RouteDir \/ NextInFolder \/ LoadConfig
    BY <1>1, <1>6, <2>2, <2>6, RouteFileIsThorough, RouteDirIsThorough, NextInFolderIsThorough, LoadConfigIsThorough
  <2>7. CASE Section
    BY <1>1, <1>3, <2>2, <2>3, <2>7, SectionIsThorough
  <2>8. CASE Set \/ Service \/ Route
    BY <1>1, <1>3, <1>6, <2>2, <2>8, SetIsThorough, ServiceIsThorough, RouteIsThorough
  <2>9. CASE SetMain("v", "level") \/ SetMain("V", "file")
    BY <2>2, <2>9, SetMainIsThorough
  <2>10. ~ ParseFails /\ ~ NotUnderstood /\ ~ StartFails
    BY <1>6 DEF ParseFails, NotUnderstood, StartFails, Exits, Fail
  <2> QED
    BY <2>4, <2>5, <2>6, <2>7, <2>8, <2>9, <2>10 DEF Next, vars, Serve
<1>7. (FewFiles /\ ~lost => ReadSoFar(stack, objects, optind))'
  BY <1>2, <1>6, SameDone
<1> QED
  BY <1>4, <1>5, <1>7 DEF Thorough

LEMMA InitIsThorough == Init => Thorough
<1> SUFFICES ASSUME Init PROVE Thorough OBVIOUS
<1>1. stack = <<>> /\ at = "reading" /\ optind = 1 /\ DOMAIN <<>> = {}
  BY EmptySeq DEF Init
<1>2. OptionsDone(1, objects, {})
  <2>1. DOMAIN options = 1 .. Len(options)
    BY ConfigAssumption, LenProperties DEF Init
  <2> QED
    BY <2>1 DEF OptionsDone
<1>3. Progress(stack, objects, optind, {}, {})
  BY <1>1, <1>2 DEF Progress, FramesDone, FilesDone, RulesDone
<1> QED
  BY <1>1, <1>3 DEF Thorough, ReadSoFar, Chained

LEMMA Thoroughness == Spec => []Thorough
BY InitIsWritten, StepIsWritten, InitIsThorough, StepIsThorough, Invariant, PTL DEF Spec

-----------------------------------------------------------------------------
\* What has been read is what is reached.

LEMMA SectionIsOne ==
    ASSUME IInv, NEW f \in DOMAIN disk, NEW p, NEW kind, NEW name, NEW kind2, NEW name2,
           InSection(f, p, kind, name), InSection(f, p, kind2, name2)
    PROVE  kind = kind2 /\ name = name2
<1>1. PICK q \in Starts(f) :
          /\ q < p /\ disk[f][q].op = "section" /\ disk[f][q].kind = kind /\ disk[f][q].name = name
          /\ \A r \in Starts(f) : q < r /\ r < p => disk[f][r].op # "section"
  BY DEF InSection
<1>2. PICK q2 \in Starts(f) :
          /\ q2 < p /\ disk[f][q2].op = "section" /\ disk[f][q2].kind = kind2 /\ disk[f][q2].name = name2
          /\ \A r \in Starts(f) : q2 < r /\ r < p => disk[f][r].op # "section"
  BY DEF InSection
<1>3. q \in Nat /\ q2 \in Nat /\ ~ (q < q2) /\ ~ (q2 < q)
  BY <1>1, <1>2, TextOfFile
<1>4. q = q2
  BY <1>3
<1> QED
  BY <1>1, <1>2, <1>4

\* A proxy is the one that the sections of its name configure.
LEMMA OneOfTheName ==
    ASSUME IInv, AllWritten(objects), NEW i \in DOMAIN objects, NEW j \in DOMAIN objects, NEW name,
           objects[i].kind = "proxy", objects[i].name = name, IsCalled(j, "proxy", name, objects)
    PROVE  i = j
<1>1. DOMAIN objects = 1 .. Len(objects) /\ Len(objects) \in Nat /\ Unique(objects)
  BY LenProperties DEF IInv, Known
<1>2. objects[j].kind = "proxy" /\ objects[j].name = name /\ (name = "default" => j = 3)
  BY DEF IsCalled, Template
<1>3. /\ objects[1].kind = "main" /\ objects[2].kind = "log" /\ objects[4].kind = "ssh"
      /\ objects[3].name = "default"
  BY DEF AllWritten, Template, Kinds
<1>4. \A k \in DOMAIN objects : objects[k].kind = "proxy" => k = 3 \/ k \in Listed(objects)
  <2>1. \A k \in DOMAIN objects : k \in {1, 2, 3, 4} \/ k \in Listed(objects)
    BY <1>1 DEF Listed
  <2> QED
    BY <1>3, <2>1
<1>5. CASE name = "default"
  <2>1. i \in Listed(objects) => FALSE
    BY <1>5 DEF AllWritten, NameIsWritten
  <2> QED
    BY <1>2, <1>4, <1>5, <2>1
<1>6. CASE name # "default"
  BY <1>1, <1>2, <1>3, <1>4, <1>6 DEF Unique
<1> QED
  BY <1>5, <1>6

LEMMA FilesAreReached ==
    ASSUME IInv, NEW C \in SUBSET DOMAIN disk, NEW R, OptionsDone(Len(options) + 1, objects, C),
           FilesDone(C, <<>>, objects, C, R)
    PROVE  ConfigsRead \subseteq C
<1>1. options \in Seq(Option) /\ DOMAIN options = 1 .. Len(options) /\ Len(options) \in Nat
  BY ConfigAssumption, LenProperties DEF IInv, Tables
<1>2. \A o \in DOMAIN options : o < Len(options) + 1
  BY <1>1
<1>3. Given("c") \subseteq C
  BY <1>2 DEF Given, OptionsDone, OptionIsDone
<1>4. DOMAIN <<>> = {}
  BY EmptySeq
<1>5. \A f \in C : \A p \in Starts(f) : LineIsDone(f, p, objects, C, R)
  BY <1>4 DEF FilesDone, IsOpen
<1>6. ClosedUnder("include", C)
  BY <1>5 DEF ClosedUnder, LineIsDone
<1> QED
  BY <1>3, <1>6 DEF ConfigsRead, Reached

LEMMA RulesAreReached ==
    ASSUME IInv, AllWritten(objects), NEW C \in SUBSET DOMAIN disk, NEW R \in SUBSET ((DOMAIN objects) \X Name),
           ConfigsRead \subseteq C, FilesDone(C, <<>>, objects, C, R), RulesDone(R, <<>>, objects, R)
    PROVE  RulesReadFor(objects) \subseteq R
<1>1. DOMAIN <<>> = {}
  BY EmptySeq
<1>2. \A f \in C : \A p \in Starts(f) : LineIsDone(f, p, objects, C, R)
  BY <1>1 DEF FilesDone, IsOpen
<1>3. \A r \in R : \A p \in Starts(r[2]) : RuleLineIsDone(r[1], r[2], p, objects, R)
  BY <1>1 DEF RulesDone, IsPending
<1>4. ASSUME NEW i \in DOMAIN objects, objects[i].kind = "proxy"
      PROVE  RulesRead(objects[i].name) \subseteq {f \in DOMAIN disk : <<i, f>> \in R}
  <2> DEFINE S == {f \in DOMAIN disk : <<i, f>> \in R}
             name == objects[i].name
  <2>1. ASSUME NEW op \in {"routeFile", "routeDir"}, NEW l \in Stated(op, "proxy", name)
        PROVE  \E f : IsTaken(l, f, i, objects, R)
    <3>1. PICK f \in ConfigsRead : \E p \in Starts(f) : disk[f][p] = l /\ InSection(f, p, "proxy", name)
      BY DEF Stated
    <3>2. PICK p \in Starts(f) : disk[f][p] = l /\ InSection(f, p, "proxy", name)
      BY <3>1
    <3>3. f \in DOMAIN disk /\ LineIsDone(f, p, objects, C, R) /\ l.op = op
      BY <1>2 DEF Stated
    <3>4. PICK j \in DOMAIN objects :
              /\ InSection(f, p, objects[j].kind, objects[j].name)
              /\ IsCalled(j, objects[j].kind, objects[j].name, objects) /\ IsTaken(l, f, j, objects, R)
      BY <3>2, <3>3 DEF LineIsDone
    <3>5. objects[j].kind = "proxy" /\ objects[j].name = name
      BY <3>2, <3>3, <3>4, SectionIsOne
    <3>6. IsCalled(j, "proxy", name, objects)
      BY <3>4, <3>5
    <3>7. i = j
      BY <1>4, <3>6, OneOfTheName
    <3> QED
      BY <3>4, <3>7
  <2>2. RuleFilesNamed(name) \cap DOMAIN disk \subseteq S
    <3>1. \A l \in Stated("routeFile", "proxy", name) : <<i, l.name>> \in R
      <4>1. \A l \in Stated("routeFile", "proxy", name) : l.op = "routeFile"
        BY DEF Stated
      <4> QED
        BY <2>1, <4>1 DEF IsTaken
    <3>2. \A l \in Stated("routeDir", "proxy", name) : \A g \in Folders[l.name] : <<i, g>> \in R
      <4>1. \A l \in Stated("routeDir", "proxy", name) : l.op = "routeDir"
        BY DEF Stated
      <4> QED
        BY <2>1, <4>1 DEF IsTaken
    <3> QED
      BY <3>1, <3>2 DEF RuleFilesNamed
  <2>3. ClosedUnder("routeFile", S)
    <3> SUFFICES ASSUME NEW f \in S, NEW p \in Starts(f), disk[f][p].op = "routeFile",
                        disk[f][p].name \in DOMAIN disk
                 PROVE  disk[f][p].name \in S
      BY DEF ClosedUnder
    <3>1. RuleLineIsDone(i, f, p, objects, R)
      <4>1. <<i, f>>[1] = i /\ <<i, f>>[2] = f /\ <<i, f>> \in R
        OBVIOUS
      <4> QED
        BY <1>3, <4>1
    <3> QED
      BY <3>1 DEF RuleLineIsDone
  <2>4. S \in SUBSET DOMAIN disk
    OBVIOUS
  <2> HIDE DEF S
  <2> QED
    BY <2>2, <2>3, <2>4 DEF RulesRead, Reached, S
<1> QED
  BY <1>4 DEF RulesReadFor

LEMMA ThoroughMissesNothing == IInv /\ Written /\ Thorough /\ LossesAreTold => NothingMissing
<1> SUFFICES ASSUME IInv, Written, Thorough, at = "serving", ~lost, FewFiles
             PROVE  NothingMissing
  BY NothingIsLost DEF NothingMissing
<1> DEFINE Q == RulesReadFor(objects)
<1>1. stack = <<>> /\ optind = Len(options) + 1 /\ ReadSoFar(stack, objects, optind)
  <2>1. Len(options) \in Nat
    BY ConfigAssumption, LenProperties DEF IInv, Tables
  <2> QED
    BY <2>1 DEF Thorough, IInv, Tables
<1>2. PICK C \in SUBSET DOMAIN disk :
          \E R \in SUBSET ((DOMAIN objects) \X Name) : Progress(stack, objects, optind, C, R)
  BY <1>1 DEF ReadSoFar
<1>3. PICK R \in SUBSET ((DOMAIN objects) \X Name) : Progress(stack, objects, optind, C, R)
  BY <1>2
<1>4. /\ FilesDone(C, <<>>, objects, C, R) /\ RulesDone(R, <<>>, objects, R)
      /\ OptionsDone(Len(options) + 1, objects, C) /\ AllWritten(objects)
  BY <1>1, <1>3 DEF Progress, Written
<1>5. ConfigsRead \subseteq C /\ Q \subseteq R
  BY <1>4, FilesAreReached, RulesAreReached
<1>6. DOMAIN <<>> = {}
  BY EmptySeq
<1>7. /\ \A f \in C : \A p \in Starts(f) : LineIsDone(f, p, objects, C, R)
      /\ \A r \in R : r[2] \in DOMAIN disk /\ \A p \in Starts(r[2]) : RuleLineIsDone(r[1], r[2], p, objects, R)
  BY <1>4, <1>6 DEF FilesDone, IsOpen, RulesDone, IsPending
<1>8. /\ Given("c") \cap DOMAIN disk \subseteq ConfigsRead /\ ClosedUnder("include", ConfigsRead)
      /\ ConfigsRead \subseteq DOMAIN disk
  BY AreReached DEF ConfigsRead, Reached
<1>9. \A i \in DOMAIN objects, f \in DOMAIN disk :
          objects[i].kind = "proxy" /\ f \in RulesRead(objects[i].name) => <<i, f>> \in Q
  BY DEF RulesReadFor
<1>10. \A r \in Q : /\ r[1] \in DOMAIN objects /\ r[2] \in RulesRead(objects[r[1]].name)
                    /\ objects[r[1]].kind = "proxy"
  BY DEF RulesReadFor
<1> HIDE DEF Q
<1>11. \A o \in DOMAIN options : OptionIsDone(o, objects, ConfigsRead)
  <2>1. options \in Seq(Option) /\ DOMAIN options = 1 .. Len(options) /\ Len(options) \in Nat
    BY ConfigAssumption, LenProperties DEF IInv, Tables
  <2>2. \A o \in DOMAIN options : OptionIsDone(o, objects, C)
    BY <1>4, <2>1 DEF OptionsDone
  <2>3. \A o \in DOMAIN options : options[o].op = "c" => options[o].name \in Given("c")
    BY DEF Given
  <2> QED
    BY <1>8, <2>2, <2>3 DEF OptionIsDone
<1>12. ASSUME NEW f \in ConfigsRead, NEW p \in Starts(f)
       PROVE  LineIsDone(f, p, objects, ConfigsRead, Q)
  <2> DEFINE l == disk[f][p]
  <2>1. LineIsDone(f, p, objects, C, R) /\ l \in Statement /\ f \in DOMAIN disk
    BY <1>5, <1>7, <1>8, TextOfFile
  <2>2. l.op = "include" => l.name \in ConfigsRead
    BY <1>8, <2>1 DEF LineIsDone, ClosedUnder
  <2>3. ASSUME NEW i \in DOMAIN objects, InSection(f, p, objects[i].kind, objects[i].name),
               IsTaken(l, f, i, objects, R)
        PROVE  IsTaken(l, f, i, objects, Q)
    <3>1. l.op \in {"routeFile", "routeDir"} =>
              objects[i].kind = "proxy" /\ l \in Stated(l.op, "proxy", objects[i].name)
      BY <2>1, <2>3 DEF IsTaken, Stated
    <3>2. l.op = "routeFile" => <<i, l.name>> \in Q
      <4> SUFFICES ASSUME l.op = "routeFile" PROVE <<i, l.name>> \in Q
        OBVIOUS
      <4>1. <<i, l.name>> \in R
        BY <2>3 DEF IsTaken
      <4>2. l.name \in DOMAIN disk /\ l.name \in RuleFilesNamed(objects[i].name)
        BY <1>7, <3>1, <4>1 DEF RuleFilesNamed
      <4> QED
        BY <1>9, <3>1, <4>2, NamedAreRead
    <3>3. l.op = "routeDir" => \A g \in Folders[l.name] : <<i, g>> \in Q
      <4> SUFFICES ASSUME l.op = "routeDir", NEW g \in Folders[l.name] PROVE <<i, g>> \in Q
        OBVIOUS
      <4>1. <<i, g>> \in R /\ l.name \in DOMAIN Folders
        BY <2>3 DEF IsTaken
      <4>2. g \in DOMAIN disk
        BY <1>7, <4>1
      <4>3. g \in RuleFilesNamed(objects[i].name)
        BY <3>1, <4>1 DEF RuleFilesNamed
      <4> QED
        BY <1>9, <3>1, <4>2, <4>3, NamedAreRead
    <3> QED
      BY <2>3, <3>2, <3>3 DEF IsTaken
  <2> QED
    BY <2>1, <2>2, <2>3 DEF LineIsDone
<1>13. ASSUME NEW r \in Q, NEW p \in Starts(r[2])
       PROVE  RuleLineIsDone(r[1], r[2], p, objects, Q)
  <2> DEFINE l == disk[r[2]][p]
             proxy == objects[r[1]].name
  <2>1. RuleLineIsDone(r[1], r[2], p, objects, R)
    BY <1>5, <1>7
  <2>2. l.op = "routeFile" => <<r[1], l.name>> \in Q
    <3> SUFFICES ASSUME l.op = "routeFile" PROVE <<r[1], l.name>> \in Q
      OBVIOUS
    <3>1. <<r[1], l.name>> \in R
      BY <2>1 DEF RuleLineIsDone
    <3>2. l.name \in DOMAIN disk
      BY <1>7, <3>1
    <3>3. l.name \in RulesRead(proxy)
      BY <1>10, <3>2, AreReached DEF RulesRead, ClosedUnder
    <3> QED
      BY <1>9, <1>10, <3>2, <3>3
  <2> QED
    BY <2>1, <2>2 DEF RuleLineIsDone
<1> QED
  BY <1>11, <1>12, <1>13 DEF NothingMissing, Q

\* Of the lines that say how the program is to be configured, none is left out
\* by a start without a message, unless a file has a line that is lost quietly.
THEOREM NothingIsMissing == Spec => []NothingMissing
BY Thoroughness, ThoroughMissesNothing, OnlyWhatIsWritten, NothingIsLostQuietly, Invariant, PTL

-----------------------------------------------------------------------------
\* Numbers of lines, and the order in which the files are read.

\* How many lines a call has taken, and which flag it has kept.
AtLine(f) ==
    f.kind # "folder" =>
        /\ f.line = LinesBefore(f.name, f.pos)
        /\ IF f.pos = 1 THEN f.last = None ELSE f.pos - 1 \in Terminators(f.name) /\ f.last = disk[f.name][f.pos - 1]

\* Where the program is.
SpotOf(f) == [kind |-> f.kind, name |-> f.name,
              line |-> IF f.kind = "folder" THEN Len(AsListed(f.name)) - Len(f.todo) ELSE f.line]
Spots(s) == [j \in DOMAIN s |-> SpotOf(s[j])]
Here == [option |-> optind - 1, calls |-> Spots(stack)]
Begins(c, d) == Len(c) <= Len(d) /\ \A j \in DOMAIN c : d[j] = c[j]
Behind(P, Q) ==
    P.option < Q.option \/ (P.option = Q.option /\ (Earlier(P.calls, Q.calls) \/ Begins(Q.calls, P.calls)))

\* Line ends of two characters are halved in turn.
LEMMA HalfRule ==
    ASSUME IInv, NEW f \in DOMAIN disk, NEW q \in DOMAIN disk[f], disk[f][q] \in Break
    PROVE  SecondHalf(f, q) <=> /\ q > 1 /\ disk[f][q - 1] \in Break /\ disk[f][q - 1] # disk[f][q]
                                /\ ~ SecondHalf(f, q - 1)
<1> DEFINE T == disk[f]
<1>0. DOMAIN T = 1 .. Len(T) /\ Len(T) \in Nat /\ q \in Nat \ {0}
  BY TextOfFile
<1>1. ASSUME SecondHalf(f, q)
      PROVE  q > 1 /\ T[q - 1] \in Break /\ T[q - 1] # T[q] /\ ~ SecondHalf(f, q - 1)
  <2>1. PICK s \in 1 .. q - 1 :
            /\ (q - s) % 2 = 1 /\ \A j \in s .. q : T[j] \in Break
            /\ \A j \in s .. q - 1 : T[j] # T[j + 1]
            /\ s = 1 \/ T[s - 1] \notin Break \/ T[s - 1] = T[s]
    BY <1>1 DEF SecondHalf
  <2>2. q > 1 /\ q - 1 \in s .. q /\ q - 1 \in s .. q - 1 /\ (q - 1) + 1 = q
    BY <1>0
  <2>3. T[q - 1] \in Break /\ T[q - 1] # T[q]
    BY <2>1, <2>2
  <2>4. ASSUME SecondHalf(f, q - 1) PROVE FALSE
    <3>1. PICK r \in 1 .. (q - 1) - 1 :
              /\ ((q - 1) - r) % 2 = 1 /\ \A j \in r .. q - 1 : T[j] \in Break
              /\ \A j \in r .. (q - 1) - 1 : T[j] # T[j + 1]
              /\ r = 1 \/ T[r - 1] \notin Break \/ T[r - 1] = T[r]
      BY <2>4 DEF SecondHalf
    <3>2. s \in Nat \ {0} /\ r \in Nat \ {0} /\ r # s
      <4>1. s \in Nat \ {0} /\ r \in Nat \ {0} /\ q - s \in Nat /\ (q - 1) - s = (q - s) - 1
        BY <1>0
      <4>2. \A n \in Nat : ~ (n % 2 = 1 /\ (n - 1) % 2 = 1)
        OBVIOUS
      <4> QED
        BY <2>1, <3>1, <4>1, <4>2
    <3>3. CASE s < r
      <4>1. r - 1 \in s .. q /\ r - 1 \in s .. q - 1 /\ (r - 1) + 1 = r /\ r # 1
        BY <1>0, <3>2, <3>3
      <4> QED
        BY <2>1, <3>1, <4>1
    <3>4. CASE r < s
      <4>1. s - 1 \in r .. q - 1 /\ s - 1 \in r .. (q - 1) - 1 /\ (s - 1) + 1 = s /\ s # 1
        BY <1>0, <3>2, <3>4
      <4> QED
        BY <2>1, <3>1, <4>1
    <3> QED
      BY <3>2, <3>3, <3>4
  <2> QED
    BY <2>2, <2>3, <2>4
<1>2. ASSUME q > 1, T[q - 1] \in Break, T[q - 1] # T[q], ~ SecondHalf(f, q - 1)
      PROVE  SecondHalf(f, q)
  <2> DEFINE S == {s \in 1 .. q - 1 : (\A j \in s .. q - 1 : T[j] \in Break)
                                       /\ (\A j \in s .. (q - 1) - 1 : T[j] # T[j + 1])}
  <2>1. q - 1 \in S
    <3>1. q - 1 \in 1 .. q - 1 /\ \A j \in q - 1 .. q - 1 : j = q - 1
      BY <1>0, <1>2
    <3>2. \A j \in q - 1 .. (q - 1) - 1 : FALSE
      BY <1>0
    <3> QED
      BY <1>2, <3>1, <3>2
  <2>2. S \in SUBSET Nat
    BY <1>0
  <2>3. PICK s \in S : \A k \in S : s <= k
    <3> HIDE DEF S
    <3> QED
      BY <2>1, <2>2, Minimum
  <2>4. s \in 1 .. q - 1 /\ s \in Nat \ {0}
    BY <1>0
  <2>5. s = 1 \/ T[s - 1] \notin Break \/ T[s - 1] = T[s]
    <3> SUFFICES ASSUME s > 1, T[s - 1] \in Break, T[s - 1] # T[s] PROVE FALSE
      BY <2>4
    <3>1. s - 1 \in 1 .. q - 1 /\ (s - 1) + 1 = s
      BY <1>0, <2>4
    <3>2. \A j \in s - 1 .. q - 1 : j = s - 1 \/ j \in s .. q - 1
      BY <1>0, <2>4
    <3>3. \A j \in s - 1 .. (q - 1) - 1 : j = s - 1 \/ j \in s .. (q - 1) - 1
      BY <1>0, <2>4
    <3>4. s - 1 \in S
      BY <3>1, <3>2, <3>3
    <3>5. s <= s - 1
      BY <2>3, <3>4
    <3> QED
      BY <2>4, <3>5
  <2>6. (q - s) % 2 = 1
    <3>1. CASE s = q - 1
      BY <1>0, <3>1
    <3>2. CASE s # q - 1
      <4>1. s \in 1 .. (q - 1) - 1
        BY <1>0, <2>4, <3>2
      <4>2. ((q - 1) - s) % 2 # 1
        BY <1>2, <2>5, <4>1 DEF SecondHalf
      <4> QED
        BY <1>0, <2>4, <4>1, <4>2
    <3> QED
      BY <3>1, <3>2
  <2>7. \A j \in s .. q : j = q \/ j \in s .. q - 1
    BY <1>0, <2>4
  <2>8. \A j \in s .. q - 1 : j = q - 1 \/ j \in s .. (q - 1) - 1
    BY <1>0, <2>4
  <2>9. \A j \in s .. q : T[j] \in Break
    BY <2>7
  <2>10. (q - 1) + 1 = q
    BY <1>0
  <2>11. \A j \in s .. q - 1 : T[j] # T[j + 1]
    BY <1>2, <2>8, <2>10
  <2> HIDE DEF S
  <2> QED
    BY <2>4, <2>5, <2>6, <2>9, <2>11 DEF SecondHalf
<1> QED
  BY <1>1, <1>2

LEMMA CountOfLines ==
    ASSUME IInv, NEW f \in DOMAIN disk
    PROVE  /\ Terminators(f) \subseteq DOMAIN disk[f] /\ IsFiniteSet(Terminators(f))
           /\ \A p : IsFiniteSet({q \in Terminators(f) : q < p}) /\ LinesBefore(f, p) \in Nat
           /\ \A p \in Nat, r \in Nat : p <= r => LinesBefore(f, p) <= LinesBefore(f, r)
           /\ \A p \in Nat, r \in Nat, e \in Terminators(f) :
                  p <= e /\ e < r => LinesBefore(f, p) + 1 <= LinesBefore(f, r)
<1> DEFINE B(p) == {q \in Terminators(f) : q < p}
<1>1. DOMAIN disk[f] = 1 .. Len(disk[f]) /\ Len(disk[f]) \in Nat
  BY TextOfFile
<1>2. Terminators(f) \subseteq DOMAIN disk[f]
  BY DEF Terminators
<1>3. IsFiniteSet(Terminators(f))
  <2>1. Terminators(f) \in SUBSET Nat /\ \A q \in Terminators(f) : q <= Len(disk[f])
    BY <1>1, <1>2
  <2> QED
    BY <1>1, <2>1, FS_BoundedSetOfNaturals
<1>4. \A p : IsFiniteSet(B(p)) /\ LinesBefore(f, p) = Cardinality(B(p))
  BY <1>3, FS_Subset DEF LinesBefore
<1>5. \A p : LinesBefore(f, p) \in Nat
  BY <1>4, FS_CardinalityType
<1>6. ASSUME NEW p \in Nat, NEW r \in Nat, p <= r PROVE LinesBefore(f, p) <= LinesBefore(f, r)
  <2>1. B(p) \subseteq B(r)
    BY <1>1, <1>2, <1>6
  <2>2. Cardinality(B(p)) <= Cardinality(B(r))
    <3> HIDE DEF B
    <3> QED
      BY <1>4, <2>1, FS_Subset
  <2> QED
    BY <1>4, <2>2
<1>7. ASSUME NEW p \in Nat, NEW r \in Nat, NEW e \in Terminators(f), p <= e, e < r
      PROVE  LinesBefore(f, p) + 1 <= LinesBefore(f, r)
  <2>1. e \notin B(p) /\ e \in Nat
    BY <1>1, <1>2, <1>7
  <2>2. B(p) \cup {e} \subseteq B(r)
    BY <1>1, <1>2, <1>7
  <2>3. Cardinality(B(p) \cup {e}) = Cardinality(B(p)) + 1
    <3> HIDE DEF B
    <3> QED
      BY <1>4, <2>1, FS_AddElement
  <2>4. Cardinality(B(p) \cup {e}) <= Cardinality(B(r))
    <3> HIDE DEF B
    <3> QED
      BY <1>4, <2>2, FS_Subset
  <2> QED
    BY <1>4, <2>3, <2>4
<1> QED
  BY <1>2, <1>3, <1>4, <1>5, <1>6, <1>7

\* Every line ends where read_line says that it ends.
LEMMA EndsAreCounted ==
    ASSUME IInv, HasLine, AtLine(Top)
    PROVE  /\ End \in Terminators(Top.name)
           /\ \A q \in Terminators(Top.name) : q < End + 1 => q < Top.pos \/ q = End
<1> DEFINE T == disk[Top.name]
<1>1. /\ stack # <<>> /\ Top \in Activation /\ Begin \in Nat \ {0} /\ Top.pos <= Begin
      /\ End \in Nat /\ Begin <= End /\ End <= Len(Text) /\ Text[End] \in Break
      /\ \A q \in Ends : End <= q
  BY LineSpan
<1>2. Top.name \in DOMAIN disk /\ Text = T /\ Top.pos \in Nat \ {0} /\ Top.kind # "folder"
  BY <1>1, Running DEF HasLine, Reading, FrameFits, Top, Text, Activation
<1>3. DOMAIN T = 1 .. Len(T) /\ Len(T) \in Nat
  BY <1>2, TextOfFile
<1>4. Begin = IF OtherHalf THEN Top.pos + 1 ELSE Top.pos
  BY DEF Begin
<1>5. Top.pos > 1 => /\ Top.pos - 1 \in Terminators(Top.name) /\ Top.last = T[Top.pos - 1]
                     /\ Top.pos - 1 \in DOMAIN T /\ T[Top.pos - 1] \in Break /\ ~ SecondHalf(Top.name, Top.pos - 1)
  BY <1>2 DEF AtLine, Terminators
<1>6. Top.pos = 1 => Top.last = None
  BY <1>2 DEF AtLine
<1>7. OtherHalf => /\ Top.pos > 1 /\ Top.pos \in DOMAIN T /\ T[Top.pos] \in Break /\ T[Top.pos] # T[Top.pos - 1]
  <2>1. OtherHalf => Top.pos <= Len(T) /\ Top.last # None /\ T[Top.pos] \in Break \ {Top.last}
    BY <1>2 DEF OtherHalf
  <2> QED
    BY <1>2, <1>3, <1>5, <1>6, <2>1
<1>8. OtherHalf => SecondHalf(Top.name, Top.pos)
  <2> SUFFICES ASSUME OtherHalf PROVE SecondHalf(Top.name, Top.pos)
    OBVIOUS
  <2> QED
    BY <1>2, <1>5, <1>7, HalfRule
<1>9. ~ SecondHalf(Top.name, End)
  <2> SUFFICES ASSUME SecondHalf(Top.name, End) PROVE FALSE
    OBVIOUS
  <2>0. End \in DOMAIN T
    BY <1>1, <1>2, <1>3
  <2>1. End > 1 /\ T[End - 1] \in Break /\ T[End - 1] # T[End] /\ ~ SecondHalf(Top.name, End - 1)
    BY <1>1, <1>2, <2>0, HalfRule
  <2>2. CASE End > Begin
    <3>1. End - 1 \in Begin .. Len(Text)
      BY <1>1, <1>2, <1>3, <2>2
    <3>2. End - 1 \in Ends
      BY <1>2, <2>1, <3>1 DEF Ends
    <3> QED
      BY <1>1, <3>2
  <2>3. CASE End = Begin /\ OtherHalf
    <3>1. End - 1 = Top.pos
      BY <1>1, <1>2, <1>4, <2>3
    <3> QED
      BY <1>8, <2>1, <2>3, <3>1
  <2>4. CASE End = Begin /\ ~OtherHalf
    <3>1. End = Top.pos
      BY <1>4, <2>4
    <3>2. Top.last # None /\ T[Top.pos] # Top.last
      <4>1. Top.last = T[Top.pos - 1] /\ T[Top.pos - 1] \in Break /\ T[Top.pos - 1] # T[Top.pos]
        BY <1>5, <2>1, <3>1
      <4> QED
        BY <4>1, ConfigAssumption
    <3>3. OtherHalf
      BY <1>1, <1>2, <3>1, <3>2 DEF OtherHalf
    <3> QED
      BY <2>4, <3>3
  <2> QED
    BY <1>1, <2>2, <2>3, <2>4
<1>10. End \in Terminators(Top.name)
  BY <1>1, <1>2, <1>3, <1>9 DEF Terminators
<1>11. ASSUME NEW q \in Terminators(Top.name), q < End + 1, ~ (q < Top.pos), q # End
       PROVE  FALSE
  <2>1. q \in DOMAIN T /\ T[q] \in Break /\ ~ SecondHalf(Top.name, q) /\ q \in Nat
    BY <1>3 DEF Terminators
  <2>2. q < End /\ q >= Top.pos
    BY <1>1, <1>2, <1>11, <2>1
  <2>3. CASE q >= Begin
    <3>1. q \in Ends
      BY <1>1, <1>2, <1>3, <2>1, <2>3 DEF Ends
    <3> QED
      BY <1>1, <2>1, <2>2, <3>1
  <2>4. CASE q < Begin
    <3>1. OtherHalf /\ q = Top.pos
      BY <1>1, <1>2, <1>4, <2>1, <2>2, <2>4
    <3> QED
      BY <1>8, <2>1, <3>1
  <2> QED
    BY <1>1, <2>1, <2>3, <2>4
<1> QED
  BY <1>10, <1>11

\* A frame that has taken the line that is read next.
LEMMA LineIsNumbered ==
    ASSUME IInv, HasLine, AtLine(Top), NEW f, f.kind = Top.kind, f.name = Top.name, f.pos = After.pos,
           f.last = After.last, f.line = After.line
    PROVE  /\ AtLine(f) /\ f.line = Top.line + 1 /\ Top.line \in Nat
           /\ \A p \in Starts(f.name) :
                  /\ p = Begin => LinesBefore(f.name, p) + 1 = f.line
                  /\ LinesBefore(f.name, p) + 1 = f.line => p = Begin /\ disk[f.name][p] = Line
<1>1. /\ stack # <<>> /\ Top \in Activation /\ Begin \in Nat \ {0} /\ Top.pos <= Begin
      /\ End \in Nat /\ Begin <= End /\ End <= Len(Text) /\ Text[End] \in Break
      /\ \A q \in Ends : End <= q
  BY LineSpan
<1>2. /\ Top.name \in DOMAIN disk /\ Text = disk[Top.name] /\ Top.pos \in Nat \ {0} /\ Top.line \in Nat
      /\ Top.kind # "folder"
  BY <1>1, Running DEF HasLine, Reading, FrameFits, Top, Text, Activation
<1>3. After.pos = End + 1 /\ After.last = Text[End] /\ After.line = Top.line + 1
  BY <1>1 DEF After, Activation
<1>4. /\ End \in Terminators(Top.name)
      /\ \A q \in Terminators(Top.name) : q < End + 1 => q < Top.pos \/ q = End
  BY EndsAreCounted
<1>5. /\ Terminators(Top.name) \subseteq DOMAIN disk[Top.name]
      /\ \A p : IsFiniteSet({q \in Terminators(Top.name) : q < p}) /\ LinesBefore(Top.name, p) \in Nat
      /\ \A p \in Nat, r \in Nat : p <= r => LinesBefore(Top.name, p) <= LinesBefore(Top.name, r)
      /\ \A p \in Nat, r \in Nat, e \in Terminators(Top.name) :
             p <= e /\ e < r => LinesBefore(Top.name, p) + 1 <= LinesBefore(Top.name, r)
  BY <1>2, CountOfLines
<1>6. Top.line = LinesBefore(Top.name, Top.pos)
  BY <1>2 DEF AtLine
<1>7. DOMAIN disk[Top.name] = 1 .. Len(disk[Top.name]) /\ Starts(Top.name) \subseteq Nat \ {0}
  BY <1>2, TextOfFile
<1>8. LinesBefore(Top.name, End + 1) = Top.line + 1
  <2>1. {q \in Terminators(Top.name) : q < End + 1} = {q \in Terminators(Top.name) : q < Top.pos} \cup {End}
    BY <1>1, <1>2, <1>4, <1>5, <1>7
  <2>2. End \notin {q \in Terminators(Top.name) : q < Top.pos}
    BY <1>1, <1>2
  <2> QED
    BY <1>5, <1>6, <2>1, <2>2, FS_AddElement DEF LinesBefore
<1>9. AtLine(f)
  BY <1>1, <1>2, <1>3, <1>4, <1>8 DEF AtLine
<1>10. ASSUME NEW p \in Starts(Top.name)
       PROVE  /\ p = Begin => LinesBefore(Top.name, p) + 1 = Top.line + 1
              /\ LinesBefore(Top.name, p) + 1 = Top.line + 1 => p = Begin /\ disk[Top.name][p] = Line
  <2>1. p \in Nat \ {0} /\ disk[Top.name][p] \notin Break /\ p \in DOMAIN disk[Top.name]
    BY <1>7 DEF Starts
  <2>2. ASSUME p = Begin PROVE LinesBefore(Top.name, p) = Top.line
    <3>1. \A q \in Terminators(Top.name) : q < Begin => q < Top.pos
      BY <1>1, <1>4, <1>5, <1>7
    <3>2. {q \in Terminators(Top.name) : q < p} = {q \in Terminators(Top.name) : q < Top.pos}
      BY <1>1, <1>2, <1>5, <1>7, <2>2, <3>1
    <3> QED
      BY <1>6, <3>2 DEF LinesBefore
  <2>3. CASE p > End
    <3>1. p >= End + 1 /\ LinesBefore(Top.name, p) >= LinesBefore(Top.name, End + 1)
      BY <1>1, <1>5, <2>1, <2>3
    <3> QED
      <4>1. LinesBefore(Top.name, p) \in Nat /\ LinesBefore(Top.name, p) >= Top.line + 1
        BY <1>5, <1>8, <3>1
      <4> QED
        BY <1>1, <1>2, <2>1, <2>3, <4>1
  <2>4. CASE p < Top.pos
    <3>1. Top.pos > 1 /\ Top.pos - 1 \in Terminators(Top.name)
      BY <1>2, <2>1, <2>4 DEF AtLine
    <3>2. LinesBefore(Top.name, p) + 1 <= LinesBefore(Top.name, Top.pos)
      BY <1>2, <1>5, <2>1, <2>4, <3>1
    <3> QED
      BY <1>1, <1>2, <1>5, <1>6, <2>1, <2>4, <3>2
  <2>5. CASE p <= End /\ ~ (p < Top.pos)
    <3>1. AtLineStart(Top)
      <4>1. Top.pos > 1 => Top.pos - 1 \in Terminators(Top.name)
        BY <1>2 DEF AtLine
      <4> QED
        BY <1>2, <4>1 DEF AtLineStart, Terminators
    <3>2. p = Begin /\ disk[Top.name][p] = Line
      BY <2>5, <3>1, LineStart
    <3> QED
      BY <2>2, <3>2
  <2> QED
    BY <1>1, <1>2, <2>1, <2>3, <2>4, <2>5
<1> QED
  BY <1>2, <1>3, <1>9, <1>10

\* At the end of a file all its lines have been taken.
LEMMA LinesAreTaken ==
    ASSUME IInv, AtLine(Top), EndOfFile, NEW p \in Starts(Top.name)
    PROVE  LinesBefore(Top.name, p) + 1 <= Top.line
<1>1. Reading /\ stack # <<>> /\ Top.kind # "folder" /\ Top.name \in DOMAIN disk /\ Top.pos \in Nat \ {0}
  BY Running DEF EndOfFile, Reading, FrameFits, Top, Activation
<1>2. p < Top.pos
  BY NothingLeft DEF EndOfFile
<1>3. p \in Nat \ {0}
  BY <1>1, TextOfFile
<1>4. Top.line = LinesBefore(Top.name, Top.pos) /\ Top.pos - 1 \in Terminators(Top.name)
  BY <1>1, <1>2, <1>3 DEF AtLine
<1> QED
  BY <1>1, <1>2, <1>3, <1>4, CountOfLines

\* A line has one number and a number one line.
LEMMA OneStart ==
    ASSUME IInv, NEW f \in DOMAIN disk, NEW p \in Starts(f), NEW q \in Starts(f),
           LinesBefore(f, p) = LinesBefore(f, q)
    PROVE  p = q
<1> DEFINE T == disk[f]
<1>1. DOMAIN T = 1 .. Len(T) /\ Len(T) \in Nat /\ Starts(f) \subseteq Nat \ {0}
  BY TextOfFile
<1>2. ASSUME NEW a \in Starts(f), NEW b \in Starts(f), a < b
      PROVE  LinesBefore(f, a) + 1 <= LinesBefore(f, b)
  <2>1. /\ a \in DOMAIN T /\ b \in DOMAIN T /\ a \in Nat \ {0} /\ b \in Nat \ {0}
        /\ T[a] \notin Break /\ T[b - 1] \in Break
    BY <1>1, <1>2 DEF Starts
  <2> DEFINE S == {e \in a .. b - 1 : T[e] \in Break}
  <2>2. b - 1 \in S /\ S \in SUBSET Nat
    BY <1>2, <2>1
  <2>3. PICK e \in S : \A k \in S : e <= k
    <3> HIDE DEF S
    <3> QED
      BY <2>2, Minimum
  <2>4. e \in Nat /\ a < e /\ e < b /\ e \in DOMAIN T /\ T[e] \in Break
    <3>1. e \in a .. b - 1 /\ T[e] \in Break
      OBVIOUS
    <3>2. e # a
      BY <2>1, <3>1
    <3> QED
      BY <1>1, <2>1, <3>1, <3>2
  <2>5. ~ SecondHalf(f, e)
    <3> SUFFICES ASSUME SecondHalf(f, e) PROVE FALSE
      OBVIOUS
    <3>1. T[e - 1] \in Break
      BY <2>4, HalfRule
    <3>2. e - 1 \in S
      BY <2>1, <2>4, <3>1
    <3>3. e <= e - 1
      BY <2>3, <3>2
    <3> QED
      BY <2>4, <3>3
  <2>6. e \in Terminators(f)
    BY <2>4, <2>5 DEF Terminators
  <2> QED
    BY <2>1, <2>4, <2>6, CountOfLines
<1>3. ~ (p < q) /\ ~ (q < p)
  <2>1. LinesBefore(f, p) \in Nat /\ LinesBefore(f, q) \in Nat
    BY CountOfLines
  <2> QED
    BY <1>2, <2>1
<1> QED
  BY <1>1, <1>3

LEMMA OneStatement ==
    ASSUME IInv, NEW x, x.name \in DOMAIN disk, NEW l, NEW m, Says(x, l), Says(x, m)
    PROVE  l = m
<1>1. PICK p \in Starts(x.name) : StatedAt(x, p) /\ disk[x.name][p] = l
  BY DEF Says
<1>2. PICK q \in Starts(x.name) : StatedAt(x, q) /\ disk[x.name][q] = m
  BY DEF Says
<1>3. LinesBefore(x.name, p) \in Nat /\ LinesBefore(x.name, q) \in Nat
  BY CountOfLines
<1>4. LinesBefore(x.name, p) = LinesBefore(x.name, q)
  BY <1>1, <1>2, <1>3 DEF StatedAt
<1> QED
  BY <1>1, <1>2, <1>4, OneStart

-----------------------------------------------------------------------------
\* Calls in the order of places.

\* The last call is one line further; and what such a step, a call and a
\* return do to what is behind.
OneFurther(c, d) ==
    /\ c # <<>> /\ Len(d) = Len(c) /\ \A j \in 1 .. Len(c) - 1 : d[j] = c[j]
    /\ d[Len(c)].kind = c[Len(c)].kind /\ d[Len(c)].name = c[Len(c)].name /\ d[Len(c)].line = c[Len(c)].line + 1
CallsBehind(e, c) == Earlier(e, c) \/ Begins(c, e)
\* The same lines call the same files.
Alike(e, c) ==
    \A m \in DOMAIN e \cap DOMAIN c :
        (\A j \in 1 .. m - 1 : e[j] = c[j]) => e[m].kind = c[m].kind /\ e[m].name = c[m].name

LEMMA SpotSequence ==
    ASSUME NEW c \in Seq(Spot)
    PROVE  /\ Len(c) \in Nat /\ DOMAIN c = 1 .. Len(c) /\ (c # <<>> => Len(c) \in 1 .. Len(c))
           /\ \A j \in DOMAIN c : c[j] \in Spot /\ c[j].line \in Nat
<1>1. Len(c) \in Nat /\ DOMAIN c = 1 .. Len(c)
  BY LenProperties
<1>2. c # <<>> => Len(c) \in 1 .. Len(c)
  BY <1>1, EmptySeq
<1>3. \A j \in DOMAIN c : c[j] \in Spot
  BY <1>1, ElementOfSeq
<1> QED
  BY <1>1, <1>2, <1>3 DEF Spot

LEMMA SameSpot ==
    ASSUME NEW x \in Spot, NEW y \in Spot, x.kind = y.kind, x.name = y.name, x.line = y.line
    PROVE  x = y
<1>1. /\ x = [kind |-> x.kind, name |-> x.name, line |-> x.line]
      /\ y = [kind |-> y.kind, name |-> y.name, line |-> y.line]
  BY DEF Spot
<1> QED
  BY <1>1

LEMMA BehindFurther ==
    ASSUME NEW c \in Seq(Spot), NEW d \in Seq(Spot), NEW e \in Seq(Spot), OneFurther(c, d)
    PROVE  /\ CallsBehind(e, c) => Earlier(e, d)
           /\ Earlier(e, d) /\ Alike(e, c) => CallsBehind(e, c)
<1>1. /\ Len(c) \in Nat /\ DOMAIN c = 1 .. Len(c) /\ Len(c) \in 1 .. Len(c) /\ \A j \in DOMAIN c : c[j] \in Spot /\ c[j].line \in Nat
      /\ Len(d) \in Nat /\ DOMAIN d = 1 .. Len(d) /\ \A j \in DOMAIN d : d[j] \in Spot /\ d[j].line \in Nat
      /\ Len(e) \in Nat /\ DOMAIN e = 1 .. Len(e) /\ \A j \in DOMAIN e : e[j] \in Spot /\ e[j].line \in Nat
  BY SpotSequence DEF OneFurther
<1> DEFINE n == Len(c)
<1>2. Len(d) = n /\ (\A j \in 1 .. n - 1 : d[j] = c[j]) /\ d[n].line = c[n].line + 1
      /\ d[n].kind = c[n].kind /\ d[n].name = c[n].name
  BY DEF OneFurther
<1>3. ASSUME Earlier(e, c) PROVE Earlier(e, d)
  <2>1. PICK m \in DOMAIN e \cap DOMAIN c : e[m].line < c[m].line /\ \A j \in 1 .. m - 1 : e[j] = c[j]
    BY <1>3 DEF Earlier
  <2>2. m \in 1 .. n /\ \A j \in 1 .. m - 1 : j \in 1 .. n - 1
    BY <1>1
  <2>3. e[m].line < d[m].line
    <3>1. e[m].line \in Nat /\ c[m].line \in Nat
      BY <1>1
    <3>2. CASE m = n
      BY <1>2, <2>1, <3>1, <3>2
    <3>3. CASE m # n
      BY <1>1, <1>2, <2>1, <2>2, <3>3
    <3> QED
      BY <3>2, <3>3
  <2> QED
    BY <1>1, <1>2, <2>1, <2>2, <2>3 DEF Earlier
<1>4. ASSUME Begins(c, e) PROVE Earlier(e, d)
  <2>0. n <= Len(e) /\ \A j \in DOMAIN c : e[j] = c[j]
    BY <1>4 DEF Begins
  <2>1. n \in DOMAIN e /\ n \in DOMAIN d /\ \A j \in 1 .. n : e[j] = c[j]
    <3>1. n \in 1 .. Len(e) /\ n \in 1 .. Len(d)
      BY <1>1, <1>2, <2>0
    <3> QED
      BY <1>1, <2>0, <3>1
  <2>2. e[n].line < d[n].line
    BY <1>1, <1>2, <2>1
  <2>3. \A j \in 1 .. n - 1 : e[j] = d[j]
    BY <1>1, <1>2, <2>1
  <2> QED
    BY <2>1, <2>2, <2>3 DEF Earlier
<1>5. ASSUME Earlier(e, d), Alike(e, c) PROVE CallsBehind(e, c)
  <2>1. PICK m \in DOMAIN e \cap DOMAIN d : e[m].line < d[m].line /\ \A j \in 1 .. m - 1 : e[j] = d[j]
    BY <1>5 DEF Earlier
  <2>2. m \in 1 .. n /\ \A j \in 1 .. m - 1 : j \in 1 .. n - 1
    BY <1>1, <1>2
  <2>3. \A j \in 1 .. m - 1 : e[j] = c[j]
    BY <1>2, <2>1, <2>2
  <2>4. CASE m # n \/ e[n].line < c[n].line
    <3>1. e[m].line < c[m].line
      BY <1>1, <1>2, <2>1, <2>2, <2>4
    <3> QED
      BY <1>1, <2>2, <2>3, <3>1 DEF Earlier, CallsBehind
  <2>5. CASE m = n /\ ~ (e[n].line < c[n].line)
    <3>1. e[n].line = c[n].line /\ n \in DOMAIN e \cap DOMAIN c
      BY <1>1, <1>2, <2>1, <2>5
    <3>2. e[n].kind = c[n].kind /\ e[n].name = c[n].name
      BY <1>5, <2>3, <2>5, <3>1 DEF Alike
    <3>3. e[n] = c[n]
      <4>1. e[n] \in Spot /\ c[n] \in Spot
        BY <1>1, <3>1
      <4> QED
        BY <3>1, <3>2, <4>1, SameSpot
    <3>4. \A j \in 1 .. n : j = n \/ j \in 1 .. n - 1
      <4>1. n \in Nat
        BY <1>1
      <4> QED
        BY <4>1
    <3>5. n <= Len(e) /\ \A j \in DOMAIN c : e[j] = c[j]
      <4>1. n <= Len(e)
        BY <1>1, <3>1
      <4>2. \A j \in 1 .. n - 1 : e[j] = c[j]
        BY <2>3, <2>5
      <4>3. DOMAIN c = 1 .. n
        BY <1>1
      <4> HIDE DEF n
      <4> QED
        BY <3>3, <3>4, <4>1, <4>2, <4>3
    <3> QED
      BY <3>5 DEF Begins, CallsBehind
  <2> QED
    BY <2>4, <2>5
<1> QED
  BY <1>3, <1>4, <1>5 DEF CallsBehind

LEMMA BehindCall ==
    ASSUME NEW d \in Seq(Spot), NEW x \in Spot, NEW e \in Seq(Spot)
    PROVE  /\ Earlier(e, d) => Earlier(e, Append(d, x))
           /\ (x.line = 0 /\ (\A j \in DOMAIN e : e[j].line # 0) /\ CallsBehind(e, Append(d, x))) => Earlier(e, d)
<1> DEFINE c == Append(d, x)
           n == Len(d)
<1>1. /\ n \in Nat /\ DOMAIN d = 1 .. n /\ Len(e) \in Nat /\ DOMAIN e = 1 .. Len(e)
      /\ \A j \in DOMAIN e : e[j].line \in Nat
  BY SpotSequence
<1>2. c \in Seq(Spot) /\ Len(c) = n + 1 /\ (\A j \in 1 .. n : c[j] = d[j]) /\ c[n + 1] = x
  BY AppendProperties
<1>3. DOMAIN c = 1 .. n + 1
  BY <1>2, SpotSequence
<1> HIDE DEF c
<1>4. ASSUME Earlier(e, d) PROVE Earlier(e, c)
  <2>1. PICK m \in DOMAIN e \cap DOMAIN d : e[m].line < d[m].line /\ \A j \in 1 .. m - 1 : e[j] = d[j]
    BY <1>4 DEF Earlier
  <2>2. m \in 1 .. n /\ m \in DOMAIN c /\ \A j \in 1 .. m - 1 : j \in 1 .. n
    BY <1>1, <1>3
  <2> QED
    BY <1>2, <2>1, <2>2 DEF Earlier
<1>5. ASSUME x.line = 0, \A j \in DOMAIN e : e[j].line # 0, CallsBehind(e, c)
      PROVE  Earlier(e, d)
  <2>1. CASE Earlier(e, c)
    <3>1. PICK m \in DOMAIN e \cap DOMAIN c : e[m].line < c[m].line /\ \A j \in 1 .. m - 1 : e[j] = c[j]
      BY <2>1 DEF Earlier
    <3>2. m # n + 1
      BY <1>1, <1>2, <1>5, <3>1
    <3>3. m \in 1 .. n /\ \A j \in 1 .. m - 1 : j \in 1 .. n
      BY <1>1, <1>3, <3>2
    <3> QED
      BY <1>1, <1>2, <3>1, <3>3 DEF Earlier
  <2>2. CASE Begins(c, e)
    <3>1. n + 1 \in DOMAIN e /\ e[n + 1] = x
      BY <1>1, <1>2, <1>3, <2>2 DEF Begins
    <3> QED
      BY <1>5, <3>1
  <2> QED
    BY <1>5, <2>1, <2>2 DEF CallsBehind
<1> QED
  BY <1>4, <1>5 DEF c

LEMMA BehindReturn ==
    ASSUME NEW c \in Seq(Spot), NEW d \in Seq(Spot), NEW e \in Seq(Spot), Begins(d, c)
    PROVE  CallsBehind(e, c) => CallsBehind(e, d)
<1>1. /\ Len(c) \in Nat /\ DOMAIN c = 1 .. Len(c) /\ Len(d) \in Nat /\ DOMAIN d = 1 .. Len(d)
      /\ Len(e) \in Nat /\ DOMAIN e = 1 .. Len(e)
  BY SpotSequence
<1>2. Len(d) <= Len(c) /\ \A j \in 1 .. Len(d) : c[j] = d[j]
  BY <1>1 DEF Begins
<1>3. ASSUME Earlier(e, c) PROVE CallsBehind(e, d)
  <2>1. PICK m \in DOMAIN e \cap DOMAIN c : e[m].line < c[m].line /\ \A j \in 1 .. m - 1 : e[j] = c[j]
    BY <1>3 DEF Earlier
  <2>2. CASE m <= Len(d)
    <3>1. m \in DOMAIN d /\ m \in 1 .. Len(d) /\ \A j \in 1 .. m - 1 : j \in 1 .. Len(d)
      BY <1>1, <2>2
    <3> QED
      BY <1>2, <2>1, <3>1 DEF Earlier, CallsBehind
  <2>3. CASE m > Len(d)
    <3>1. Len(d) <= Len(e) /\ \A j \in 1 .. Len(d) : j \in 1 .. m - 1
      BY <1>1, <2>3
    <3> QED
      BY <1>1, <1>2, <2>1, <3>1 DEF Begins, CallsBehind
  <2> QED
    BY <1>1, <2>2, <2>3
<1>4. ASSUME Begins(c, e) PROVE Begins(d, e)
  BY <1>1, <1>2, <1>4 DEF Begins
<1> QED
  BY <1>3, <1>4 DEF CallsBehind

\* What the last call has passed is behind it.
LEMMA BehindEnd ==
    ASSUME NEW c \in Seq(Spot), NEW d \in Seq(Spot), NEW e \in Seq(Spot), c # <<>>, Begins(d, c), Len(d) = Len(c) - 1,
           CallsBehind(e, d), Alike(e, c), e # d,
           Len(c) \in DOMAIN e /\ e[Len(c)].kind = c[Len(c)].kind /\ e[Len(c)].name = c[Len(c)].name
               => e[Len(c)].line <= c[Len(c)].line
    PROVE  CallsBehind(e, c)
<1> DEFINE n == Len(c)
<1>1. /\ n \in Nat \ {0} /\ DOMAIN c = 1 .. n /\ Len(d) = n - 1 /\ DOMAIN d = 1 .. n - 1
      /\ Len(e) \in Nat /\ DOMAIN e = 1 .. Len(e)
      /\ \A j \in DOMAIN c : c[j] \in Spot /\ c[j].line \in Nat
      /\ \A j \in DOMAIN e : e[j] \in Spot /\ e[j].line \in Nat
  BY SpotSequence
<1>2. \A j \in 1 .. n - 1 : c[j] = d[j]
  BY <1>1 DEF Begins
<1>3. ASSUME Earlier(e, d) PROVE Earlier(e, c)
  <2>1. PICK m \in DOMAIN e \cap DOMAIN d : e[m].line < d[m].line /\ \A j \in 1 .. m - 1 : e[j] = d[j]
    BY <1>3 DEF Earlier
  <2>2. m \in 1 .. n - 1 /\ m \in DOMAIN c /\ \A j \in 1 .. m - 1 : j \in 1 .. n - 1
    BY <1>1
  <2> QED
    BY <1>2, <2>1, <2>2 DEF Earlier
<1>4. ASSUME Begins(d, e) PROVE CallsBehind(e, c)
  <2>1. \A j \in 1 .. n - 1 : e[j] = c[j]
    BY <1>1, <1>2, <1>4 DEF Begins
  <2>2. Len(e) >= n
    <3>1. Len(e) >= n - 1
      BY <1>1, <1>4 DEF Begins
    <3>2. Len(e) # n - 1
      <4> SUFFICES ASSUME Len(e) = n - 1 PROVE FALSE
        OBVIOUS
      <4>1. Len(e) = Len(d) /\ \A j \in 1 .. Len(e) : e[j] = d[j]
        BY <1>1, <1>2, <2>1
      <4> QED
        BY <4>1, SeqEqual
    <3> QED
      BY <1>1, <3>1, <3>2
  <2>3. n \in DOMAIN e /\ n \in DOMAIN c
    BY <1>1, <2>2
  <2>4. e[n].kind = c[n].kind /\ e[n].name = c[n].name
    BY <2>1, <2>3 DEF Alike
  <2>5. CASE e[n].line < c[n].line
    BY <2>1, <2>3, <2>5 DEF Earlier, CallsBehind
  <2>6. CASE e[n].line = c[n].line
    <3>1. e[n] = c[n]
      <4>1. e[n] \in Spot /\ c[n] \in Spot
        BY <1>1, <2>3
      <4> QED
        BY <2>4, <2>6, <4>1, SameSpot
    <3>2. \A j \in 1 .. n : j = n \/ j \in 1 .. n - 1
      BY <1>1
    <3>3. \A j \in DOMAIN c : e[j] = c[j]
      BY <1>1, <2>1, <3>1, <3>2
    <3> QED
      BY <2>2, <3>3 DEF Begins, CallsBehind
  <2> QED
    BY <1>1, <2>3, <2>4, <2>5, <2>6
<1> QED
  BY <1>3, <1>4 DEF CallsBehind

-----------------------------------------------------------------------------
\* The stack is a place.

\* How the frame i of a stack has come about: from the line, or the name, that
\* the frame below has taken last.
FolderFits(f) ==
    f.kind = "folder" =>
        /\ f.name \in DOMAIN Folders /\ Len(f.todo) <= Len(AsListed(f.name))
        /\ \A k \in DOMAIN f.todo : f.todo[k] = AsListed(f.name)[Len(AsListed(f.name)) - Len(f.todo) + k]
Encloses(s, j, i, objs) ==
    /\ s[i].kind # "rules" => s[j].kind = "config"
    /\ s[i].kind = "rules" /\ s[j].kind = "rules" => j > i - s[i].depth
    /\ s[i].kind # "config" /\ s[j].kind = "config" /\ s[j + 1].kind # "config" =>
           SaidIn(SpotOf(s[j]), "proxy", objs[s[i].section].name)
FrameTraced(s, i, objs, n) ==
    /\ AtLine(s[i]) /\ FolderFits(s[i])
    /\ s[i].kind # "folder" => s[i].depth >= 1
    /\ \A j \in 1 .. i - 1 : Encloses(s, j, i, objs)
    /\ i = 1 => /\ n - 1 \in DOMAIN options /\ options[n - 1].op = "c"
                /\ s[1].kind = "config" /\ s[1].name = options[n - 1].name
    /\ i > 1 => LeadsTo(SpotOf(s[i - 1]), SpotOf(s[i]))
IsTraced(s, objs, n) == \A i \in DOMAIN s : FrameTraced(s, i, objs, n)
Traced == IsTraced(stack, objects, optind)

LEMMA SpotIsOne ==
    ASSUME NEW f \in Activation, FolderFits(f)
    PROVE  /\ SpotOf(f) \in Spot /\ SpotOf(f).kind = f.kind /\ SpotOf(f).name = f.name
           /\ f.kind # "folder" => SpotOf(f).line = f.line
           /\ f.kind = "folder" => SpotOf(f).line = Len(AsListed(f.name)) - Len(f.todo)
<1>1. f.kind \in {"config", "rules", "folder"} /\ f.name \in Name /\ f.line \in Nat /\ f.todo \in Seq(Name)
  BY DEF Activation
<1>2. CASE f.kind = "folder"
  <2>1. AsListed(f.name) \in Seq(Name) /\ Len(f.todo) <= Len(AsListed(f.name))
    BY <1>2, ConfigAssumption DEF FolderFits
  <2>2. Len(AsListed(f.name)) - Len(f.todo) \in Nat
    BY <1>1, <2>1, LenProperties
  <2> QED
    BY <1>1, <1>2, <2>2 DEF SpotOf, Spot
<1>3. CASE f.kind # "folder"
  BY <1>1, <1>3 DEF SpotOf, Spot
<1> QED
  BY <1>2, <1>3

LEMMA SpotsOfStack ==
    ASSUME NEW s \in Seq(Activation), \A i \in DOMAIN s : FolderFits(s[i])
    PROVE  /\ Spots(s) \in Seq(Spot) /\ Len(Spots(s)) = Len(s) /\ DOMAIN Spots(s) = 1 .. Len(s)
           /\ DOMAIN s = 1 .. Len(s) /\ Len(s) \in Nat
           /\ \A j \in 1 .. Len(s) : Spots(s)[j] = SpotOf(s[j])
<1>1. DOMAIN s = 1 .. Len(s) /\ Len(s) \in Nat
  BY LenProperties
<1>2. \A j \in 1 .. Len(s) : SpotOf(s[j]) \in Spot
  BY <1>1, SpotIsOne, ElementOfSeq
<1>3. Spots(s) = [j \in 1 .. Len(s) |-> SpotOf(s[j])]
  BY <1>1 DEF Spots
<1>4. Spots(s) \in [1 .. Len(s) -> Spot]
  BY <1>2, <1>3
<1>5. Spots(s) \in Seq(Spot)
  BY <1>1, <1>4
<1>6. Len(Spots(s)) = Len(s)
  BY <1>1, <1>4, <1>5
<1> QED
  BY <1>1, <1>3, <1>5, <1>6

LEMMA TracedReturn ==
    ASSUME NEW s \in Seq(Activation), NEW t \in Seq(Activation), NEW objs, NEW n, IsTraced(s, objs, n),
           Len(t) <= Len(s), \A i \in 1 .. Len(t) : t[i] = s[i]
    PROVE  IsTraced(t, objs, n)
<1> SUFFICES ASSUME NEW i \in DOMAIN t PROVE FrameTraced(t, i, objs, n)
  BY DEF IsTraced
<1>1. DOMAIN s = 1 .. Len(s) /\ DOMAIN t = 1 .. Len(t) /\ Len(s) \in Nat /\ Len(t) \in Nat
  BY LenProperties
<1>2. i \in DOMAIN s /\ i \in Nat \ {0} /\ \A j \in 1 .. i : t[j] = s[j]
  BY <1>1
<1>3. FrameTraced(s, i, objs, n)
  BY <1>2 DEF IsTraced
<1>4. t[i] = s[i] /\ (\A j \in 1 .. i - 1 : t[j] = s[j] /\ t[j + 1] = s[j + 1])
      /\ (i > 1 => t[i - 1] = s[i - 1]) /\ (i = 1 => t[1] = s[1])
  BY <1>2
<1>5. \A j \in 1 .. i - 1 : Encloses(t, j, i, objs)
  BY <1>3, <1>4 DEF FrameTraced, Encloses
<1> QED
  BY <1>3, <1>4, <1>5 DEF FrameTraced

LEMMA TracedObjects ==
    ASSUME NEW objs, Known(objs), NEW more, Keeps(objs, more), NEW s, Sound(s, Len(objs)), NEW n, IsTraced(s, objs, n)
    PROVE  IsTraced(s, more, n)
<1> SUFFICES ASSUME NEW i \in DOMAIN s PROVE FrameTraced(s, i, more, n)
  BY DEF IsTraced
<1>1. FrameTraced(s, i, objs, n) /\ FrameFits(s, i, Len(objs))
  BY DEF IsTraced, Sound
<1>2. s[i].kind # "config" => s[i].section \in DOMAIN objs
  BY <1>1, LenProperties DEF FrameFits, Known
<1>3. s[i].kind # "config" => more[s[i].section].name = objs[s[i].section].name
  BY <1>2 DEF Keeps
<1>4. \A j \in 1 .. i - 1 : Encloses(s, j, i, more)
  BY <1>1, <1>3 DEF FrameTraced, Encloses
<1> QED
  BY <1>1, <1>4 DEF FrameTraced

\* The last frame takes a line or a name.
LEMMA TracedFurther ==
    ASSUME NEW s \in Seq(Activation), NEW objs, NEW n, IsTraced(s, objs, n), s # <<>>, NEW f \in Activation,
           LET t == s[Len(s)] IN /\ f.kind = t.kind /\ f.name = t.name /\ f.depth = t.depth
                                 /\ f.kind # "config" => f.section = t.section,
           AtLine(f), FolderFits(f)
    PROVE  IsTraced([s EXCEPT ![Len(s)] = f], objs, n)
<1> DEFINE t == [s EXCEPT ![Len(s)] = f]
           m == Len(s)
<1>1. m \in Nat \ {0} /\ m \in 1 .. m /\ DOMAIN s = 1 .. m
  BY EmptySeq, LenProperties
<1>2. t \in Seq(Activation) /\ Len(t) = m /\ (\A i \in 1 .. m : t[i] = IF i = m THEN f ELSE s[i])
  BY <1>1, ExceptSeq
<1>3. DOMAIN t = 1 .. m /\ f.kind = s[m].kind /\ f.name = s[m].name /\ f.depth = s[m].depth
      /\ (f.kind # "config" => f.section = s[m].section)
  BY <1>2, LenProperties
<1> HIDE DEF t, m
<1>4. FrameTraced(s, m, objs, n) /\ s[m] \in Activation /\ FolderFits(s[m]) /\ t[m] = f
  BY <1>1, <1>2, ElementOfSeq DEF IsTraced, FrameTraced
<1>5. \A i \in 1 .. m : t[i].kind = s[i].kind /\ t[i].name = s[i].name
  BY <1>1, <1>2, <1>3
<1>6. \A i \in 1 .. m - 1 : t[i] = s[i] /\ t[i + 1].kind = s[i + 1].kind
  <2>1. \A i \in 1 .. m - 1 : i \in 1 .. m /\ i + 1 \in 1 .. m /\ i # m
    BY <1>1
  <2> QED
    BY <1>2, <1>5, <2>1
<1>7. ASSUME NEW i \in 1 .. m - 1
      PROVE  FrameTraced(t, i, objs, n)
  <2>1. FrameTraced(s, i, objs, n) /\ t[i] = s[i]
    BY <1>1, <1>6 DEF IsTraced
  <2>2. \A j \in 1 .. i - 1 : j \in 1 .. m - 1
    BY <1>1
  <2>3. \A j \in 1 .. i - 1 : Encloses(t, j, i, objs)
    BY <1>6, <2>1, <2>2 DEF FrameTraced, Encloses
  <2>4. i > 1 => t[i - 1] = s[i - 1]
    BY <1>1, <1>6
  <2>5. i = 1 => t[1] = s[1]
    BY <2>1
  <2> QED
    BY <2>1, <2>3, <2>4, <2>5 DEF FrameTraced
<1>8. FrameTraced(t, m, objs, n)
  <2>1. \A j \in 1 .. m - 1 : Encloses(t, j, m, objs)
    BY <1>3, <1>4, <1>5, <1>6 DEF FrameTraced, Encloses
  <2>2. m > 1 => t[m - 1] = s[m - 1]
    BY <1>1, <1>6
  <2>3. SpotOf(f).kind = SpotOf(s[m]).kind /\ SpotOf(f).name = SpotOf(s[m]).name
    BY <1>3, <1>4, SpotIsOne
  <2>4. m > 1 => LeadsTo(SpotOf(t[m - 1]), SpotOf(f))
    <3>1. \A x : LeadsTo(x, SpotOf(s[m])) => LeadsTo(x, SpotOf(f))
      BY <2>3 DEF LeadsTo
    <3> QED
      BY <1>4, <2>2, <3>1 DEF FrameTraced
  <2>5. m = 1 => t[1].kind = s[1].kind /\ t[1].name = s[1].name
    BY <1>5
  <2> QED
    BY <1>3, <1>4, <2>1, <2>4, <2>5 DEF FrameTraced
<1>9. \A i \in 1 .. m : i = m \/ i \in 1 .. m - 1
  BY <1>1
<1>10. IsTraced(t, objs, n)
  BY <1>3, <1>7, <1>8, <1>9 DEF IsTraced
<1> QED
  BY <1>10 DEF t, m

\* A call from the line, or the name, that the last frame has taken.
CallFits(t, g, objs) ==
    /\ LeadsTo(SpotOf(t), SpotOf(g))
    /\ g.kind # "rules" => t.kind = "config"
    /\ g.kind = "rules" /\ t.kind = "rules" => g.depth = t.depth + 1
    /\ g.kind # "folder" => g.depth >= 1
    /\ g.kind # "config" /\ t.kind = "config" => SaidIn(SpotOf(t), "proxy", objs[g.section].name)
    /\ g.kind # "config" /\ t.kind # "config" => g.section = t.section
    /\ g.pos = 1 /\ g.line = 0 /\ g.last = None
    /\ g.kind # "folder" => g.name \in DOMAIN disk
    /\ FolderFits(g)

LEMMA NewIsAtLine ==
    ASSUME IInv, NEW g, g.kind # "folder" => g.name \in DOMAIN disk, g.pos = 1, g.line = 0, g.last = None
    PROVE  AtLine(g)
<1> SUFFICES ASSUME g.kind # "folder" PROVE LinesBefore(g.name, 1) = 0
  BY DEF AtLine
<1>0. g.name \in DOMAIN disk
  OBVIOUS
<1>1. Terminators(g.name) \subseteq Nat \ {0}
  <2>1. Terminators(g.name) \subseteq 1 .. Len(disk[g.name]) /\ Len(disk[g.name]) \in Nat
    BY <1>0, TextOfFile, CountOfLines
  <2> QED
    BY <2>1
<1>2. {q \in Terminators(g.name) : q < 1} = {}
  BY <1>1
<1> QED
  BY <1>2, FS_EmptySet DEF LinesBefore

LEMMA EnclosesIt ==
    ASSUME NEW t, NEW j, NEW i, NEW objs, NEW x, NEW g, t[j] = x, t[i] = g,
           g.kind # "rules" => x.kind = "config", g.kind = "rules" /\ x.kind = "rules" => j > i - g.depth,
           g.kind # "config" /\ x.kind = "config" /\ t[j + 1].kind # "config"
               => SaidIn(SpotOf(x), "proxy", objs[g.section].name)
    PROVE  Encloses(t, j, i, objs)
BY DEF Encloses

LEMMA TracedCall ==
    ASSUME IInv, NEW k, NEW s, Sound(s, k), NEW objs, NEW n, IsTraced(s, objs, n), s # <<>>, NEW g \in Activation,
           CallFits(s[Len(s)], g, objs)
    PROVE  IsTraced(Append(s, g), objs, n)
<1> DEFINE t == Append(s, g)
           m == Len(s)
<1>0. s \in Seq(Activation) /\ m \in Nat \ {0} /\ m \in 1 .. m /\ DOMAIN s = 1 .. m
  BY EmptySeq, LenProperties DEF Sound
<1>1. t \in Seq(Activation) /\ Len(t) = m + 1 /\ (\A i \in 1 .. m : t[i] = s[i]) /\ t[m + 1] = g
  BY <1>0, AppendProperties
<1>2. DOMAIN t = 1 .. m + 1 /\ CallFits(s[m], g, objs)
  BY <1>1, LenProperties
<1> HIDE DEF t, m
<1>3. ASSUME NEW i \in 1 .. m PROVE FrameTraced(t, i, objs, n)
  <2>1. FrameTraced(s, i, objs, n) /\ t[i] = s[i] /\ (i = 1 => t[1] = s[1])
    BY <1>0, <1>1 DEF IsTraced
  <2>2. \A j \in 1 .. i - 1 : t[j] = s[j] /\ t[j + 1] = s[j + 1]
    <3>1. \A j \in 1 .. i - 1 : j \in 1 .. m /\ j + 1 \in 1 .. m
      BY <1>0
    <3> QED
      BY <1>1, <3>1
  <2>3. i > 1 => t[i - 1] = s[i - 1]
    BY <1>0, <1>1
  <2>4. \A j \in 1 .. i - 1 : Encloses(t, j, i, objs)
    BY <2>1, <2>2 DEF FrameTraced, Encloses
  <2> QED
    BY <2>1, <2>3, <2>4 DEF FrameTraced
<1>4. FrameTraced(t, m + 1, objs, n)
  <2>1. AtLine(g)
    BY <1>2, NewIsAtLine DEF CallFits
  <2>2. FrameTraced(s, m, objs, n) /\ s[m] \in Activation /\ s[m].depth \in Nat /\ g.depth \in Nat
    BY <1>0, Depths DEF IsTraced, Activation
  <2>3. s[m].kind \in {"config", "rules", "folder"}
    BY <2>2 DEF Activation
  <2>4. ASSUME NEW j \in 1 .. m PROVE Encloses(t, j, m + 1, objs)
    <3>1. t[j] = s[j] /\ t[m + 1] = g
      BY <1>1
    <3>2. CASE j = m
      <4>1. g.kind = "rules" /\ s[m].kind = "rules" => m > m + 1 - g.depth
        BY <1>0, <1>2, <2>2, <3>2 DEF CallFits, FrameTraced
      <4>2. t[j + 1] = g
        BY <3>1, <3>2
      <4>3. g.kind # "rules" => s[m].kind = "config"
        BY <1>2 DEF CallFits
      <4>4. g.kind # "config" /\ s[m].kind = "config" => SaidIn(SpotOf(s[m]), "proxy", objs[g.section].name)
        BY <1>2 DEF CallFits
      <4> QED
        BY <1>0, <2>2, <3>1, <3>2, <4>1, <4>2, <4>3, <4>4, EnclosesIt
    <3>3. CASE j # m
      <4>1. j \in 1 .. m - 1 /\ j + 1 \in 1 .. m
        BY <1>0, <3>3
      <4>2. Encloses(s, j, m, objs) /\ t[j + 1] = s[j + 1]
        BY <1>1, <2>2, <4>1 DEF FrameTraced
      <4>3. g.kind # "rules" => s[j].kind = "config"
        BY <1>2, <4>2 DEF CallFits, Encloses
      <4>4. g.kind = "rules" /\ s[j].kind = "rules" => j > m + 1 - g.depth
        <5>1. s[j].kind = "rules" => s[m].kind = "rules" /\ j > m - s[m].depth
          BY <2>3, <4>2 DEF Encloses
        <5> QED
          BY <1>0, <1>2, <2>2, <4>1, <5>1 DEF CallFits
      <4>5. ASSUME g.kind # "config", s[j].kind = "config", s[j + 1].kind # "config"
            PROVE  SaidIn(SpotOf(s[j]), "proxy", objs[g.section].name)
        <5>1. s[m].kind # "config"
          <6>1. CASE j + 1 = m
            BY <4>5, <6>1
          <6>2. CASE j + 1 # m
            <7>1. j + 1 \in 1 .. m - 1
              BY <1>0, <4>1, <6>2
            <7>2. Encloses(s, j + 1, m, objs)
              BY <2>2, <7>1 DEF FrameTraced
            <7> QED
              BY <4>5, <7>2 DEF Encloses
          <6> QED
            BY <6>1, <6>2
        <5>2. g.section = s[m].section
          BY <1>2, <4>5, <5>1 DEF CallFits
        <5> QED
          BY <4>2, <4>5, <5>1, <5>2 DEF Encloses
      <4>6. t[j + 1] = s[j + 1]
        BY <4>2
      <4> QED
        BY <1>0, <2>2, <3>1, <4>3, <4>4, <4>5, <4>6, EnclosesIt
    <3> QED
      BY <3>2, <3>3
  <2>5. LeadsTo(SpotOf(t[(m + 1) - 1]), SpotOf(t[m + 1]))
    <3>1. (m + 1) - 1 = m
      BY <1>0
    <3> QED
      BY <1>0, <1>1, <1>2, <3>1 DEF CallFits
  <2>6. \A j \in 1 .. (m + 1) - 1 : j \in 1 .. m
    BY <1>0
  <2>7. m + 1 # 1
    BY <1>0
  <2> QED
    BY <1>1, <1>2, <2>1, <2>4, <2>5, <2>6, <2>7 DEF FrameTraced, CallFits
<1>5. \A i \in 1 .. m + 1 : i = m + 1 \/ i \in 1 .. m
  BY <1>0
<1>6. IsTraced(t, objs, n)
  BY <1>2, <1>3, <1>4, <1>5 DEF IsTraced
<1> QED
  BY <1>6 DEF t, m

-----------------------------------------------------------------------------
\* What a step does to the spots of the stack.

Onward(c, d) ==
    \/ Begins(d, c) \/ OneFurther(c, d)
    \/ \E e \in Seq(Spot), x \in Spot : OneFurther(c, e) /\ x.line = 0 /\ d = Append(e, x)

LEMMA FoldersFit ==
    ASSUME NEW s \in Seq(Activation), NEW objs, NEW n, IsTraced(s, objs, n)
    PROVE  /\ Spots(s) \in Seq(Spot) /\ Len(Spots(s)) = Len(s) /\ DOMAIN Spots(s) = 1 .. Len(s)
           /\ DOMAIN s = 1 .. Len(s) /\ Len(s) \in Nat
           /\ \A j \in 1 .. Len(s) : s[j] \in Activation /\ FolderFits(s[j]) /\ Spots(s)[j] = SpotOf(s[j])
<1>1. \A i \in DOMAIN s : FolderFits(s[i])
  BY DEF IsTraced, FrameTraced
<1>2. \A i \in DOMAIN s : s[i] \in Activation
  BY ElementOfSeq, LenProperties
<1> QED
  BY <1>1, <1>2, SpotsOfStack

LEMMA SpotsPrefix ==
    ASSUME NEW s \in Seq(Activation), NEW objs, NEW n, IsTraced(s, objs, n), NEW t \in Seq(Activation),
           Len(t) <= Len(s), \A i \in 1 .. Len(t) : t[i] = s[i]
    PROVE  IsTraced(t, objs, n) /\ Begins(Spots(t), Spots(s))
<1>1. IsTraced(t, objs, n)
  BY TracedReturn
<1>2. \A j \in 1 .. Len(t) : j \in 1 .. Len(s)
  BY LenProperties
<1> QED
  BY <1>1, <1>2, FoldersFit DEF Begins

LEMMA SpotsFurther ==
    ASSUME NEW s \in Seq(Activation), s # <<>>, NEW objs, NEW n, IsTraced(s, objs, n),
           NEW f \in Activation, FolderFits(f), NEW t \in Seq(Activation), Len(t) = Len(s),
           \A i \in 1 .. Len(s) : t[i] = IF i = Len(s) THEN f ELSE s[i], IsTraced(t, objs, n),
           f.kind = s[Len(s)].kind, f.name = s[Len(s)].name, SpotOf(f).line = SpotOf(s[Len(s)]).line + 1
    PROVE  OneFurther(Spots(s), Spots(t))
<1>1. Len(s) \in Nat \ {0} /\ Len(s) \in 1 .. Len(s)
  BY EmptySeq, LenProperties
<1>2. /\ Spots(s) \in Seq(Spot) /\ Len(Spots(s)) = Len(s)
      /\ \A j \in 1 .. Len(s) : s[j] \in Activation /\ FolderFits(s[j]) /\ Spots(s)[j] = SpotOf(s[j])
      /\ Len(Spots(t)) = Len(s) /\ \A j \in 1 .. Len(s) : Spots(t)[j] = SpotOf(t[j])
  BY FoldersFit
<1>3. \A j \in 1 .. Len(s) - 1 : j \in 1 .. Len(s) /\ t[j] = s[j]
  BY <1>1
<1>4. t[Len(s)] = f
  BY <1>1
<1>5. /\ SpotOf(f).kind = f.kind /\ SpotOf(f).name = f.name
      /\ SpotOf(s[Len(s)]).kind = s[Len(s)].kind /\ SpotOf(s[Len(s)]).name = s[Len(s)].name
  BY <1>1, <1>2, SpotIsOne
<1>6. Spots(s) # <<>>
  BY <1>1, <1>2, EmptySeq
<1> QED
  BY <1>1, <1>2, <1>3, <1>4, <1>5, <1>6 DEF OneFurther

\* The running call takes a line or a name.
LEMMA TopGoesOn ==
    ASSUME IInv, stack # <<>>, NEW objs, NEW n, IsTraced(stack, objs, n), NEW f \in Activation,
           f.kind = Top.kind, f.name = Top.name, f.depth = Top.depth, f.kind # "config" => f.section = Top.section,
           AtLine(f), FolderFits(f), SpotOf(f).line = SpotOf(Top).line + 1
    PROVE  LET s == [stack EXCEPT ![Len(stack)] = f] IN
           IsTraced(s, objs, n) /\ OneFurther(Spots(stack), Spots(s))
<1> DEFINE s == [stack EXCEPT ![Len(stack)] = f]
<1>1. stack \in Seq(Activation) /\ Len(stack) \in 1 .. Len(stack)
  BY EmptySeq, LenProperties DEF IInv, Sound
<1>2. s \in Seq(Activation) /\ Len(s) = Len(stack)
      /\ \A i \in 1 .. Len(stack) : s[i] = IF i = Len(stack) THEN f ELSE stack[i]
  BY <1>1, ExceptSeq
<1>3. IsTraced(s, objs, n)
  BY <1>1, TracedFurther DEF Top
<1> HIDE DEF s
<1>4. OneFurther(Spots(stack), Spots(s))
  BY <1>1, <1>2, <1>3, SpotsFurther DEF Top
<1> QED
  BY <1>3, <1>4 DEF s

LEMMA TopIsTraced ==
    ASSUME IInv, Traced, stack # <<>>
    PROVE  /\ FrameTraced(stack, Len(stack), objects, optind) /\ AtLine(Top) /\ FolderFits(Top)
           /\ Top \in Activation /\ Top = stack[Len(stack)] /\ Len(stack) \in Nat \ {0}
<1>1. Len(stack) \in Nat \ {0} /\ Len(stack) \in DOMAIN stack /\ Top \in Activation
  BY Running
<1> QED
  BY <1>1 DEF Traced, IsTraced, FrameTraced, Top

LEMMA LineIsTraced ==
    ASSUME IInv, Traced, HasLine, NEW objs, IsTraced(stack, objs, optind),
           NEW f \in Activation, f.kind = Top.kind, f.name = Top.name,
           f.depth = Top.depth, f.kind # "config" => f.section = Top.section,
           f.pos = After.pos, f.last = After.last, f.line = After.line
    PROVE  LET s == [stack EXCEPT ![Len(stack)] = f] IN
           IsTraced(s, objs, optind) /\ OneFurther(Spots(stack), Spots(s))
<1>1. stack # <<>> /\ Top.kind # "folder"
  BY DEF HasLine, Reading
<1>2. AtLine(Top) /\ FolderFits(Top) /\ Top \in Activation
  BY <1>1, TopIsTraced
<1>3. AtLine(f) /\ f.line = Top.line + 1
  BY <1>2, LineIsNumbered
<1>4. FolderFits(f)
  BY <1>1 DEF FolderFits
<1>5. SpotOf(f).line = SpotOf(Top).line + 1
  BY <1>1, <1>2, <1>3, <1>4, SpotIsOne
<1> QED
  BY <1>1, <1>3, <1>4, <1>5, TopGoesOn

LEMMA AdvancedIsTraced ==
    ASSUME IInv, Traced, HasLine
    PROVE  /\ IsTraced(Advanced, objects, optind) /\ OneFurther(Spots(stack), Spots(Advanced))
           /\ Sound(Advanced, Len(objects)) /\ Advanced # <<>> /\ Advanced[Len(Advanced)] = After
           /\ Advanced \in Seq(Activation) /\ Len(Advanced) = Len(stack)
           /\ After \in Activation /\ After.kind = Top.kind /\ After.name = Top.name
           /\ After.depth = Top.depth /\ After.section = Top.section
<1>1. /\ After \in Activation /\ After.kind = Top.kind /\ After.name = Top.name
      /\ After.depth = Top.depth /\ After.section = Top.section
  BY LineIsRead
<1>2. Sound(Advanced, Len(objects)) /\ Advanced # <<>> /\ Len(Advanced) = Len(stack)
  BY GoesOn
<1>3. stack # <<>> /\ stack \in Seq(Activation) /\ Len(stack) \in 1 .. Len(stack)
  BY EmptySeq, LenProperties DEF HasLine, Reading, IInv, Sound
<1>4. Advanced[Len(stack)] = After
  BY <1>1, <1>3, ExceptSeq DEF Advanced
<1>5. IsTraced(Advanced, objects, optind) /\ OneFurther(Spots(stack), Spots(Advanced))
  BY <1>1, LineIsTraced DEF Advanced, Traced
<1> QED
  BY <1>1, <1>2, <1>4, <1>5 DEF Sound

\* What the line that is taken says.
LEMMA LineIsSaid ==
    ASSUME IInv, Traced, HasLine, FrameIsWritten(Top, objects), Line.op # "comment", NEW x, x.name = Top.name,
           x.line = After.line
    PROVE  /\ Says(x, Line) /\ Top.name \in DOMAIN disk /\ Line \in Statement
           /\ Top.kind = "config" /\ Top.section # 0 =>
                  SaidIn(x, objects[Top.section].kind, objects[Top.section].name)
<1>1. AtLine(Top) /\ AtLine(Top)
  BY TopIsTraced DEF HasLine, Reading
<1>2. /\ Top.name \in DOMAIN disk /\ Begin \in Starts(Top.name) /\ disk[Top.name][Begin] = Line
      /\ Top.kind = "config" /\ Top.section # 0 =>
             InSection(Top.name, Begin, objects[Top.section].kind, objects[Top.section].name)
  BY LineIsWritten
<1>3. After.kind = Top.kind /\ After.name = Top.name
  BY LineIsRead
<1>4. LinesBefore(Top.name, Begin) + 1 = After.line
  BY <1>1, <1>2, <1>3, LineIsNumbered
<1>5. StatedAt(x, Begin)
  BY <1>2, <1>4 DEF StatedAt
<1> QED
  BY <1>2, <1>5, LineIsRead DEF Says, SaidIn

-----------------------------------------------------------------------------
\* Calls that fail, and calls that do not.

LEMMA FailIsTraced ==
    ASSUME IInv, Traced, NEW kind, NEW s \in Seq(Activation), IsTraced(s, objects, optind),
           NEW told, Fail(kind, s, told),
           \/ OneFurther(Spots(stack), Spots(s))
           \/ Begins(Spots(s), Spots(stack))
    PROVE  IsTraced(stack', objects, optind) /\ Onward(Spots(stack), Spots(stack'))
<1>0. /\ Spots(s) \in Seq(Spot) /\ Len(Spots(s)) = Len(s) /\ Len(s) \in Nat /\ DOMAIN Spots(s) = 1 .. Len(s)
      /\ Spots(stack) \in Seq(Spot) /\ Len(Spots(stack)) \in Nat
      /\ DOMAIN Spots(stack) = 1 .. Len(Spots(stack))
  BY FoldersFit, SpotSequence DEF Traced, IInv, Sound
<1>1. CASE stack' = s
  BY <1>1 DEF Onward
<1>2. CASE stack' = <<>>
  <2>1. <<>> \in Seq(Activation) /\ Len(<<>>) = 0 /\ Len(<<>>) <= Len(s)
    BY <1>0, EmptySeq
  <2>2. IsTraced(<<>>, objects, optind)
    BY <2>1 DEF IsTraced
  <2>3. Begins(Spots(<<>>), Spots(stack))
    <3>1. Len(Spots(<<>>)) = 0 /\ DOMAIN Spots(<<>>) = {}
      BY <2>1 DEF Spots
    <3> QED
      BY <1>0, <3>1 DEF Begins
  <2> QED
    BY <1>2, <2>2, <2>3 DEF Onward
<1>3. CASE s # <<>> /\ stack' = SubSeq(s, 1, Len(s) - 1)
  <2> DEFINE t == SubSeq(s, 1, Len(s) - 1)
  <2>1. t \in Seq(Activation) /\ Len(t) = Len(s) - 1 /\ \A i \in 1 .. Len(s) - 1 : t[i] = s[i]
    BY <1>3, WithoutLast
  <2> HIDE DEF t
  <2>2. Len(t) <= Len(s) /\ \A i \in 1 .. Len(t) : t[i] = s[i]
    BY <1>0, <2>1
  <2>3. IsTraced(t, objects, optind) /\ Begins(Spots(t), Spots(s))
    BY <2>1, <2>2, SpotsPrefix
  <2>4. Len(Spots(t)) = Len(s) - 1 /\ DOMAIN Spots(t) = 1 .. Len(s) - 1
    BY <2>1, <2>3, FoldersFit
  <2>5. Begins(Spots(t), Spots(stack))
    <3>1. CASE OneFurther(Spots(stack), Spots(s))
      BY <1>0, <2>3, <2>4, <3>1 DEF OneFurther, Begins
    <3>2. CASE Begins(Spots(s), Spots(stack))
      BY <1>0, <2>3, <2>4, <3>2 DEF Begins
    <3> QED
      BY <3>1, <3>2
  <2>6. stack' = t
    BY <1>3 DEF t
  <2> QED
    BY <2>3, <2>5, <2>6 DEF Onward
<1>4. \/ stack' = s \/ stack' = <<>> \/ (s # <<>> /\ stack' = SubSeq(s, 1, Len(s) - 1))
  BY DEF Fail, Survives, Resumed
<1> QED
  BY <1>1, <1>2, <1>3, <1>4

LEMMA PushIsTraced ==
    ASSUME IInv, Traced, NEW s, Sound(s, Len(objects)), s # <<>>, IsTraced(s, objects, optind),
           OneFurther(Spots(stack), Spots(s)), NEW g \in Activation, CallFits(s[Len(s)], g, objects), SpotOf(g).line = 0
    PROVE  IsTraced(Append(s, g), objects, optind) /\ Onward(Spots(stack), Spots(Append(s, g)))
<1> DEFINE t == Append(s, g)
<1>1. s \in Seq(Activation) /\ t \in Seq(Activation) /\ Len(t) = Len(s) + 1 /\ Len(s) \in Nat
      /\ (\A i \in 1 .. Len(s) : t[i] = s[i]) /\ t[Len(s) + 1] = g
  BY AppendProperties, LenProperties DEF Sound
<1>2. IsTraced(t, objects, optind)
  BY TracedCall
<1> HIDE DEF t
<1>3. /\ Spots(s) \in Seq(Spot) /\ Len(Spots(s)) = Len(s) /\ \A j \in 1 .. Len(s) : Spots(s)[j] = SpotOf(s[j])
      /\ Spots(t) \in Seq(Spot) /\ Len(Spots(t)) = Len(t) /\ \A j \in 1 .. Len(t) : Spots(t)[j] = SpotOf(t[j])
  BY <1>1, <1>2, FoldersFit
<1>4. SpotOf(g) \in Spot
  BY SpotIsOne DEF CallFits
<1>5. Spots(t) = Append(Spots(s), SpotOf(g))
  <2> DEFINE u == Append(Spots(s), SpotOf(g))
  <2>1. u \in Seq(Spot) /\ Len(u) = Len(s) + 1 /\ (\A j \in 1 .. Len(s) : u[j] = Spots(s)[j])
        /\ u[Len(s) + 1] = SpotOf(g)
    BY <1>3, <1>4, AppendProperties
  <2> HIDE DEF u
  <2>2. \A j \in 1 .. Len(s) + 1 : j = Len(s) + 1 \/ j \in 1 .. Len(s)
    BY <1>1
  <2>3. \A j \in 1 .. Len(s) + 1 : Spots(t)[j] = u[j]
    BY <1>1, <1>3, <2>1, <2>2
  <2>4. Spots(t) = u
    BY <1>1, <1>3, <2>1, <2>3, SeqEqual
  <2> QED
    BY <2>4 DEF u
<1>6. Onward(Spots(stack), Spots(t))
  BY <1>3, <1>4, <1>5 DEF Onward
<1> QED
  BY <1>2, <1>6 DEF t

LEMMA CallIsTraced ==
    ASSUME IInv, Traced, NEW s, Sound(s, Len(objects)), s # <<>>, IsTraced(s, objects, optind),
           OneFurther(Spots(stack), Spots(s)), NEW kind \in {"config", "rules"}, NEW name \in Name, NEW depth \in Nat,
           NEW section \in Nat, Call(kind, name, s, depth, section),
           name \in DOMAIN disk => CallFits(s[Len(s)], Frame(kind, name, depth, section, <<>>), objects)
    PROVE  IsTraced(stack', objects, optind) /\ Onward(Spots(stack), Spots(stack'))
<1>1. CASE name \in DOMAIN disk
  <2> DEFINE g == Frame(kind, name, depth, section, <<>>)
  <2>1. g \in Activation /\ g.kind = kind /\ g.line = 0
    BY EmptySeq DEF Frame, Activation
  <2>2. CallFits(s[Len(s)], g, objects) /\ stack' = Append(s, g)
    BY <1>1 DEF Call
  <2> HIDE DEF g
  <2>3. SpotOf(g).line = 0
    BY <2>1, <2>2, SpotIsOne DEF CallFits
  <2> QED
    BY <2>1, <2>2, <2>3, PushIsTraced
<1>2. CASE name \notin DOMAIN disk
  BY <1>2, FailIsTraced DEF Call, Sound
<1> QED
  BY <1>1, <1>2

-----------------------------------------------------------------------------
\* Every step moves on in the order of the text.

Traces == IsTraced(stack', objects, optind) /\ Onward(Spots(stack), Spots(stack'))

LEMMA ReturnIsTraced ==
    ASSUME IInv, Traced, stack # <<>>
    PROVE  /\ Callers \in Seq(Activation) /\ IsTraced(Callers, objects, optind)
           /\ Begins(Spots(Callers), Spots(stack))
<1>1. stack \in Seq(Activation) /\ Len(stack) \in Nat
  BY LenProperties DEF IInv, Sound
<1>2. /\ Callers \in Seq(Activation) /\ Len(Callers) = Len(stack) - 1
      /\ \A i \in 1 .. Len(stack) - 1 : Callers[i] = stack[i]
  BY <1>1, WithoutLast DEF Callers
<1>3. Len(Callers) <= Len(stack) /\ \A i \in 1 .. Len(Callers) : Callers[i] = stack[i]
  BY <1>1, <1>2
<1> QED
  BY <1>1, <1>2, <1>3, SpotsPrefix DEF Traced

LEMMA IncludeIsTraced == IInv /\ Traced /\ CallsAreWritten(stack, objects) /\ Include => Traces
<1> SUFFICES ASSUME IInv, Traced, CallsAreWritten(stack, objects), Include PROVE Traces OBVIOUS
<1> DEFINE section == IF Top.kind = "config" THEN NoSection ELSE Top.section
           g == Frame(Top.kind, Line.name, Top.depth + 1, section, <<>>)
<1>1. /\ HasLine /\ Line.op = (IF Top.kind = "config" THEN "include" ELSE "routeFile") /\ stack # <<>>
      /\ Top.kind # "folder"
  BY DEF Include, HasLine, Reading
<1>2. /\ IsTraced(Advanced, objects, optind) /\ OneFurther(Spots(stack), Spots(Advanced))
      /\ Sound(Advanced, Len(objects)) /\ Advanced # <<>> /\ Advanced[Len(Advanced)] = After
      /\ Advanced \in Seq(Activation) /\ Len(Advanced) = Len(stack)
      /\ After \in Activation /\ After.kind = Top.kind /\ After.name = Top.name
      /\ After.depth = Top.depth /\ After.section = Top.section
  BY <1>1, AdvancedIsTraced
<1>3. CASE Blocked(Line.name)
  BY <1>2, <1>3 DEF Include, Traces, Onward
<1>4. CASE ~Blocked(Line.name)
  <2>1. Call(Top.kind, Line.name, Advanced, Top.depth + 1, section)
    BY <1>4 DEF Include
  <2>2. /\ Top.kind \in {"config", "rules"} /\ Top.depth \in Nat /\ Top.depth + 1 \in Nat
        /\ section \in Nat /\ Line.name \in Name
    BY <1>1, Running, LineIsRead, Carried DEF Activation, NoSection
  <2>3. FrameIsWritten(Top, objects)
    BY <1>1, TopIsWritten
  <2>4. FolderFits(After) /\ SpotOf(After).kind = Top.kind /\ SpotOf(After).name = Top.name
        /\ SpotOf(After).line = After.line
    <3>1. FolderFits(After)
      BY <1>1, <1>2 DEF FolderFits
    <3> QED
      BY <1>1, <1>2, <3>1, SpotIsOne
  <2>5. Says(SpotOf(After), Line) /\ Line \in Statement
    BY <1>1, <2>3, <2>4, LineIsSaid
  <2>6. /\ g \in Activation /\ g.kind = Top.kind /\ g.name = Line.name /\ g.depth = Top.depth + 1
        /\ g.pos = 1 /\ g.line = 0 /\ g.last = None
        /\ (Top.kind # "config" => g.section = Top.section)
    BY <2>2, EmptySeq DEF Frame, Activation
  <2> HIDE DEF g
  <2>7. FolderFits(g) /\ SpotOf(g).kind = Top.kind /\ SpotOf(g).name = Line.name
    <3>1. FolderFits(g)
      BY <1>1, <2>6 DEF FolderFits
    <3> QED
      BY <2>6, <3>1, SpotIsOne
  <2>8. LeadsTo(SpotOf(After), SpotOf(g))
    <3>1. CASE Top.kind = "config"
      BY <1>1, <2>4, <2>5, <2>7, <3>1 DEF LeadsTo, CallOf
    <3>2. CASE Top.kind = "rules"
      BY <1>1, <2>4, <2>5, <2>7, <3>2 DEF LeadsTo
    <3> QED
      BY <2>2, <3>1, <3>2
  <2>9. ASSUME Line.name \in DOMAIN disk PROVE CallFits(After, g, objects)
    <3>1. g.depth >= 1
      BY <2>2, <2>6
    <3> QED
      BY <1>2, <2>2, <2>6, <2>7, <2>8, <2>9, <3>1 DEF CallFits
  <2>10. Line.name \in DOMAIN disk => CallFits(Advanced[Len(Advanced)], Frame(Top.kind, Line.name, Top.depth + 1, section, <<>>), objects)
    BY <1>2, <2>9 DEF g
  <2> HIDE DEF section
  <2> QED
    BY <1>2, <2>1, <2>2, <2>10, CallIsTraced DEF Traces
<1> QED
  BY <1>3, <1>4

LEMMA RulesAreSaid ==
    ASSUME IInv, Traced, CallsAreWritten(stack, objects), NEW op \in {"routeFile", "routeDir"}, InConfig(op),
           SectionKind = "proxy"
    PROVE  /\ HasLine /\ Top.kind = "config" /\ Line.op = op /\ Line.name \in Name /\ Top.section \in Nat
           /\ SpotOf(After).kind = "config" /\ Says(SpotOf(After), Line) /\ Line \in Statement
           /\ SaidIn(SpotOf(After), "proxy", objects[Top.section].name)
<1>1. HasLine /\ Top.kind = "config" /\ Line.op = op /\ stack # <<>>
  BY DEF InConfig, HasLine, Reading
<1>2. FrameIsWritten(Top, objects)
  BY <1>1, TopIsWritten
<1>3. /\ After \in Activation /\ After.kind = Top.kind /\ After.name = Top.name
  BY <1>1, LineIsRead
<1>4. SpotOf(After).kind = "config" /\ SpotOf(After).name = Top.name /\ SpotOf(After).line = After.line
  <2>1. FolderFits(After)
    BY <1>1, <1>3 DEF FolderFits
  <2> QED
    BY <1>1, <1>3, <2>1, SpotIsOne
<1>5. Top.section # 0 /\ objects[Top.section].kind = "proxy"
  BY ConfigAssumption DEF SectionKind, Kinds
<1>6. Line.name \in Name /\ Top.section \in Nat
  BY RulesAreNamed
<1> QED
  BY <1>1, <1>2, <1>4, <1>5, <1>6, LineIsSaid

LEMMA RouteFileIsTraced == IInv /\ Traced /\ CallsAreWritten(stack, objects) /\ RouteFile => Traces
<1> SUFFICES ASSUME IInv, Traced, CallsAreWritten(stack, objects), RouteFile PROVE Traces OBVIOUS
<1> DEFINE g == Frame("rules", Line.name, 1, Top.section, <<>>)
<1>1. InConfig("routeFile") /\ SectionKind = "proxy" /\ Call("rules", Line.name, Advanced, 1, Top.section)
  BY DEF RouteFile
<1>2. /\ HasLine /\ Top.kind = "config" /\ Line.op = "routeFile" /\ Line.name \in Name /\ Top.section \in Nat
      /\ SpotOf(After).kind = "config" /\ Says(SpotOf(After), Line) /\ Line \in Statement
      /\ SaidIn(SpotOf(After), "proxy", objects[Top.section].name)
  BY <1>1, RulesAreSaid
<1>3. /\ IsTraced(Advanced, objects, optind) /\ OneFurther(Spots(stack), Spots(Advanced))
      /\ Sound(Advanced, Len(objects)) /\ Advanced # <<>> /\ Advanced[Len(Advanced)] = After
      /\ After \in Activation /\ After.kind = Top.kind
  BY <1>2, AdvancedIsTraced
<1>4. /\ g \in Activation /\ g.kind = "rules" /\ g.name = Line.name /\ g.depth = 1
      /\ g.pos = 1 /\ g.line = 0 /\ g.last = None /\ g.section = Top.section
  BY <1>2, EmptySeq DEF Frame, Activation
<1> HIDE DEF g
<1>5. FolderFits(g) /\ SpotOf(g).kind = "rules" /\ SpotOf(g).name = Line.name
  <2>1. FolderFits(g)
    BY <1>4 DEF FolderFits
  <2> QED
    BY <1>4, <2>1, SpotIsOne
<1>6. LeadsTo(SpotOf(After), SpotOf(g))
  BY <1>2, <1>5 DEF LeadsTo, CallOf
<1>7. Line.name \in DOMAIN disk => CallFits(After, g, objects)
  BY <1>2, <1>3, <1>4, <1>5, <1>6 DEF CallFits
<1>8. Line.name \in DOMAIN disk => CallFits(Advanced[Len(Advanced)], Frame("rules", Line.name, 1, Top.section, <<>>), objects)
  BY <1>3, <1>7 DEF g
<1> QED
  BY <1>1, <1>2, <1>3, <1>8, CallIsTraced DEF Traces

LEMMA RouteDirIsTraced == IInv /\ Traced /\ CallsAreWritten(stack, objects) /\ RouteDir => Traces
<1> SUFFICES ASSUME IInv, Traced, CallsAreWritten(stack, objects), RouteDir PROVE Traces OBVIOUS
<1> DEFINE g == Frame("folder", Line.name, 0, Top.section, AsListed(Line.name))
<1>1. /\ InConfig("routeDir") /\ SectionKind = "proxy" /\ Line.name \in DOMAIN Folders
      /\ stack' = Append(Advanced, g)
  BY DEF RouteDir
<1>2. /\ HasLine /\ Top.kind = "config" /\ Line.op = "routeDir" /\ Line.name \in Name /\ Top.section \in Nat
      /\ SpotOf(After).kind = "config" /\ Says(SpotOf(After), Line) /\ Line \in Statement
      /\ SaidIn(SpotOf(After), "proxy", objects[Top.section].name)
  BY <1>1, RulesAreSaid
<1>3. /\ IsTraced(Advanced, objects, optind) /\ OneFurther(Spots(stack), Spots(Advanced))
      /\ Sound(Advanced, Len(objects)) /\ Advanced # <<>> /\ Advanced[Len(Advanced)] = After
      /\ After \in Activation /\ After.kind = Top.kind
  BY <1>2, AdvancedIsTraced
<1>4. AsListed(Line.name) \in Seq(Name)
  BY <1>1, ConfigAssumption
<1>5. /\ g \in Activation /\ g.kind = "folder" /\ g.name = Line.name /\ g.todo = AsListed(Line.name)
      /\ g.pos = 1 /\ g.line = 0 /\ g.last = None /\ g.section = Top.section
  BY <1>2, <1>4 DEF Frame, Activation
<1> HIDE DEF g
<1>6. FolderFits(g)
  <2>1. Len(g.todo) = Len(AsListed(g.name)) /\ Len(g.todo) \in Nat
    BY <1>4, <1>5, LenProperties
  <2>2. \A k \in DOMAIN g.todo : k = Len(AsListed(g.name)) - Len(g.todo) + k
    BY <1>4, <1>5, <2>1, LenProperties
  <2> QED
    BY <1>1, <1>5, <2>1, <2>2 DEF FolderFits
<1>7. SpotOf(g).kind = "folder" /\ SpotOf(g).name = Line.name /\ SpotOf(g).line = 0
  <2>1. Len(AsListed(g.name)) - Len(g.todo) = 0
    BY <1>4, <1>5, LenProperties
  <2> QED
    BY <1>5, <1>6, <2>1, SpotIsOne
<1>8. LeadsTo(SpotOf(After), SpotOf(g))
  BY <1>2, <1>7 DEF LeadsTo, CallOf
<1>9. CallFits(After, g, objects)
  BY <1>2, <1>3, <1>5, <1>6, <1>8 DEF CallFits
<1> QED
  BY <1>1, <1>3, <1>5, <1>7, <1>9, PushIsTraced DEF Traces

LEMMA NextInFolderIsTraced == IInv /\ Traced /\ NextInFolder => Traces
<1> SUFFICES ASSUME IInv, Traced, NextInFolder PROVE Traces OBVIOUS
<1>1. stack # <<>> /\ Top.kind = "folder"
  BY DEF NextInFolder
<1>2. CASE Top.todo = <<>>
  BY <1>1, <1>2, ReturnIsTraced DEF NextInFolder, Traces, Onward
<1>3. CASE Top.todo # <<>>
  <2> DEFINE f == [Top EXCEPT !.todo = Tail(@)]
             s == [stack EXCEPT ![Len(stack)] = f]
             listed == AsListed(Top.name)
  <2>1. Call("rules", Head(Top.todo), s, 1, Top.section)
    BY <1>3 DEF NextInFolder, Top
  <2>2. /\ Top \in Activation /\ Top.section \in 0 .. Len(objects) /\ Top.section # 0 /\ Top.section \in Nat
        /\ stack \in Seq(Activation) /\ Len(stack) \in 1 .. Len(stack) /\ Len(objects) \in Nat
    BY <1>1, Running, EmptySeq, LenProperties DEF FrameFits, Top, Activation, IInv, Sound, Known
  <2>3. /\ Top.todo \in Seq(Name) /\ Len(Top.todo) \in Nat \ {0} /\ Head(Top.todo) \in Name
        /\ Tail(Top.todo) \in Seq(Name) /\ Head(Top.todo) = Top.todo[1] /\ Len(Tail(Top.todo)) = Len(Top.todo) - 1
        /\ (\A k \in 1 .. Len(Top.todo) - 1 : Tail(Top.todo)[k] = Top.todo[k + 1])
        /\ DOMAIN Top.todo = 1 .. Len(Top.todo) /\ DOMAIN Tail(Top.todo) = 1 .. Len(Top.todo) - 1
    <3>1. Top.todo \in Seq(Name)
      BY <2>2 DEF Activation
    <3>2. Len(Top.todo) \in Nat \ {0} /\ DOMAIN Top.todo = 1 .. Len(Top.todo)
      BY <1>3, <3>1, EmptySeq, LenProperties
    <3>3. /\ Tail(Top.todo) \in Seq(Name) /\ Len(Tail(Top.todo)) = Len(Top.todo) - 1 /\ Head(Top.todo) = Top.todo[1]
          /\ \A k \in 1 .. Len(Top.todo) - 1 : Tail(Top.todo)[k] = Top.todo[k + 1]
      BY <1>3, <3>1, <3>2, HeadTailProperties, LenProperties
    <3>4. Head(Top.todo) \in Name
      BY <3>1, <3>2, <3>3, ElementOfSeq
    <3> QED
      BY <3>1, <3>2, <3>3, <3>4, LenProperties
  <2>4. FolderFits(Top) /\ Top.name \in DOMAIN Folders /\ listed \in Seq(Name) /\ Len(listed) \in Nat
        /\ DOMAIN listed = 1 .. Len(listed) /\ Len(Top.todo) <= Len(listed)
        /\ \A k \in DOMAIN Top.todo : Top.todo[k] = listed[Len(listed) - Len(Top.todo) + k]
    BY <1>1, TopIsTraced, ConfigAssumption, LenProperties DEF FolderFits
  <2>5. /\ f \in Activation /\ f.kind = "folder" /\ f.name = Top.name /\ f.depth = Top.depth
        /\ f.section = Top.section /\ f.todo = Tail(Top.todo)
    BY <1>1, <2>2, <2>3 DEF Activation
  <2> HIDE DEF f
  <2> HIDE DEF listed
  <2>16. \A a \in Nat, b \in Nat \ {0} : b <= a => a - b + 1 \in 1 .. a
    OBVIOUS
  <2>17. PICK a \in Nat : a = Len(listed)
    BY <2>4
  <2>18. PICK b \in Nat \ {0} : b = Len(Top.todo)
    BY <2>3
  <2>19. a - (b - 1) = a - b + 1
    OBVIOUS
  <2>6. FolderFits(f)
    <3>1. Len(f.todo) <= Len(listed)
      BY <2>3, <2>4, <2>5
    <3>2. ASSUME NEW k \in DOMAIN f.todo PROVE f.todo[k] = listed[Len(listed) - Len(f.todo) + k]
      <4>1. k \in 1 .. Len(Top.todo) - 1 /\ k + 1 \in DOMAIN Top.todo
        BY <2>3, <2>5
      <4>2. f.todo[k] = listed[Len(listed) - Len(Top.todo) + (k + 1)]
        BY <2>3, <2>4, <2>5, <4>1
      <4>3. Len(listed) - Len(Top.todo) + (k + 1) = Len(listed) - Len(f.todo) + k
        <5>1. k \in Nat /\ Len(f.todo) = b - 1
          BY <2>3, <2>5, <2>18, <4>1
        <5>2. a - b + (k + 1) = a - (b - 1) + k
          BY <5>1
        <5> QED
          BY <2>17, <2>18, <5>1, <5>2
      <4> QED
        BY <4>2, <4>3
    <3> QED
      BY <2>4, <2>5, <3>1, <3>2 DEF FolderFits, listed
  <2>7. /\ SpotOf(f).kind = "folder" /\ SpotOf(f).name = Top.name
        /\ SpotOf(f).line = SpotOf(Top).line + 1 /\ SpotOf(f).line = Len(listed) - Len(Top.todo) + 1
    <3>1. SpotOf(f).kind = "folder" /\ SpotOf(f).name = Top.name /\ SpotOf(f).line = Len(listed) - Len(Tail(Top.todo))
      BY <2>5, <2>6, SpotIsOne DEF listed
    <3>2. SpotOf(Top).line = Len(listed) - Len(Top.todo)
      BY <1>1, <2>2, <2>4, SpotIsOne DEF listed
    <3>3. Len(Tail(Top.todo)) = b - 1
      BY <2>3, <2>18
    <3> QED
      BY <2>17, <2>18, <2>19, <3>1, <3>2, <3>3
  <2>8. IsTraced(s, objects, optind) /\ OneFurther(Spots(stack), Spots(s))
    <3>1. AtLine(f)
      BY <2>5 DEF AtLine
    <3> QED
      BY <1>1, <2>5, <2>6, <2>7, <3>1, TopGoesOn DEF Traced
  <2>9. Sound(s, Len(objects))
    BY <1>1, <2>2, <2>5, StackReplace DEF Top, IInv
  <2>10. s # <<>> /\ s[Len(s)] = f
    <3>1. Len(s) = Len(stack) /\ s[Len(stack)] = f
      BY <2>2, <2>5, ExceptSeq
    <3> QED
      BY <2>2, <2>9, <3>1, EmptySeq DEF Sound
  <2> HIDE DEF s
  <2> DEFINE g == Frame("rules", Head(Top.todo), 1, Top.section, <<>>)
  <2>11. /\ g \in Activation /\ g.kind = "rules" /\ g.name = Head(Top.todo) /\ g.depth = 1
         /\ g.pos = 1 /\ g.line = 0 /\ g.last = None /\ g.section = Top.section
    BY <2>2, <2>3, EmptySeq DEF Frame, Activation
  <2> HIDE DEF g
  <2>12. FolderFits(g) /\ SpotOf(g).kind = "rules" /\ SpotOf(g).name = Head(Top.todo)
    <3>1. FolderFits(g)
      BY <2>11 DEF FolderFits
    <3> QED
      BY <2>11, <3>1, SpotIsOne
  <2>13. LeadsTo(SpotOf(f), SpotOf(g))
    <3>1. 1 \in DOMAIN Top.todo
      BY <2>3
    <3>2. Head(Top.todo) = listed[Len(listed) - Len(Top.todo) + 1] /\ Len(listed) - Len(Top.todo) + 1 \in DOMAIN listed
      BY <2>3, <2>4, <2>16, <3>1
    <3> QED
      BY <2>7, <2>12, <3>2 DEF LeadsTo, listed
  <2>14. Head(Top.todo) \in DOMAIN disk => CallFits(f, g, objects)
    BY <2>5, <2>11, <2>12, <2>13 DEF CallFits
  <2>15. Head(Top.todo) \in DOMAIN disk
             => CallFits(s[Len(s)], Frame("rules", Head(Top.todo), 1, Top.section, <<>>), objects)
    BY <2>10, <2>14 DEF g
  <2> QED
    BY <2>1, <2>2, <2>3, <2>8, <2>9, <2>10, <2>15, CallIsTraced DEF Traces
<1> QED
  BY <1>2, <1>3

LEMMA SectionIsTraced ==
    ASSUME IInv, Traced, Section, IsTraced(stack, objects', optind)
    PROVE  IsTraced(stack', objects', optind) /\ OneFurther(Spots(stack), Spots(stack'))
<1> DEFINE f == [After EXCEPT !.section = Place(objects', Line.kind, Line.name)]
<1>1. HasLine /\ Top.kind = "config" /\ Line.op = "section" /\ stack' = [stack EXCEPT ![Len(stack)] = f]
  BY DEF Section, InConfig
<1>2. After \in Activation /\ After.kind = Top.kind /\ After.name = Top.name /\ After.depth = Top.depth
  BY <1>1, LineIsRead
<1>3. /\ f.kind = After.kind /\ f.name = After.name /\ f.depth = After.depth /\ f.pos = After.pos
      /\ f.last = After.last /\ f.line = After.line /\ f.todo = After.todo /\ f.section = Place(objects', Line.kind, Line.name)
      /\ f = [kind |-> f.kind, name |-> f.name, depth |-> f.depth, pos |-> f.pos, last |-> f.last,
              line |-> f.line, section |-> f.section, todo |-> f.todo]
  BY <1>2 DEF Activation
<1> HIDE DEF f
<1>4. f.section \in Nat
  <2>1. Line.kind \in Kinds /\ Line.name \in Name
    BY <1>1, LineIsRead, Carried
  <2>2. Line.name = "default" \/ (Known(objects') /\ Found(objects', Line.kind, Line.name) # {})
    BY <2>1, Created DEF Section, IInv
  <2>3. CASE Line.name = "default"
    BY <1>3, <2>1, <2>3 DEF Place, Template, Kinds
  <2>4. CASE Line.name # "default"
    <3>1. f.section \in Found(objects', Line.kind, Line.name)
      BY <1>3, <2>2, <2>4 DEF Place, Search
    <3>2. Len(objects') \in Nat
      BY <2>2, <2>4, LenProperties DEF Known
    <3> QED
      BY <3>1, <3>2 DEF Found, Listed
  <2> QED
    BY <2>3, <2>4
<1>5. f \in Activation
  BY <1>2, <1>3, <1>4 DEF Activation
<1> QED
  BY <1>1, <1>2, <1>3, <1>5, LineIsTraced

LEMMA LoadConfigIsTraced ==
    ASSUME IInv, LoadConfig
    PROVE  IsTraced(stack', objects, optind + 1) /\ (stack' = <<>> \/ stack' = <<Frame("config", options[optind].name, 1, 0, <<>>)>>)
<1> DEFINE name == options[optind].name
           g == Frame("config", name, 1, NoSection, <<>>)
<1>1. /\ Call("config", name, <<>>, 1, NoSection) /\ name \in Name /\ optind \in DOMAIN options
      /\ options[optind].op = "c" /\ optind \in Nat
  BY OptionName, ConfigAssumption, LenProperties DEF LoadConfig, NextOption, IInv, Tables
<1>2. g \in Activation /\ g.kind = "config" /\ g.name = name /\ g.depth = 1 /\ g.pos = 1 /\ g.line = 0 /\ g.last = None
  BY <1>1, EmptySeq DEF Frame, Activation, NoSection
<1>3. CASE name \in DOMAIN disk
  <2>1. stack' = Append(<<>>, g)
    BY <1>1, <1>3 DEF Call
  <2> HIDE DEF g, name
  <2>2. AtLine(g) /\ FolderFits(g)
    <3>1. g.kind # "folder" => g.name \in DOMAIN disk
      BY <1>2, <1>3
    <3>2. AtLine(g)
      BY <1>2, <3>1, NewIsAtLine
    <3> QED
      BY <1>2, <3>2 DEF FolderFits
  <2>3. stack' = <<g>> /\ DOMAIN stack' = {1} /\ stack'[1] = g
    BY <2>1
  <2>4. (optind + 1) - 1 = optind
    BY <1>1
  <2>5. FrameTraced(stack', 1, objects, optind + 1)
    <3>1. \A j \in 1 .. 1 - 1 : FALSE
      OBVIOUS
    <3>2. options[(optind + 1) - 1].op = "c" /\ options[(optind + 1) - 1].name = name /\ (optind + 1) - 1 \in DOMAIN options
      BY <1>1, <2>4 DEF name
    <3>3. g.depth >= 1
      BY <1>2
    <3> QED
      BY <1>2, <2>2, <2>3, <3>1, <3>2, <3>3 DEF FrameTraced
  <2>6. IsTraced(stack', objects, optind + 1)
    BY <2>3, <2>5 DEF IsTraced
  <2> QED
    BY <2>3, <2>6 DEF g, name, NoSection
<1>4. CASE name \notin DOMAIN disk
  <2>1. stack' = <<>>
    BY <1>1, <1>4 DEF Call, Fail, Survives
  <2> QED
    BY <2>1 DEF IsTraced
<1> QED
  BY <1>3, <1>4

MovesOn ==
    \/ optind' = optind /\ Onward(Spots(stack), Spots(stack'))
    \/ optind' = optind + 1 /\ stack = <<>>

LEMMA SameTrace ==
    ASSUME UNCHANGED <<disk, options>>
    PROVE  \A s, objs, n : IsTraced(s, objs, n) => IsTraced(s, objs, n)'
<1>1. \A f : Terminators(f)' = Terminators(f) /\ Starts(f)' = Starts(f)
  BY DEF Terminators, SecondHalf, Starts
<1>2. \A f, p : LinesBefore(f, p)' = LinesBefore(f, p)
  BY <1>1 DEF LinesBefore
<1>3. \A x, p : StatedAt(x, p)' <=> StatedAt(x, p)
  BY <1>1, <1>2 DEF StatedAt
<1>4. /\ \A x, l : Says(x, l)' <=> Says(x, l)
      /\ \A f, p, kind, name : InSection(f, p, kind, name)' <=> InSection(f, p, kind, name)
  BY <1>1, <1>3 DEF Says, InSection
<1>5. \A x, kind, name : SaidIn(x, kind, name)' <=> SaidIn(x, kind, name)
  BY <1>1, <1>3, <1>4 DEF SaidIn
<1>6. \A x, y : LeadsTo(x, y)' <=> LeadsTo(x, y)
  BY <1>4 DEF LeadsTo
<1>7. \A f : AtLine(f)' <=> AtLine(f)
  BY <1>1, <1>2 DEF AtLine
<1>8. \A s, j, i, objs : Encloses(s, j, i, objs)' <=> Encloses(s, j, i, objs)
  BY <1>5 DEF Encloses
<1>9. \A s, i, objs, n : FrameTraced(s, i, objs, n)' <=> FrameTraced(s, i, objs, n)
  BY <1>6, <1>7, <1>8 DEF FrameTraced
<1> QED
  BY <1>9 DEF IsTraced

LEMMA SameTables == [Next]_vars => UNCHANGED <<disk, options>>
BY DEF Next, vars, ParseFails, EndOfFile, Comment, Include, Section, Set, Service, Route, RouteFile,
       RouteDir, NextInFolder, NotUnderstood, LoadConfig, SetMain, NextOption, Serve, StartFails

LEMMA NamesAreKept ==
    ASSUME IInv, IInv', [Next]_vars
    PROVE  Known(objects') /\ Keeps(objects, objects') /\ Sound(stack, Len(objects)) /\ DOMAIN objects \subseteq DOMAIN objects'
<1>1. Known(objects')
  BY DEF IInv, Known, Unique, Leads, LeadTo, Listed
<1>2. /\ DOMAIN objects = 1 .. Len(objects) /\ Len(objects) \in Nat /\ Len(objects) >= 4
      /\ DOMAIN objects' = 1 .. Len(objects') /\ Len(objects') \in Nat
  BY <1>1, LenProperties DEF IInv, Known
<1>3. \A i \in DOMAIN objects :
          i \in DOMAIN objects' /\ objects'[i].kind = objects[i].kind /\ objects'[i].name = objects[i].name
  BY StepAdds DEF Adds, AddsTo
<1>4. Len(objects) \in 1 .. Len(objects')
  BY <1>2, <1>3
<1>5. Len(objects) <= Len(objects')
  BY <1>2, <1>4
<1> QED
  BY <1>1, <1>3, <1>5 DEF Keeps, IInv

LEMMA StaysIsTraced ==
    ASSUME IInv, Traced
    PROVE  /\ Begins(Spots(stack), Spots(stack)) /\ Begins(Spots(<<>>), Spots(stack))
           /\ \A objs, n : IsTraced(<<>>, objs, n)
<1>1. stack \in Seq(Activation) /\ <<>> \in Seq(Activation) /\ Len(<<>>) = 0 /\ DOMAIN <<>> = {}
  BY EmptySeq DEF IInv, Sound
<1>2. Len(stack) \in Nat /\ DOMAIN Spots(stack) = 1 .. Len(stack) /\ Len(Spots(stack)) = Len(stack)
  BY <1>1, FoldersFit DEF Traced
<1>3. Len(Spots(<<>>)) = 0 /\ DOMAIN Spots(<<>>) = {}
  BY <1>1 DEF Spots
<1> QED
  BY <1>1, <1>2, <1>3 DEF Begins, IsTraced

LEMMA StepIsTraced == IInv /\ IInv' /\ Written /\ Traced /\ [Next]_vars => Traced' /\ MovesOn
<1> SUFFICES ASSUME IInv, IInv', Written, Traced, [Next]_vars PROVE Traced' /\ MovesOn OBVIOUS
<1>1. UNCHANGED <<disk, options>> /\ CallsAreWritten(stack, objects)
  BY SameTables DEF Written
<1>2. Known(objects) /\ Known(objects') /\ Keeps(objects, objects') /\ Sound(stack, Len(objects))
  BY NamesAreKept DEF IInv
<1>3. IsTraced(stack', objects', optind') => Traced'
  BY <1>1, SameTrace DEF Traced
<1>4. IsTraced(stack, objects', optind)
  BY <1>2, TracedObjects DEF Traced
<1>5. CASE stack' = stack /\ optind' = optind
  BY <1>3, <1>4, <1>5, StaysIsTraced DEF MovesOn, Onward
<1>6. CASE stack' = <<>> /\ optind' = optind
  BY <1>3, <1>6, StaysIsTraced DEF MovesOn, Onward
<1>7. CASE Comment \/ Set \/ Service \/ Route
  <2>1. HasLine /\ stack' = Advanced /\ optind' = optind
    BY <1>7 DEF Comment, Set, Service, Route, InConfig
  <2>2. /\ IsTraced(Advanced, objects, optind) /\ OneFurther(Spots(stack), Spots(Advanced))
        /\ Sound(Advanced, Len(objects))
    BY <2>1, AdvancedIsTraced
  <2>3. IsTraced(Advanced, objects', optind)
    BY <1>2, <2>2, TracedObjects
  <2> QED
    BY <1>3, <2>1, <2>2, <2>3 DEF MovesOn, Onward
<1>8. CASE EndOfFile \/ ParseFails
  <2>1. /\ stack # <<>> /\ objects' = objects /\ optind' = optind
        /\ stack' = Callers \/ \E told : Fail(Top.kind, Callers, told)
    BY <1>8 DEF EndOfFile, ParseFails, HasLine, Reading
  <2>2. /\ Callers \in Seq(Activation) /\ IsTraced(Callers, objects, optind)
        /\ Begins(Spots(Callers), Spots(stack))
    BY <2>1, ReturnIsTraced
  <2>3. IsTraced(stack', objects, optind) /\ Onward(Spots(stack), Spots(stack'))
    BY <2>1, <2>2, FailIsTraced DEF Onward
  <2> QED
    BY <1>3, <2>1, <2>3 DEF MovesOn
<1>9. CASE Include \/ RouteFile \/ RouteDir \/ NextInFolder
  <2>1. objects' = objects /\ optind' = optind
    BY <1>9 DEF Include, RouteFile, RouteDir, NextInFolder
  <2>2. Traces
    BY <1>1, <1>9, IncludeIsTraced, RouteFileIsTraced, RouteDirIsTraced, NextInFolderIsTraced
  <2> QED
    BY <1>3, <2>1, <2>2 DEF MovesOn, Traces
<1>10. CASE Section
  <2>1. optind' = optind
    BY <1>10 DEF Section
  <2> QED
    BY <1>3, <1>4, <1>10, <2>1, SectionIsTraced DEF MovesOn, Onward
<1>11. CASE LoadConfig
  <2>1. objects' = objects /\ optind' = optind + 1 /\ stack = <<>>
    BY <1>11 DEF LoadConfig, NextOption, Between
  <2> QED
    BY <1>3, <1>11, <2>1, LoadConfigIsTraced DEF MovesOn
<1>12. CASE SetMain("v", "level") \/ SetMain("V", "file")
  <2>1. stack = <<>> /\ stack' = <<>> /\ optind' = optind + 1
    BY <1>12 DEF SetMain, NextOption, Between
  <2> QED
    BY <1>3, <2>1, StaysIsTraced DEF MovesOn
<1> QED
  BY <1>5, <1>6, <1>7, <1>8, <1>9, <1>10, <1>11, <1>12 DEF Next, vars, NotUnderstood, Exits, Serve, StartFails

LEMMA InitIsTraced == Init => Traced
BY EmptySeq DEF Init, Traced, IsTraced

-----------------------------------------------------------------------------
\* Places.

LEMMA CallsOne ==
    ASSUME IInv, NEW x, IsReadable(x), NEW y, NEW z, LeadsTo(x, y), LeadsTo(x, z)
    PROVE  y.kind = z.kind /\ y.name = z.name
<1>1. CASE x.kind = "folder"
  BY <1>1 DEF LeadsTo
<1>2. CASE x.kind # "folder"
  <2>1. x.name \in DOMAIN disk
    BY <1>2 DEF IsReadable
  <2>2. PICK l \in Statement :
            /\ Says(x, l) /\ l.name = y.name
            /\ \/ x.kind = "config" /\ l.op \in DOMAIN CallOf /\ y.kind = CallOf[l.op]
               \/ x.kind = "rules" /\ l.op = "routeFile" /\ y.kind = "rules"
    BY <1>2 DEF LeadsTo
  <2>3. PICK m \in Statement :
            /\ Says(x, m) /\ m.name = z.name
            /\ \/ x.kind = "config" /\ m.op \in DOMAIN CallOf /\ z.kind = CallOf[m.op]
               \/ x.kind = "rules" /\ m.op = "routeFile" /\ z.kind = "rules"
    BY <1>2 DEF LeadsTo
  <2>4. l = m
    BY <2>1, <2>2, <2>3, OneStatement
  <2> QED
    BY <2>2, <2>3, <2>4
<1> QED
  BY <1>1, <1>2

\* The spots of a place are lines that are there, and names.
IsThere(x) ==
    IF x.kind = "folder" THEN x.line \in DOMAIN AsListed(x.name)
    ELSE \E p \in Starts(x.name) : StatedAt(x, p)

LEMMA PlaceIsThere ==
    ASSUME IInv, NEW P, IsPlace(P), NEW l, StatementIs(P, l)
    PROVE  /\ P.calls \in Seq(Spot) /\ P.calls # <<>> /\ P.option \in Nat /\ DOMAIN P.calls = 1 .. Len(P.calls)
           /\ Len(P.calls) \in Nat \ {0}
           /\ \A j \in DOMAIN P.calls : P.calls[j] \in Spot /\ IsReadable(P.calls[j]) /\ IsThere(P.calls[j])
           /\ \A j \in DOMAIN P.calls : j + 1 \in DOMAIN P.calls => LeadsTo(P.calls[j], P.calls[j + 1])
<1> DEFINE e == P.calls
<1>1. e \in Seq(Spot) /\ P.option \in Nat /\ IsChain(e) /\ e # <<>>
  BY DEF IsPlace, Places, StatementIs
<1>2. Len(e) \in Nat \ {0} /\ DOMAIN e = 1 .. Len(e) /\ \A j \in DOMAIN e : e[j] \in Spot /\ IsReadable(e[j])
  BY <1>1, EmptySeq, SpotSequence DEF IsChain
<1>3. \A j \in DOMAIN e : j + 1 \in DOMAIN e => LeadsTo(e[j], e[j + 1])
  <2> SUFFICES ASSUME NEW j \in DOMAIN e, j + 1 \in DOMAIN e PROVE LeadsTo(e[j], e[j + 1])
    OBVIOUS
  <2>1. j + 1 > 1 /\ (j + 1) - 1 = j
    BY <1>2
  <2>2. \A i \in DOMAIN e : i > 1 => LeadsTo(e[i - 1], e[i])
    BY <1>1 DEF IsChain
  <2>3. LeadsTo(e[(j + 1) - 1], e[j + 1])
    BY <2>1, <2>2
  <2> QED
    BY <2>1, <2>3
<1>4. ASSUME NEW j \in DOMAIN e PROVE IsThere(e[j])
  <2>1. CASE j = Len(e)
    BY <2>1 DEF StatementIs, Final, Says, IsThere
  <2>2. CASE j # Len(e)
    <3>1. j + 1 \in DOMAIN e
      BY <1>2, <2>2
    <3>2. LeadsTo(e[j], e[j + 1])
      BY <1>3, <3>1
    <3> QED
      BY <3>2 DEF LeadsTo, IsThere, Says
  <2> QED
    BY <2>1, <2>2
<1> QED
  BY <1>1, <1>2, <1>3, <1>4

LEMMA LinesFromOne ==
    ASSUME IInv, NEW x, IsReadable(x), IsThere(x)
    PROVE  x.line # 0
<1>1. CASE x.kind = "folder"
  <2>1. AsListed(x.name) \in Seq(Name)
    BY <1>1, ConfigAssumption DEF IsReadable
  <2>2. DOMAIN AsListed(x.name) = 1 .. Len(AsListed(x.name))
    BY <2>1, LenProperties
  <2> QED
    BY <1>1, <2>2 DEF IsThere
<1>2. CASE x.kind # "folder"
  <2>1. PICK p \in Starts(x.name) : StatedAt(x, p)
    BY <1>2 DEF IsThere
  <2>2. LinesBefore(x.name, p) \in Nat /\ x.line = LinesBefore(x.name, p) + 1
    BY <1>2, <2>1, CountOfLines DEF IsReadable, StatedAt
  <2> QED
    BY <2>2
<1> QED
  BY <1>1, <1>2

LEMMA TracedIsAChain ==
    ASSUME IInv, NEW s, Sound(s, Len(objects)), IsTraced(s, objects, optind)
    PROVE  /\ Spots(s) \in Seq(Spot) /\ Len(Spots(s)) = Len(s) /\ DOMAIN Spots(s) = 1 .. Len(s)
           /\ Len(s) \in Nat /\ DOMAIN s = 1 .. Len(s)
           /\ \A i \in 1 .. Len(s) :
                  /\ Spots(s)[i] = SpotOf(s[i]) /\ s[i] \in Activation /\ Spots(s)[i] \in Spot
                  /\ Spots(s)[i].kind = s[i].kind /\ Spots(s)[i].name = s[i].name
                  /\ IsReadable(Spots(s)[i]) /\ FrameTraced(s, i, objects, optind)
                  /\ i > 1 => LeadsTo(Spots(s)[i - 1], Spots(s)[i])
<1>1. /\ s \in Seq(Activation) /\ Spots(s) \in Seq(Spot) /\ Len(Spots(s)) = Len(s)
      /\ DOMAIN Spots(s) = 1 .. Len(s) /\ DOMAIN s = 1 .. Len(s) /\ Len(s) \in Nat
      /\ \A j \in 1 .. Len(s) : /\ s[j] \in Activation /\ FolderFits(s[j])
                                /\ Spots(s)[j] = SpotOf(s[j])
  BY FoldersFit DEF Sound
<1>2. ASSUME NEW i \in 1 .. Len(s)
      PROVE  /\ Spots(s)[i] = SpotOf(s[i]) /\ s[i] \in Activation /\ Spots(s)[i] \in Spot
             /\ Spots(s)[i].kind = s[i].kind /\ Spots(s)[i].name = s[i].name
             /\ IsReadable(Spots(s)[i]) /\ FrameTraced(s, i, objects, optind)
             /\ i > 1 => LeadsTo(Spots(s)[i - 1], Spots(s)[i])
  <2>1. SpotOf(s[i]) \in Spot /\ SpotOf(s[i]).kind = s[i].kind /\ SpotOf(s[i]).name = s[i].name
    BY <1>1, SpotIsOne
  <2>2. FrameTraced(s, i, objects, optind) /\ FrameFits(s, i, Len(objects))
    BY <1>1 DEF IsTraced, Sound
  <2>3. IsReadable(SpotOf(s[i]))
    BY <1>1, <2>1, <2>2 DEF IsReadable, FrameFits, FolderFits
  <2>4. i > 1 => LeadsTo(Spots(s)[i - 1], Spots(s)[i])
    <3>1. i > 1 => i - 1 \in 1 .. Len(s)
      BY <1>1
    <3> QED
      BY <1>1, <2>2, <3>1 DEF FrameTraced
  <2> QED
    BY <1>1, <2>1, <2>2, <2>3, <2>4
<1> QED
  BY <1>1, <1>2

LEMMA StackIsAChain ==
    ASSUME IInv, Traced
    PROVE  /\ Spots(stack) \in Seq(Spot) /\ Len(Spots(stack)) = Len(stack) /\ DOMAIN Spots(stack) = 1 .. Len(stack)
           /\ Len(stack) \in Nat /\ DOMAIN stack = 1 .. Len(stack)
           /\ \A i \in 1 .. Len(stack) :
                  /\ Spots(stack)[i] = SpotOf(stack[i]) /\ stack[i] \in Activation /\ Spots(stack)[i] \in Spot
                  /\ Spots(stack)[i].kind = stack[i].kind /\ Spots(stack)[i].name = stack[i].name
                  /\ IsReadable(Spots(stack)[i]) /\ FrameTraced(stack, i, objects, optind)
                  /\ i > 1 => LeadsTo(Spots(stack)[i - 1], Spots(stack)[i])
BY TracedIsAChain DEF Traced, IInv

\* A place and the stack part at a line, not at what a line calls.
LEMMA PlaceIsAlike ==
    ASSUME IInv, Traced, NEW P, IsPlace(P), NEW l, StatementIs(P, l), P.option = optind - 1
    PROVE  Alike(P.calls, Spots(stack))
<1> DEFINE e == P.calls
           c == Spots(stack)
<1>1. /\ DOMAIN c = 1 .. Len(stack) /\ Len(stack) \in Nat
      /\ \A i \in 1 .. Len(stack) :
             /\ c[i].kind = stack[i].kind /\ c[i].name = stack[i].name
             /\ FrameTraced(stack, i, objects, optind) /\ (i > 1 => LeadsTo(c[i - 1], c[i]))
  BY StackIsAChain
<1>2. /\ DOMAIN e = 1 .. Len(e) /\ Len(e) \in Nat \ {0}
      /\ \A j \in DOMAIN e : IsReadable(e[j]) /\ (j + 1 \in DOMAIN e => LeadsTo(e[j], e[j + 1]))
  BY PlaceIsThere
<1>3. e[1].kind = "config" /\ e[1].name = options[optind - 1].name
  BY DEF IsPlace, StatementIs
<1>4. ASSUME NEW m \in DOMAIN e \cap DOMAIN c, \A j \in 1 .. m - 1 : e[j] = c[j]
      PROVE  e[m].kind = c[m].kind /\ e[m].name = c[m].name
  <2>1. CASE m = 1
    <3>1. 1 \in 1 .. Len(stack)
      BY <1>1, <2>1
    <3> QED
      BY <1>1, <1>3, <2>1, <3>1 DEF FrameTraced
  <2>2. CASE m # 1
    <3>1. m - 1 \in 1 .. m - 1 /\ m - 1 \in DOMAIN e /\ (m - 1) + 1 = m /\ m > 1 /\ m \in 1 .. Len(stack)
      BY <1>1, <1>2, <2>2
    <3>2. LeadsTo(e[m - 1], e[m]) /\ IsReadable(e[m - 1])
      BY <1>2, <3>1
    <3>3. LeadsTo(c[m - 1], c[m]) /\ e[m - 1] = c[m - 1]
      BY <1>1, <1>4, <3>1
    <3> QED
      BY <3>2, <3>3, CallsOne
  <2> QED
    BY <2>1, <2>2
<1> QED
  BY <1>4 DEF Alike

\* A stack is the beginning of a place.
LEMMA TracedIsAPlace ==
    ASSUME IInv, NEW s, Sound(s, Len(objects)), IsTraced(s, objects, optind), s # <<>>,
           \A i \in DOMAIN s : Placed(s[i], i)
    PROVE  IsPlace([option |-> optind - 1, calls |-> Spots(s)])
<1> DEFINE c == Spots(s)
<1>1. /\ c \in Seq(Spot) /\ DOMAIN c = 1 .. Len(s) /\ Len(s) \in Nat /\ DOMAIN s = 1 .. Len(s)
      /\ \A i \in 1 .. Len(s) :
             /\ s[i] \in Activation /\ c[i].kind = s[i].kind /\ c[i].name = s[i].name
             /\ IsReadable(c[i]) /\ FrameTraced(s, i, objects, optind)
             /\ (i > 1 => LeadsTo(c[i - 1], c[i]))
  BY TracedIsAChain
<1>2. 1 \in 1 .. Len(s) /\ optind \in Nat
  BY <1>1, EmptySeq, LenProperties, ConfigAssumption DEF IInv, Tables
<1>3. /\ optind - 1 \in DOMAIN options /\ options[optind - 1].op = "c"
      /\ c[1].kind = "config" /\ c[1].name = options[optind - 1].name
  BY <1>1, <1>2 DEF FrameTraced
<1>4. optind - 1 \in Nat
  BY <1>2 DEF IInv, Tables
<1>5. ASSUME NEW i \in 1 .. Len(s), NEW j \in 1 .. i - 1
      PROVE  MayFollow(c[j], c[i], i - j)
  <2> SUFFICES ASSUME c[j].kind = c[i].kind PROVE c[j].name # c[i].name /\ i - j < MaxDepth
    BY DEF MayFollow
  <2>1. j \in 1 .. Len(s) /\ i \in Nat /\ j \in Nat /\ j < i /\ j >= 1
    BY <1>1
  <2>2. FrameTraced(s, i, objects, optind) /\ FrameFits(s, i, Len(objects)) /\ Placed(s[i], i)
        /\ s[i] \in Activation /\ s[i].depth \in Nat /\ MaxDepth \in Nat
    BY <1>1, ConfigAssumption DEF Sound, Activation
  <2>3. Encloses(s, j, i, objects) /\ s[j].kind = s[i].kind
    BY <1>1, <2>1, <2>2 DEF FrameTraced
  <2>4. j > i - s[i].depth
    <3>1. CASE s[i].kind = "config"
      BY <2>1, <2>2, <3>1 DEF Placed
    <3>2. CASE s[i].kind = "rules"
      BY <2>3, <3>2 DEF Encloses
    <3>3. CASE s[i].kind = "folder"
      BY <2>3, <3>3 DEF Encloses
    <3> QED
      BY <2>2, <3>1, <3>2, <3>3 DEF Activation
  <2>5. j \in i - s[i].depth + 1 .. i - 1 /\ i - j < s[i].depth /\ s[i].depth <= MaxDepth
    BY <2>1, <2>2, <2>4 DEF FrameFits
  <2>6. s[j].name # s[i].name
    BY <2>2, <2>5 DEF FrameFits
  <2> QED
    BY <1>1, <2>1, <2>2, <2>5, <2>6
<1>6. IsChain(c)
  BY <1>1, <1>5 DEF IsChain
<1>7. [option |-> optind - 1, calls |-> c] \in Places
  BY <1>1, <1>4 DEF Places
<1> QED
  BY <1>3, <1>6, <1>7 DEF IsPlace

-----------------------------------------------------------------------------
\* What has been passed stays passed, and only a rule's line passes its place.

LEMMA HereIs ==
    ASSUME IInv, Traced, IInv', Traced'
    PROVE  /\ Here.option = optind - 1 /\ Here.calls = Spots(stack) /\ Spots(stack) \in Seq(Spot)
           /\ Here'.option = optind' - 1 /\ Here'.calls = Spots(stack') /\ Spots(stack') \in Seq(Spot)
           /\ optind \in Nat /\ optind' \in Nat
<1>1. stack \in Seq(Activation) /\ stack' \in Seq(Activation)
  BY DEF IInv, Sound
<1>2. \A i \in DOMAIN stack : FolderFits(stack[i])
  BY DEF Traced, IsTraced, FrameTraced
<1>3. \A i \in DOMAIN stack' : FolderFits(stack'[i])
  BY DEF Traced, IsTraced, FrameTraced, FolderFits
<1>4. Spots(stack) \in Seq(Spot) /\ Spots(stack') \in Seq(Spot)
  BY <1>1, <1>2, <1>3, SpotsOfStack
<1>5. Here = [option |-> optind - 1, calls |-> Spots(stack)] /\ Here' = [option |-> optind' - 1, calls |-> Spots(stack')]
  BY DEF Here, Spots
<1>6. optind \in Nat /\ optind' \in Nat
  <2>1. optind \in 1 .. Len(options) + 1 /\ Len(options) \in Nat
    BY ConfigAssumption, LenProperties DEF IInv, Tables
  <2>2. optind' \in 1 .. Len(options') + 1 /\ Len(options') \in Nat
    BY ConfigAssumption, LenProperties DEF IInv, Tables
  <2> QED
    BY <2>1, <2>2
<1> QED
  BY <1>4, <1>5, <1>6

LEMMA BehindStays ==
    ASSUME IInv, Traced, IInv', Traced', MovesOn, NEW P \in Places, Behind(P, Here)
    PROVE  Behind(P, Here')
<1> DEFINE c == Spots(stack)
           d == Spots(stack')
           e == P.calls
<1>1. /\ Here.option = optind - 1 /\ Here.calls = c /\ c \in Seq(Spot)
      /\ Here'.option = optind' - 1 /\ Here'.calls = d /\ d \in Seq(Spot)
      /\ optind \in Nat /\ optind' \in Nat
  BY HereIs
<1>2. P.option \in Nat /\ e \in Seq(Spot)
  BY DEF Places
<1>3. P.option < optind - 1 \/ (P.option = optind - 1 /\ CallsBehind(e, c))
  BY <1>1 DEF Behind, CallsBehind
<1>4. optind' = optind + 1 => P.option < optind' - 1
  BY <1>1, <1>2, <1>3
<1>5. optind' = optind /\ Onward(c, d) /\ CallsBehind(e, c) => CallsBehind(e, d)
  <2> SUFFICES ASSUME Onward(c, d), CallsBehind(e, c) PROVE CallsBehind(e, d)
    OBVIOUS
  <2> HIDE DEF c, d, e
  <2>1. CASE Begins(d, c)
    BY <1>1, <1>2, <2>1, BehindReturn
  <2>2. CASE OneFurther(c, d)
    BY <1>1, <1>2, <2>2, BehindFurther DEF CallsBehind
  <2>3. CASE \E b \in Seq(Spot), x \in Spot : OneFurther(c, b) /\ x.line = 0 /\ d = Append(b, x)
    <3>1. PICK b \in Seq(Spot), x \in Spot : OneFurther(c, b) /\ x.line = 0 /\ d = Append(b, x)
      BY <2>3
    <3>2. Earlier(e, b)
      BY <1>1, <1>2, <3>1, BehindFurther
    <3> QED
      BY <1>2, <3>1, <3>2, BehindCall DEF CallsBehind
  <2> QED
    BY <2>1, <2>2, <2>3 DEF Onward
<1>6. CASE optind' = optind + 1
  BY <1>1, <1>4, <1>6 DEF Behind
<1>7. CASE optind' = optind /\ Onward(c, d)
  BY <1>1, <1>3, <1>5, <1>7 DEF Behind, CallsBehind
<1> QED
  BY <1>6, <1>7 DEF MovesOn

LEMMA BehindIsBefore ==
    ASSUME IInv, Traced, IInv', Traced', optind' = optind, OneFurther(Spots(stack), Spots(stack')),
           NEW P \in Places, Behind(P, Here)
    PROVE  Before(P, Here')
<1>1. /\ Here.option = optind - 1 /\ Here.calls = Spots(stack) /\ Spots(stack) \in Seq(Spot)
      /\ Here'.option = optind' - 1 /\ Here'.calls = Spots(stack') /\ Spots(stack') \in Seq(Spot)
  BY HereIs
<1>2. P.calls \in Seq(Spot)
  BY DEF Places
<1>3. CallsBehind(P.calls, Spots(stack)) => Earlier(P.calls, Spots(stack'))
  BY <1>1, <1>2, BehindFurther
<1> QED
  BY <1>1, <1>3 DEF Behind, Before, CallsBehind

\* A place that is passed while the option is read, and those that are passed
\* by a call and by a return.
Passed(P) == Behind(P, Here') /\ ~ Behind(P, Here)

LEMMA PassedInCalls ==
    ASSUME IInv, Traced, IInv', Traced', optind' = optind, NEW P, IsPlace(P), NEW l, StatementIs(P, l), Passed(P)
    PROVE  /\ P.option = optind - 1 /\ P.calls \in Seq(Spot) /\ Alike(P.calls, Spots(stack))
           /\ CallsBehind(P.calls, Spots(stack')) /\ ~ CallsBehind(P.calls, Spots(stack))
<1>1. /\ Here.option = optind - 1 /\ Here.calls = Spots(stack)
      /\ Here'.option = optind' - 1 /\ Here'.calls = Spots(stack')
  BY HereIs
<1>2. P.calls \in Seq(Spot)
  BY PlaceIsThere
<1>3. /\ P.option = optind - 1
      /\ CallsBehind(P.calls, Spots(stack')) /\ ~ CallsBehind(P.calls, Spots(stack))
  BY <1>1 DEF Passed, Behind, CallsBehind
<1> QED
  BY <1>2, <1>3, PlaceIsAlike

LEMMA CallPassesNone ==
    ASSUME IInv, Traced, IInv', Traced', optind' = optind, NEW P, IsPlace(P), NEW l, StatementIs(P, l), Passed(P),
           NEW b \in Seq(Spot), NEW x \in Spot, OneFurther(Spots(stack), b), x.line = 0, Spots(stack') = Append(b, x)
    PROVE  FALSE
<1> DEFINE e == P.calls
           c == Spots(stack)
<1>1. /\ e \in Seq(Spot) /\ Alike(e, c) /\ CallsBehind(e, Append(b, x)) /\ ~ CallsBehind(e, c)
  BY PassedInCalls
<1>2. \A j \in DOMAIN e : e[j].line # 0
  BY PlaceIsThere, LinesFromOne
<1>3. c \in Seq(Spot)
  BY HereIs
<1> HIDE DEF e, c
<1>4. Earlier(e, b)
  BY <1>1, <1>2, BehindCall
<1>5. CallsBehind(e, c)
  BY <1>1, <1>3, <1>4, BehindFurther DEF c
<1> QED
  BY <1>1, <1>5

\* A return passes nothing: what it leaves behind was the last of its call.
LEMMA ReturnPassesNone ==
    ASSUME IInv, Traced, IInv', Traced', stack # <<>>, stack' = Callers, optind' = optind,
           NEW P, IsPlace(P), NEW l, StatementIs(P, l), Passed(P), l.op \notin DOMAIN CallOf,
           \/ EndOfFile
           \/ Top.kind = "folder" /\ Top.todo = <<>>
    PROVE  FALSE
<1> DEFINE e == P.calls
           c == Spots(stack)
           d == Spots(Callers)
           n == Len(stack)
<1>1. /\ c \in Seq(Spot) /\ Len(c) = n /\ DOMAIN c = 1 .. n /\ n \in Nat /\ DOMAIN stack = 1 .. n
      /\ \A i \in 1 .. n :
             /\ c[i] = SpotOf(stack[i]) /\ stack[i] \in Activation /\ c[i] \in Spot
             /\ c[i].kind = stack[i].kind /\ c[i].name = stack[i].name
             /\ IsReadable(c[i]) /\ FrameTraced(stack, i, objects, optind)
             /\ (i > 1 => LeadsTo(c[i - 1], c[i]))
  BY StackIsAChain
<1>2. n \in 1 .. n /\ c # <<>> /\ Top = stack[n]
  BY <1>1, EmptySeq DEF Top
<1>3. Callers \in Seq(Activation) /\ Begins(d, c) /\ Len(Callers) = n - 1 /\ d \in Seq(Spot) /\ Len(d) = n - 1
      /\ DOMAIN d = 1 .. n - 1 /\ \A i \in 1 .. n - 1 : d[i] = c[i]
  <2>1. Callers \in Seq(Activation) /\ Begins(d, c) /\ IsTraced(Callers, objects, optind)
    BY ReturnIsTraced
  <2>2. Len(Callers) = n - 1
    <3>1. stack \in Seq(Activation)
      BY DEF IInv, Sound
    <3> QED
      BY <3>1, WithoutLast DEF Callers
  <2>3. d \in Seq(Spot) /\ Len(d) = Len(Callers) /\ DOMAIN d = 1 .. Len(Callers)
    BY <2>1, FoldersFit
  <2> QED
    BY <2>1, <2>2, <2>3 DEF Begins
<1>4. e \in Seq(Spot) /\ Alike(e, c) /\ CallsBehind(e, d) /\ ~ CallsBehind(e, c)
  BY PassedInCalls
<1>5. /\ e # <<>> /\ DOMAIN e = 1 .. Len(e) /\ Len(e) \in Nat \ {0}
      /\ \A j \in DOMAIN e : e[j] \in Spot /\ IsReadable(e[j]) /\ IsThere(e[j])
  BY PlaceIsThere
<1>6. e # d
  <2> SUFFICES ASSUME e = d PROVE FALSE
    OBVIOUS
  <2>1. n - 1 \in 1 .. n - 1 /\ n > 1 /\ Len(e) = n - 1
    BY <1>1, <1>3, <1>5
  <2>2. Final(P) = c[n - 1] /\ LeadsTo(c[n - 1], c[n]) /\ IsReadable(c[n - 1])
    BY <1>1, <1>2, <1>3, <2>1 DEF Final
  <2>3. c[n - 1].kind # "folder" /\ Says(c[n - 1], l)
    BY <2>2 DEF StatementIs
  <2>4. PICK m \in Statement : Says(c[n - 1], m) /\ m.op \in DOMAIN CallOf
    BY <2>2, <2>3 DEF LeadsTo, CallOf
  <2>5. l = m
    BY <2>2, <2>3, <2>4, OneStatement DEF IsReadable
  <2> QED
    BY <2>4, <2>5
<1>7. ASSUME n \in DOMAIN e, e[n].kind = c[n].kind, e[n].name = c[n].name
      PROVE  e[n].line <= c[n].line
  <2>1. IsThere(e[n]) /\ c[n] = SpotOf(Top) /\ c[n].kind = Top.kind /\ c[n].name = Top.name
        /\ FrameTraced(stack, n, objects, optind) /\ Top \in Activation
    BY <1>1, <1>2, <1>5, <1>7
  <2>2. AtLine(Top) /\ FolderFits(Top)
    BY <1>2, <2>1 DEF FrameTraced
  <2>3. CASE Top.kind = "folder"
    <3>1. ~ EndOfFile
      BY <2>3 DEF EndOfFile, Reading
    <3>2. c[n].line = Len(AsListed(Top.name)) - Len(Top.todo) /\ Top.todo = <<>>
      BY <2>1, <2>2, <2>3, <3>1, SpotIsOne
    <3>3. AsListed(Top.name) \in Seq(Name)
      BY <2>2, <2>3, ConfigAssumption DEF FolderFits
    <3>4. Len(AsListed(Top.name)) \in Nat /\ DOMAIN AsListed(Top.name) = 1 .. Len(AsListed(Top.name))
      BY <3>3, LenProperties
    <3>5. e[n].line \in DOMAIN AsListed(Top.name)
      BY <1>7, <2>1, <2>3 DEF IsThere
    <3>6. Len(<<>>) = 0
      BY EmptySeq
    <3>7. c[n].line = Len(AsListed(Top.name))
      BY <3>2, <3>4, <3>6
    <3> QED
      BY <3>4, <3>5, <3>7
  <2>4. CASE Top.kind # "folder"
    <3>1. c[n].line = Top.line
      BY <2>1, <2>2, <2>4, SpotIsOne
    <3>2. PICK p \in Starts(Top.name) : StatedAt(e[n], p)
      BY <1>7, <2>1, <2>4 DEF IsThere
    <3>3. LinesBefore(Top.name, p) + 1 <= Top.line
      BY <2>2, <2>4, LinesAreTaken
    <3> QED
      BY <1>7, <2>1, <3>1, <3>2, <3>3 DEF StatedAt
  <2> QED
    BY <2>3, <2>4
<1> HIDE DEF e, c, d, n
<1>8. CallsBehind(e, c)
  BY <1>1, <1>2, <1>3, <1>4, <1>6, <1>7, BehindEnd
<1> QED
  BY <1>4, <1>8

\* What a line that is taken passes begins with that line.
LEMMA LinePasses ==
    ASSUME IInv, Traced, IInv', Traced', HasLine, optind' = optind, OneFurther(Spots(stack), Spots(stack')),
           NEW P, IsPlace(P), NEW l, StatementIs(P, l), Passed(P)
    PROVE  LET n == Len(stack) e == P.calls IN
           /\ n \in DOMAIN e /\ Begins(Spots(stack'), e) /\ Len(Spots(stack')) = n
           /\ e[n].kind = Top.kind /\ Says(e[n], Line)
           /\ Len(e) = n => P = Here' /\ l = Line
           /\ Len(e) # n => n + 1 \in DOMAIN e /\ LeadsTo(e[n], e[n + 1])
<1> DEFINE e == P.calls
           c == Spots(stack)
           d == Spots(stack')
           n == Len(stack)
<1>1. /\ c \in Seq(Spot) /\ Len(c) = n /\ DOMAIN c = 1 .. n /\ n \in Nat /\ DOMAIN stack = 1 .. n
      /\ \A i \in 1 .. n :
             /\ c[i] = SpotOf(stack[i]) /\ stack[i] \in Activation
             /\ c[i].kind = stack[i].kind /\ c[i].name = stack[i].name
             /\ FrameTraced(stack, i, objects, optind)
  BY StackIsAChain
<1>2. n \in 1 .. n /\ Top = stack[n] /\ Top.kind # "folder"
  BY <1>1, EmptySeq DEF Top, HasLine, Reading
<1>3. Top \in Activation /\ AtLine(Top) /\ FolderFits(Top) /\ c[n].line = Top.line /\ c[n].kind = Top.kind
      /\ c[n].name = Top.name
  <2>1. FrameTraced(stack, n, objects, optind) /\ stack[n] \in Activation /\ c[n] = SpotOf(stack[n])
    BY <1>1, <1>2
  <2>2. Top \in Activation /\ AtLine(Top) /\ FolderFits(Top)
    BY <1>2, <2>1 DEF FrameTraced
  <2> QED
    BY <1>1, <1>2, <2>1, <2>2, SpotIsOne
<1>4. d \in Seq(Spot) /\ Len(d) = n /\ d[n].line = Top.line + 1 /\ d[n].kind = Top.kind /\ d[n].name = Top.name
  BY <1>1, <1>3, HereIs DEF OneFurther
<1>5. /\ e \in Seq(Spot) /\ e # <<>> /\ DOMAIN e = 1 .. Len(e) /\ Len(e) \in Nat \ {0}
      /\ \A j \in DOMAIN e : e[j] \in Spot /\ IsReadable(e[j]) /\ IsThere(e[j])
      /\ \A j \in DOMAIN e : j + 1 \in DOMAIN e => LeadsTo(e[j], e[j + 1])
  BY PlaceIsThere
<1>6. P.option = optind - 1 /\ Alike(e, c) /\ CallsBehind(e, d) /\ ~ CallsBehind(e, c)
  BY PassedInCalls
<1>7. Begins(d, e)
  <2>1. ~ Earlier(e, d)
    <3> HIDE DEF e, c, d
    <3> QED
      BY <1>1, <1>4, <1>5, <1>6, BehindFurther DEF c, d
  <2> QED
    BY <1>6, <2>1 DEF CallsBehind
<1>8. DOMAIN d = 1 .. n /\ n \in DOMAIN e /\ e[n] = d[n] /\ n <= Len(e)
  <2>1. DOMAIN d = 1 .. n
    BY <1>4, SpotSequence
  <2>2. n <= Len(e) /\ e[n] = d[n]
    BY <1>2, <1>4, <1>7, <2>1 DEF Begins
  <2> QED
    BY <1>2, <1>5, <2>1, <2>2
<1>9. Says(e[n], Line)
  <2>1. IsThere(e[n]) /\ e[n].kind # "folder"
    BY <1>2, <1>4, <1>5, <1>8
  <2>2. PICK p \in Starts(e[n].name) : StatedAt(e[n], p)
    BY <2>1 DEF IsThere
  <2>3. e[n].line = LinesBefore(Top.name, p) + 1 /\ e[n].name = Top.name /\ e[n].line = Top.line + 1
    BY <1>4, <1>8, <2>2 DEF StatedAt
  <2>4. After.kind = Top.kind /\ After.name = Top.name
    BY <1>3, LineIsRead
  <2>5. /\ After.line = Top.line + 1
        /\ \A q \in Starts(After.name) :
               LinesBefore(After.name, q) + 1 = After.line => q = Begin /\ disk[After.name][q] = Line
    BY <1>3, <2>4, LineIsNumbered
  <2>6. disk[e[n].name][p] = Line
    BY <2>2, <2>3, <2>4, <2>5
  <2> QED
    BY <2>2, <2>6 DEF Says
<1>10. ASSUME Len(e) = n PROVE P = Here' /\ l = Line
  <2>1. e = d
    <3>1. Len(e) = Len(d) /\ \A j \in 1 .. Len(e) : e[j] = d[j]
      BY <1>4, <1>7, <1>8, <1>10 DEF Begins
    <3> HIDE DEF e, d
    <3> QED
      BY <1>4, <1>5, <3>1, SeqEqual
  <2>2. P = [option |-> P.option, calls |-> e]
    BY DEF IsPlace, Places
  <2>3. Here' = [option |-> optind' - 1, calls |-> d]
    BY DEF Here, Spots
  <2>4. Final(P) = e[n] /\ Says(e[n], l) /\ IsReadable(e[n]) /\ e[n].kind # "folder"
    BY <1>2, <1>4, <1>5, <1>8, <1>10 DEF Final, StatementIs
  <2>5. l = Line
    BY <1>9, <2>4, OneStatement DEF IsReadable
  <2> QED
    BY <1>6, <2>1, <2>2, <2>3, <2>5
<1>11. ASSUME Len(e) # n PROVE n + 1 \in DOMAIN e /\ LeadsTo(e[n], e[n + 1])
  <2>1. n + 1 \in DOMAIN e
    BY <1>1, <1>5, <1>8, <1>11
  <2> QED
    BY <1>5, <1>8, <2>1
<1> QED
  BY <1>3, <1>4, <1>7, <1>8, <1>9, <1>10, <1>11

\* A line that is not a call leads nowhere, and one that would call a file that
\* is being read, or too many, leads to no place.
LEMMA PlainLinePasses ==
    ASSUME IInv, Traced, IInv', Traced', HasLine, optind' = optind, OneFurther(Spots(stack), Spots(stack')),
           NEW P, IsPlace(P), NEW l, StatementIs(P, l), Passed(P), Line.op \notin DOMAIN CallOf
    PROVE  P = Here' /\ l = Line
<1> DEFINE n == Len(stack)
           e == P.calls
<1>1. /\ n \in DOMAIN e /\ Says(e[n], Line)
      /\ Len(e) = n => P = Here' /\ l = Line
      /\ Len(e) # n => n + 1 \in DOMAIN e /\ LeadsTo(e[n], e[n + 1])
      /\ e[n].kind = Top.kind
  BY LinePasses
<1>2. Top.kind # "folder" /\ IsReadable(e[n])
  BY <1>1, PlaceIsThere DEF HasLine, Reading
<1>3. ASSUME LeadsTo(e[n], e[n + 1]) PROVE FALSE
  <2>1. PICK m \in Statement : Says(e[n], m) /\ m.op \in DOMAIN CallOf
    BY <1>1, <1>2, <1>3 DEF LeadsTo, CallOf
  <2>2. m = Line
    BY <1>1, <1>2, <2>1, OneStatement DEF IsReadable
  <2> QED
    BY <2>1, <2>2
<1> QED
  BY <1>1, <1>3

LEMMA BlockedPassesNone ==
    ASSUME IInv, Traced, IInv', Traced', Chained(stack), Include, stack' = Advanced, Blocked(Line.name),
           NEW P, IsPlace(P), NEW l, StatementIs(P, l), Passed(P), l.op \notin DOMAIN CallOf
    PROVE  FALSE
<1> DEFINE n == Len(stack)
           e == P.calls
           d == Spots(Advanced)
           k == n - Top.depth + 1
<1>1. /\ HasLine /\ optind' = optind
      /\ Line.op = IF Top.kind = "config" THEN "include" ELSE "routeFile"
  BY DEF Include
<1>2. /\ IsTraced(Advanced, objects, optind) /\ OneFurther(Spots(stack), d)
      /\ Advanced \in Seq(Activation) /\ Len(Advanced) = Len(stack)
  BY <1>1, AdvancedIsTraced
<1>3. /\ n \in DOMAIN e /\ Begins(d, e) /\ Len(d) = n /\ Says(e[n], Line) /\ e[n].kind = Top.kind
      /\ Len(e) = n => l = Line
      /\ Len(e) # n => n + 1 \in DOMAIN e /\ LeadsTo(e[n], e[n + 1])
  BY <1>1, <1>2, LinePasses
<1>4. Top.kind \in {"config", "rules"} /\ IsReadable(e[n]) /\ stack # <<>> /\ e \in Seq(Spot) /\ e # <<>>
  <2>1. stack # <<>> /\ Top.kind # "folder"
    BY <1>1 DEF HasLine, Reading
  <2>2. Top \in Activation
    BY <2>1, Running
  <2> QED
    BY <1>3, <2>1, <2>2, PlaceIsThere DEF Activation
<1>5. n + 1 \in DOMAIN e /\ LeadsTo(e[n], e[n + 1])
  BY <1>1, <1>3 DEF CallOf
<1>6. e[n + 1].kind = Top.kind /\ e[n + 1].name = Line.name
  <2>1. PICK m \in Statement :
            /\ Says(e[n], m) /\ m.name = e[n + 1].name
            /\ \/ Top.kind = "config" /\ m.op \in DOMAIN CallOf /\ e[n + 1].kind = CallOf[m.op]
               \/ Top.kind = "rules" /\ m.op = "routeFile" /\ e[n + 1].kind = "rules"
    BY <1>3, <1>4, <1>5 DEF LeadsTo
  <2>2. m = Line
    BY <1>3, <1>4, <2>1, OneStatement DEF IsReadable
  <2> QED
    BY <1>1, <2>1, <2>2 DEF CallOf
<1>7. /\ n \in Nat \ {0} /\ DOMAIN stack = 1 .. n /\ Top = stack[n] /\ Top.depth \in Nat /\ Top.depth <= n
      /\ MaxDepth \in Nat \ {0} /\ DOMAIN d = 1 .. n
  <2>1. n \in Nat \ {0} /\ n \in DOMAIN stack /\ Top \in Activation /\ FrameFits(stack, n, Len(objects))
    BY <1>4, Running
  <2>2. DOMAIN stack = 1 .. n /\ DOMAIN d = 1 .. n
    BY <1>2, FoldersFit, LenProperties DEF IInv, Sound
  <2> QED
    BY <2>1, <2>2, ConfigAssumption DEF FrameFits, Activation, Top
<1>8. \A i \in k .. n : /\ i \in 1 .. n /\ stack[i].kind = Top.kind /\ d[i].kind = Top.kind /\ d[i].name = stack[i].name
                        /\ e[i] = d[i] /\ i \in DOMAIN e
  <2> SUFFICES ASSUME NEW i \in k .. n
               PROVE  /\ i \in 1 .. n /\ stack[i].kind = Top.kind /\ d[i].kind = Top.kind /\ d[i].name = stack[i].name
                      /\ e[i] = d[i] /\ i \in DOMAIN e
    OBVIOUS
  <2>1. i \in 1 .. n /\ (i = n \/ i \in n - stack[n].depth + 1 .. n - 1)
    BY <1>7
  <2>2. stack[i].kind = Top.kind
    <3>1. n \in DOMAIN stack
      BY <1>7
    <3>2. Linked(stack, n)
      BY <3>1 DEF Chained
    <3>3. i \in n - stack[n].depth + 1 .. n - 1 => stack[i].kind = stack[n].kind
      BY <3>2 DEF Linked
    <3> HIDE DEF n
    <3> QED
      BY <1>7, <2>1, <3>3
  <2>3. e[i] = d[i] /\ i \in DOMAIN e
    <3>1. DOMAIN e = 1 .. Len(e) /\ Len(e) \in Nat
      BY <1>4, LenProperties
    <3>2. n <= Len(e) /\ \A j \in DOMAIN d : e[j] = d[j]
      BY <1>3 DEF Begins
    <3> HIDE DEF n, e, d
    <3> QED
      BY <1>7, <2>1, <3>1, <3>2
  <2>4. d[i].kind = Advanced[i].kind /\ d[i].name = Advanced[i].name
    <3>1. i \in 1 .. Len(Advanced) /\ Advanced[i] \in Activation /\ FolderFits(Advanced[i]) /\ d[i] = SpotOf(Advanced[i])
      BY <1>2, <2>1, FoldersFit
    <3> QED
      BY <3>1, SpotIsOne
  <2>5. Advanced[i].kind = stack[i].kind /\ Advanced[i].name = stack[i].name
    <3>1. Advanced[i] = IF i = n THEN After ELSE stack[i]
      BY <1>7, <2>1 DEF Advanced
    <3>2. After.kind = Top.kind /\ After.name = Top.name
      BY <1>1, LineIsRead
    <3> QED
      BY <1>7, <3>1, <3>2
  <2> QED
    BY <2>1, <2>2, <2>3, <2>4, <2>5
<1>9. \A i \in k .. n : stack[i].name # Line.name /\ n + 1 - i < MaxDepth
  <2> SUFFICES ASSUME NEW i \in k .. n PROVE stack[i].name # Line.name /\ n + 1 - i < MaxDepth
    OBVIOUS
  <2>1. i \in 1 .. (n + 1) - 1
    BY <1>7, <1>8
  <2>2. MayFollow(e[i], e[n + 1], (n + 1) - i)
    BY <1>5, <2>1 DEF IsPlace, IsChain
  <2> QED
    BY <1>6, <1>8, <2>2 DEF MayFollow
<1>10. CASE \E i \in n - Top.depth + 1 .. n : stack[i].name = Line.name
  BY <1>9, <1>10
<1>11. CASE Top.depth >= MaxDepth
  <2>1. k \in k .. n /\ n + 1 - k = Top.depth
    BY <1>7, <1>11
  <2>2. Top.depth < MaxDepth
    BY <1>9, <2>1
  <2> QED
    BY <1>7, <1>11, <2>2
<1> QED
  BY <1>10, <1>11 DEF Blocked

LEMMA OptionPassesNone ==
    ASSUME IInv, Traced, IInv', Traced', stack = <<>>, ~lost',
           LoadConfig \/ SetMain("v", "level") \/ SetMain("V", "file"),
           NEW P, IsPlace(P), NEW l, StatementIs(P, l), Passed(P)
    PROVE  FALSE
<1> DEFINE e == P.calls
           d == Spots(stack')
           g == Frame("config", options[optind].name, 1, 0, <<>>)
<1>1. /\ Here.option = optind - 1 /\ Here.calls = Spots(stack)
      /\ Here'.option = optind' - 1 /\ Here'.calls = d /\ d \in Seq(Spot) /\ optind \in Nat
  BY HereIs
<1>2. Begins(Spots(stack), e)
  <2>1. DOMAIN Spots(stack) = 1 .. 0 /\ Len(Spots(stack)) = 0
    BY StackIsAChain, EmptySeq
  <2>2. Len(e) \in Nat
    BY PlaceIsThere
  <2>3. \A j \in 1 .. 0 : FALSE
    OBVIOUS
  <2> QED
    BY <2>1, <2>2, <2>3 DEF Begins
<1>3. optind' = optind + 1
  BY DEF LoadConfig, SetMain, NextOption
<1>4. P.option = optind /\ CallsBehind(e, d)
  <2>1. P.option \in Nat
    BY PlaceIsThere
  <2>2. P.option < optind \/ (P.option = optind /\ CallsBehind(e, d))
    BY <1>1, <1>3 DEF Passed, Behind, CallsBehind
  <2>3. ~ (P.option < optind - 1) /\ P.option # optind - 1
    BY <1>1, <1>2 DEF Passed, Behind
  <2> QED
    BY <1>1, <2>1, <2>2, <2>3
<1>5. options[optind].op = "c"
  BY <1>4 DEF IsPlace, StatementIs
<1>6. LoadConfig
  BY <1>5 DEF SetMain, NextOption
<1>7. stack' = <<g>>
  <2>1. stack' = <<>> \/ stack' = <<g>>
    BY <1>6, LoadConfigIsTraced
  <2>2. stack' = Append(<<>>, Frame("config", options[optind].name, 1, NoSection, <<>>))
    BY <1>6 DEF LoadConfig, Call, Fail
  <2> HIDE DEF g
  <2> QED
    BY <2>1, <2>2
<1>8. Len(d) = 1 /\ DOMAIN d = 1 .. 1 /\ d[1].line = 0
  <2>1. Len(stack') = 1 /\ DOMAIN stack' = 1 .. 1 /\ stack'[1] = g
    <3> HIDE DEF g
    <3> QED
      BY <1>7
  <2>2. g.kind = "config" /\ g.line = 0
    BY DEF Frame
  <2>3. SpotOf(g).line = 0
    <3> HIDE DEF g
    <3> QED
      BY <2>2 DEF SpotOf
  <2>4. Len(d) = 1 /\ DOMAIN d = 1 .. 1
    <3>1. \A i \in DOMAIN stack' : FolderFits(stack'[i])
      BY DEF Traced, IsTraced, FrameTraced, FolderFits
    <3>2. stack' \in Seq(Activation)
      BY DEF IInv, Sound
    <3> QED
      BY <2>1, <3>1, <3>2, SpotsOfStack
  <2>5. d[1] = SpotOf(g)
    <3> HIDE DEF g
    <3> QED
      BY <2>1 DEF Spots
  <2> QED
    BY <2>3, <2>4, <2>5
<1>9. \A j \in DOMAIN e : e[j].line # 0 /\ e[j].line \in Nat
  <2>1. \A j \in DOMAIN e : e[j] \in Spot /\ IsReadable(e[j]) /\ IsThere(e[j])
    BY PlaceIsThere
  <2> QED
    BY <2>1, LinesFromOne DEF Spot
<1>10. DOMAIN e = 1 .. Len(e) /\ Len(e) \in Nat \ {0}
  BY PlaceIsThere
<1> HIDE DEF e, d
<1>11. ~ Earlier(e, d)
  BY <1>8, <1>9 DEF Earlier
<1>12. ~ Begins(d, e)
  BY <1>8, <1>9, <1>10 DEF Begins
<1> QED
  BY <1>4, <1>11, <1>12 DEF CallsBehind

\* A call makes the stack longer.
LEMMA LongerPassesNone ==
    ASSUME IInv, Traced, IInv', Traced', MovesOn, optind' = optind, Len(stack') = Len(stack) + 1,
           NEW P, IsPlace(P), NEW l, StatementIs(P, l), Passed(P)
    PROVE  FALSE
<1> DEFINE c == Spots(stack)
           d == Spots(stack')
<1>1. Len(c) = Len(stack) /\ Len(stack) \in Nat
  BY StackIsAChain
<1>2. Len(d) = Len(stack')
  <2>1. \A i \in DOMAIN stack' : FolderFits(stack'[i])
    BY DEF Traced, IsTraced, FrameTraced, FolderFits
  <2>2. stack' \in Seq(Activation)
    BY DEF IInv, Sound
  <2> QED
    BY <2>1, <2>2, SpotsOfStack
<1>3. Onward(c, d)
  <2>1. optind \in Nat
    BY HereIs
  <2> QED
    BY <2>1 DEF MovesOn
<1>4. ~ Begins(d, c) /\ ~ OneFurther(c, d)
  BY <1>1, <1>2 DEF Begins, OneFurther
<1>5. PICK b \in Seq(Spot), x \in Spot : OneFurther(c, b) /\ x.line = 0 /\ d = Append(b, x)
  BY <1>3, <1>4 DEF Onward
<1> QED
  BY <1>5, CallPassesNone

LEMMA CallIsLonger ==
    ASSUME IInv, NEW s \in Seq(Activation), Len(s) = Len(stack), NEW kind \in {"config", "rules"}, NEW name \in Name,
           NEW depth \in Nat, NEW section \in Nat, Call(kind, name, s, depth, section), ~lost'
    PROVE  Len(stack') = Len(stack) + 1
<1>1. stack' = Append(s, Frame(kind, name, depth, section, <<>>))
  BY DEF Call, Fail
<1> QED
  BY <1>1

LEMMA OnlyItsLinePasses ==
    ASSUME IInv, Written, Traced, Chained(stack), IInv', Traced', [Next]_vars, ~lost',
           NEW P, IsPlace(P), NEW l, StatementIs(P, l), l.op \notin DOMAIN CallOf, Passed(P)
    PROVE  /\ HasLine /\ P = Here' /\ l = Line /\ optind' = optind /\ OneFurther(Spots(stack), Spots(stack'))
           /\ Comment \/ Set \/ Service \/ Route \/ Section
<1>1. MovesOn /\ CallsAreWritten(stack, objects)
  BY StepIsTraced DEF Written
<1>2. ASSUME UNCHANGED <<stack, optind>> PROVE FALSE
  <2>1. Here' = Here
    BY <1>2 DEF Here, Spots
  <2> QED
    BY <2>1 DEF Passed
<1>3. CASE Comment \/ Set \/ Service \/ Route \/ Section
  <2>1. HasLine /\ optind' = optind /\ Line.op \notin DOMAIN CallOf
    BY <1>3 DEF Comment, Set, Service, Route, Section, InConfig, CallOf
  <2>2. OneFurther(Spots(stack), Spots(stack'))
    <3>1. CASE Section
      <4>1. Known(objects) /\ Keeps(objects, objects') /\ Sound(stack, Len(objects))
        BY NamesAreKept DEF IInv
      <4>2. IsTraced(stack, objects', optind)
        BY <4>1, TracedObjects DEF Traced
      <4> QED
        BY <3>1, <4>2, SectionIsTraced
    <3>2. CASE Comment \/ Set \/ Service \/ Route
      <4>1. stack' = Advanced
        BY <3>2 DEF Comment, Set, Service, Route
      <4> QED
        BY <2>1, <4>1, AdvancedIsTraced
    <3> QED
      BY <1>3, <3>1, <3>2
  <2>3. P = Here' /\ l = Line
    BY <2>1, <2>2, PlainLinePasses
  <2> QED
    BY <1>3, <2>1, <2>2, <2>3
<1>4. CASE EndOfFile
  <2>1. stack # <<>> /\ stack' = Callers /\ optind' = optind
    BY <1>4 DEF EndOfFile, Reading
  <2> QED
    BY <1>4, <2>1, ReturnPassesNone
<1>5. CASE Include
  <2>1. HasLine /\ optind' = optind /\ Line.op \in {"include", "routeFile"}
    BY <1>5 DEF Include
  <2>2. CASE Blocked(Line.name)
    <3>1. stack' = Advanced
      BY <1>5, <2>2 DEF Include
    <3> QED
      BY <1>5, <2>2, <3>1, BlockedPassesNone
  <2>3. CASE ~ Blocked(Line.name)
    <3>1. /\ stack # <<>> /\ Top.kind \in {"config", "rules"} /\ Top.depth + 1 \in Nat
          /\ (IF Top.kind = "config" THEN NoSection ELSE Top.section) \in Nat
      <4>1. stack # <<>> /\ Top.kind # "folder"
        BY <2>1 DEF HasLine, Reading
      <4>2. Top \in Activation
        BY <4>1, Running
      <4> QED
        BY <4>1, <4>2 DEF Activation, NoSection
    <3>2. Line.name \in Name
      BY <2>1, LineIsRead, Carried
    <3>3. Advanced \in Seq(Activation) /\ Len(Advanced) = Len(stack)
      BY <2>1, AdvancedIsTraced
    <3>4. Len(stack') = Len(stack) + 1
      BY <1>5, <2>3, <3>1, <3>2, <3>3, CallIsLonger DEF Include
    <3> QED
      BY <1>1, <2>1, <3>4, LongerPassesNone
  <2> QED
    BY <2>2, <2>3
<1>6. CASE RouteFile \/ RouteDir
  <2>1. HasLine /\ optind' = optind /\ Line.op \in {"routeFile", "routeDir"} /\ stack # <<>>
    BY <1>6 DEF RouteFile, RouteDir, InConfig, HasLine, Reading
  <2>2. Line.name \in Name /\ Top.section \in Nat
    BY <1>1, <2>1, LineIsRead, Carried, TopIsWritten
  <2>3. Advanced \in Seq(Activation) /\ Len(Advanced) = Len(stack)
    BY <2>1, AdvancedIsTraced
  <2>4. Len(stack') = Len(stack) + 1
    <3>1. CASE RouteFile
      BY <2>2, <2>3, <3>1, CallIsLonger DEF RouteFile
    <3>2. CASE RouteDir
      BY <2>3, <3>2 DEF RouteDir
    <3> QED
      BY <1>6, <3>1, <3>2
  <2> QED
    BY <1>1, <2>1, <2>4, LongerPassesNone
<1>7. CASE NextInFolder
  <2>1. stack # <<>> /\ Top.kind = "folder" /\ optind' = optind /\ Top \in Activation
    BY <1>7, Running DEF NextInFolder
  <2>2. CASE Top.todo = <<>>
    <3>1. stack' = Callers
      BY <1>7, <2>2 DEF NextInFolder
    <3> QED
      BY <2>1, <2>2, <3>1, ReturnPassesNone
  <2>3. CASE Top.todo # <<>>
    <3> DEFINE f == [Top EXCEPT !.todo = Tail(@)]
               s == [stack EXCEPT ![Len(stack)] = f]
    <3>1. Head(Top.todo) \in Name /\ Tail(Top.todo) \in Seq(Name) /\ Top.section \in Nat
      BY <2>1, <2>3, HeadTailProperties DEF Activation
    <3>3. f \in Activation
      BY <2>1, <3>1 DEF Activation
    <3>4. stack \in Seq(Activation) /\ Len(stack) \in 1 .. Len(stack)
      BY <2>1, EmptySeq, LenProperties DEF IInv, Sound
    <3>6. Call("rules", Head(Top.todo), s, 1, Top.section)
      BY <1>7, <2>3 DEF NextInFolder, Top
    <3> HIDE DEF f
    <3>5. s \in Seq(Activation) /\ Len(s) = Len(stack)
      BY <3>3, <3>4, ExceptSeq
    <3> HIDE DEF s
    <3>7. Len(stack') = Len(stack) + 1
      BY <3>1, <3>5, <3>6, CallIsLonger
    <3> QED
      BY <1>1, <2>1, <3>7, LongerPassesNone
  <2> QED
    BY <2>2, <2>3
<1>8. CASE LoadConfig \/ SetMain("v", "level") \/ SetMain("V", "file")
  <2>1. stack = <<>>
    BY <1>8 DEF LoadConfig, SetMain, NextOption, Between
  <2> QED
    BY <1>8, <2>1, OptionPassesNone
<1>9. ~ ParseFails /\ ~ NotUnderstood /\ ~ StartFails
  BY DEF ParseFails, NotUnderstood, StartFails, Exits, Fail
<1> QED
  BY <1>2, <1>3, <1>4, <1>5, <1>6, <1>7, <1>8, <1>9 DEF Next, vars, Serve

LEMMA OnlyRulesPass ==
    ASSUME IInv, Written, Traced, Chained(stack), IInv', Traced', [Next]_vars, ~lost',
           NEW P, IsPlace(P), NEW l, StatementIs(P, l), l.op \in {"route", "rule"}, Passed(P)
    PROVE  Route /\ P = Here' /\ l = Line
<1>1. l.op \notin DOMAIN CallOf
  BY DEF CallOf
<1>2. HasLine /\ P = Here' /\ l = Line /\ (Comment \/ Set \/ Service \/ Route \/ Section)
  BY <1>1, OnlyItsLinePasses
<1>3. ~ Comment /\ ~ Set /\ ~ Service /\ ~ Section
  BY <1>2 DEF Comment, Set, Service, Section, InConfig
<1> QED
  BY <1>2, <1>3

-----------------------------------------------------------------------------
\* The place of a rule that is read, and the proxy of a place.

LEMMA LineIsAPlace ==
    ASSUME IInv, AllPlaced, CallsAreWritten(stack, objects), Traced, HasLine
    PROVE  LET n == Len(stack)
               c == Spots(Advanced)
               P == [option |-> optind - 1, calls |-> c] IN
           /\ IsPlace(P) /\ Final(P) = c[n] /\ c # <<>>
           /\ c \in Seq(Spot) /\ Len(c) = n /\ DOMAIN c = 1 .. n /\ n \in Nat /\ n \in 1 .. n
           /\ c[n].kind = Top.kind /\ c[n].name = Top.name /\ c[n].line = After.line
           /\ Advanced[n] = After /\ After.section = Top.section
           /\ \A i \in 1 .. n : /\ c[i] = SpotOf(Advanced[i]) /\ c[i].kind = Advanced[i].kind
                              /\ FrameTraced(Advanced, i, objects, optind)
<1> DEFINE n == Len(stack)
           c == Spots(Advanced)
           P == [option |-> optind - 1, calls |-> c]
<1>1. stack # <<>> /\ Top.kind # "folder"
  BY DEF HasLine, Reading
<1>2. /\ IsTraced(Advanced, objects, optind) /\ Sound(Advanced, Len(objects)) /\ Advanced # <<>>
      /\ Advanced[Len(Advanced)] = After /\ Advanced \in Seq(Activation) /\ Len(Advanced) = n
      /\ After \in Activation /\ After.kind = Top.kind /\ After.name = Top.name
      /\ After.depth = Top.depth /\ After.section = Top.section
  BY AdvancedIsTraced
<1>3. /\ c \in Seq(Spot) /\ Len(c) = n /\ DOMAIN c = 1 .. n /\ n \in Nat /\ DOMAIN Advanced = 1 .. n
      /\ \A i \in 1 .. n :
             /\ c[i] = SpotOf(Advanced[i]) /\ Advanced[i] \in Activation
             /\ c[i].kind = Advanced[i].kind /\ c[i].name = Advanced[i].name
             /\ FrameTraced(Advanced, i, objects, optind)
  BY <1>2, TracedIsAChain
<1>4. n \in 1 .. n /\ Advanced[n] = After /\ c # <<>>
  BY <1>2, <1>3, EmptySeq
<1>5. IsPlace(P)
  <2>1. Moves(Advanced)
    <3>1. 0 \in Nat
      OBVIOUS
    <3> QED
      BY <1>1, <3>1, NextLine
  <2>2. ASSUME NEW i \in DOMAIN Advanced PROVE Placed(Advanced[i], i)
    <3>1. i = n \/ i \in 1 .. n - 1
      BY <1>3
    <3>2. DOMAIN stack = 1 .. n
      BY LenProperties DEF IInv, Sound
    <3>3. i \in 1 .. n - 1 => Advanced[i] = stack[i] /\ i \in DOMAIN stack
      BY <1>3, <2>1, <3>2 DEF Moves
    <3>4. Placed(Advanced[n], n)
      BY <2>1 DEF Moves, Moved
    <3> QED
      BY <3>1, <3>3, <3>4 DEF AllPlaced
  <2> QED
    BY <1>2, <2>2, TracedIsAPlace
<1>6. /\ Final(P) = c[n] /\ c[n] = SpotOf(After) /\ c[n].kind = Top.kind /\ c[n].name = Top.name
      /\ c[n].line = After.line
  <2>1. Final(P) = c[n] /\ c[n] = SpotOf(After) /\ c[n].kind = Top.kind /\ c[n].name = Top.name
    BY <1>2, <1>3, <1>4 DEF Final
  <2>2. FolderFits(After)
    BY <1>1, <1>2 DEF FolderFits
  <2>3. SpotOf(After).line = After.line
    BY <1>1, <1>2, <2>2, SpotIsOne
  <2> QED
    BY <2>1, <2>3
<1> QED
  BY <1>2, <1>3, <1>4, <1>5, <1>6

LEMMA RuleHasAPlace ==
    ASSUME IInv, AllPlaced, Written, Traced, Route
    PROVE  LET P == [option |-> optind - 1, calls |-> Spots(Advanced)] IN
           /\ P \in RulePlaces(objects[Top.section].name) /\ StatementIs(P, Line) /\ Line \in Statement
           /\ Final(P).name = Top.name /\ Final(P).line = After.line
<1> DEFINE n == Len(stack)
           c == Spots(Advanced)
           P == [option |-> optind - 1, calls |-> c]
           proxy == objects[Top.section].name
<1>1. /\ HasLine /\ SectionKind = "proxy" /\ Line.op = (IF Top.kind = "config" THEN "route" ELSE "rule")
      /\ CallsAreWritten(stack, objects) /\ stack # <<>> /\ Top.kind # "folder"
  BY DEF Route, Written, HasLine, Reading
<1>2. /\ IsPlace(P) /\ Final(P) = c[n] /\ c # <<>>
      /\ c \in Seq(Spot) /\ Len(c) = n /\ DOMAIN c = 1 .. n /\ n \in Nat /\ n \in 1 .. n
      /\ c[n].kind = Top.kind /\ c[n].name = Top.name /\ c[n].line = After.line
      /\ Advanced[n] = After /\ After.section = Top.section
      /\ \A i \in 1 .. n : /\ c[i] = SpotOf(Advanced[i]) /\ c[i].kind = Advanced[i].kind
                         /\ FrameTraced(Advanced, i, objects, optind)
  BY <1>1, LineIsAPlace
<1>7. FrameIsWritten(Top, objects) /\ Top.section \in Nat /\ objects[Top.section].kind = "proxy" /\ Top.section # 0
  <2>1. FrameIsWritten(Top, objects) /\ Top.section \in Nat
    BY <1>1, TopIsWritten
  <2>2. Top.section # 0 /\ objects[Top.section].kind = "proxy"
    <3>1. Top.section # 0
      BY <1>1, ConfigAssumption DEF SectionKind, Kinds
    <3> QED
      BY <1>1, <3>1 DEF SectionKind
  <2> QED
    BY <2>1, <2>2
<1>8. /\ Says(c[n], Line) /\ Line \in Statement
      /\ Top.kind = "config" => SaidIn(c[n], "proxy", proxy)
  BY <1>1, <1>2, <1>7, LineIsSaid
<1>9. StatementIs(P, Line)
  BY <1>1, <1>2, <1>8 DEF StatementIs
<1>10. InSectionOf(c, "proxy", proxy)
  <2> SUFFICES ASSUME NEW j \in 1 .. n, c[j].kind = "config", j < n => c[j + 1].kind # "config"
               PROVE  SaidIn(c[j], "proxy", proxy)
    BY <1>2 DEF InSectionOf
  <2>1. CASE j = n
    BY <1>2, <1>8, <2>1
  <2>2. CASE j # n
    <3>1. j < n /\ j \in 1 .. n - 1 /\ j + 1 \in 1 .. n /\ (j + 1 = n \/ j + 1 \in 1 .. n - 1)
      <4>1. n \in Nat
        BY <1>2
      <4> HIDE DEF n
      <4> QED
        BY <2>2, <4>1
    <3>2. /\ Encloses(Advanced, j, n, objects)
          /\ j + 1 \in 1 .. n - 1 => Encloses(Advanced, j + 1, n, objects)
      BY <1>2, <3>1 DEF FrameTraced
    <3>3. Advanced[j].kind = "config" /\ Advanced[j + 1].kind # "config"
      <4>1. c[j].kind = Advanced[j].kind /\ c[j + 1].kind = Advanced[j + 1].kind
        BY <1>2, <3>1
      <4> QED
        BY <3>1, <4>1
    <3>4. Advanced[n].kind # "config"
      BY <3>1, <3>2, <3>3 DEF Encloses
    <3>5. SaidIn(SpotOf(Advanced[j]), "proxy", objects[Advanced[n].section].name)
      BY <3>2, <3>3, <3>4 DEF Encloses
    <3> QED
      BY <1>2, <3>5
  <2> QED
    BY <2>1, <2>2
<1>11. P \in RulePlaces(proxy)
  <2>1. P \in Places /\ P.calls = c
    BY <1>2 DEF IsPlace
  <2>2. \E l \in Statement : StatementIs(P, l) /\ l.op = IF Final(P).kind = "config" THEN "route" ELSE "rule"
    BY <1>1, <1>2, <1>8, <1>9
  <2> HIDE DEF P
  <2> QED
    BY <1>2, <1>10, <2>1, <2>2 DEF RulePlaces
<1> QED
  BY <1>2, <1>8, <1>9, <1>11

LEMMA SaidInOne ==
    ASSUME IInv, NEW x, x.name \in DOMAIN disk, NEW kind, NEW name, NEW kind2, NEW name2,
           SaidIn(x, kind, name), SaidIn(x, kind2, name2)
    PROVE  kind = kind2 /\ name = name2
<1>1. PICK p \in Starts(x.name) : StatedAt(x, p) /\ InSection(x.name, p, kind, name)
  BY DEF SaidIn
<1>2. PICK q \in Starts(x.name) : StatedAt(x, q) /\ InSection(x.name, q, kind2, name2)
  BY DEF SaidIn
<1>3. LinesBefore(x.name, p) \in Nat /\ LinesBefore(x.name, q) \in Nat
  BY CountOfLines
<1>4. LinesBefore(x.name, p) = LinesBefore(x.name, q)
  BY <1>1, <1>2, <1>3 DEF StatedAt
<1>5. p = q
  BY <1>4, OneStart
<1> QED
  BY <1>1, <1>2, <1>5, SectionIsOne

LEMMA PlaceIsOfOne ==
    ASSUME IInv, NEW a, NEW b, NEW P \in RulePlaces(a), P \in RulePlaces(b)
    PROVE  a = b
<1> DEFINE e == P.calls
<1>1. /\ IsPlace(P) /\ InSectionOf(e, "proxy", a) /\ InSectionOf(e, "proxy", b)
      /\ \E l \in Statement : StatementIs(P, l)
  BY DEF RulePlaces
<1>2. /\ e \in Seq(Spot) /\ e # <<>> /\ DOMAIN e = 1 .. Len(e) /\ Len(e) \in Nat \ {0}
      /\ \A j \in DOMAIN e : IsReadable(e[j])
  BY <1>1, PlaceIsThere
<1>3. e[1].kind = "config"
  BY <1>1, <1>2 DEF IsPlace
<1>4. \E j \in DOMAIN e : e[j].kind = "config" /\ (j < Len(e) => e[j + 1].kind # "config")
  <2> DEFINE S == {k \in DOMAIN e : e[k].kind # "config"}
  <2>1. CASE S = {}
    <3>1. Len(e) \in DOMAIN e /\ ~ (Len(e) < Len(e)) /\ e[Len(e)].kind = "config"
      BY <1>2, <2>1
    <3> QED
      BY <3>1
  <2>2. CASE S # {}
    <3>1. S \in SUBSET Nat
      BY <1>2
    <3>2. PICK m \in S : \A k \in S : m <= k
      <4> HIDE DEF S
      <4> QED
        BY <2>2, <3>1, Minimum
    <3>3. m \in 1 .. Len(e) /\ m # 1
      BY <1>2, <1>3
    <3>4. m - 1 \in DOMAIN e /\ (m - 1) + 1 = m /\ ~ (m <= m - 1)
      BY <1>2, <3>3
    <3>5. e[m - 1].kind = "config" /\ e[(m - 1) + 1].kind # "config"
      BY <3>2, <3>4
    <3> QED
      BY <3>4, <3>5
  <2> QED
    BY <2>1, <2>2
<1>5. PICK j \in DOMAIN e : e[j].kind = "config" /\ (j < Len(e) => e[j + 1].kind # "config")
  BY <1>4
<1>6. SaidIn(e[j], "proxy", a) /\ SaidIn(e[j], "proxy", b) /\ e[j].name \in DOMAIN disk
  BY <1>1, <1>2, <1>5 DEF InSectionOf, IsReadable
<1> QED
  BY <1>6, SaidInOne

LEMMA SamePlaces ==
    ASSUME UNCHANGED <<disk, options>>
    PROVE  /\ \A proxy : RulePlaces(proxy)' = RulePlaces(proxy)
           /\ \A P, l : StatementIs(P, l)' <=> StatementIs(P, l)
           /\ \A x, l : Says(x, l)' <=> Says(x, l)
           /\ \A x, kind, name : SaidIn(x, kind, name)' <=> SaidIn(x, kind, name)
           /\ \A P : IsPlace(P)' <=> IsPlace(P)
<1>1. \A f : Terminators(f)' = Terminators(f) /\ Starts(f)' = Starts(f)
  BY DEF Terminators, SecondHalf, Starts
<1>2. \A f, p : LinesBefore(f, p)' = LinesBefore(f, p)
  BY <1>1 DEF LinesBefore
<1>3. \A x, p : StatedAt(x, p)' <=> StatedAt(x, p)
  BY <1>1, <1>2 DEF StatedAt
<1>4. /\ \A x, l : Says(x, l)' <=> Says(x, l)
      /\ \A f, p, kind, name : InSection(f, p, kind, name)' <=> InSection(f, p, kind, name)
  BY <1>1, <1>3 DEF Says, InSection
<1>5. \A x, kind, name : SaidIn(x, kind, name)' <=> SaidIn(x, kind, name)
  BY <1>1, <1>3, <1>4 DEF SaidIn
<1>6. /\ \A x, y : LeadsTo(x, y)' <=> LeadsTo(x, y)
      /\ \A x : IsReadable(x)' <=> IsReadable(x)
  BY <1>4 DEF LeadsTo, IsReadable
<1>7. \A c : IsChain(c)' <=> IsChain(c)
  BY <1>6 DEF IsChain
<1>8. \A P : IsPlace(P)' <=> IsPlace(P)
  BY <1>7 DEF IsPlace
<1>9. /\ \A c, kind, name : InSectionOf(c, kind, name)' <=> InSectionOf(c, kind, name)
      /\ \A P, l : StatementIs(P, l)' <=> StatementIs(P, l)
  BY <1>4, <1>5 DEF InSectionOf, StatementIs
<1>10. \A proxy : RulePlaces(proxy)' = RulePlaces(proxy)
  BY <1>8, <1>9 DEF RulePlaces
<1> QED
  BY <1>4, <1>5, <1>8, <1>9, <1>10

-----------------------------------------------------------------------------
\* The rules of an object stand for places, in their order.

AllBehind(ps, Q) == \A k \in 1 .. Len(ps) : Behind(ps[k], Q)
NoneLeftOut(o, ps, Q) ==
    o.kind = "proxy" => \A P \in RulePlaces(o.name) : Behind(P, Q) => \E k \in 1 .. Len(ps) : ps[k] = P
HasItsProxy(objs, Q) ==
    \A name \in Name : \A P \in RulePlaces(name) :
        Behind(P, Q) => \E i \in DOMAIN objs : objs[i].kind = "proxy" /\ objs[i].name = name
\* So far: up to the place Q, and of all rules if nothing has been lost.
InOrder(objs, Q, all) ==
    /\ \A i \in DOMAIN objs : \E ps \in Seq(Places) :
           StandAt(objs[i], ps, objs) /\ AllBehind(ps, Q) /\ (all => NoneLeftOut(objs[i], ps, Q))
    /\ all => HasItsProxy(objs, Q)
Ordered == InOrder(objects, Here, ~lost)

LEMMA ProxyIsOne ==
    IInv /\ Written =>
        \A i, j \in DOMAIN objects :
            objects[i].kind = "proxy" /\ objects[j].kind = "proxy" /\ objects[i].name = objects[j].name => i = j
<1> SUFFICES ASSUME IInv, Written, NEW i \in DOMAIN objects, NEW j \in DOMAIN objects,
                    objects[i].kind = "proxy", objects[j].kind = "proxy", objects[i].name = objects[j].name
             PROVE  i = j
  OBVIOUS
<1>1. DOMAIN objects = 1 .. Len(objects) /\ Len(objects) \in Nat /\ AllWritten(objects)
  BY LenProperties DEF IInv, Known, Written
<1>2. /\ objects[1].kind = "main" /\ objects[2].kind = "log" /\ objects[4].kind = "ssh"
      /\ objects[3].name = "default"
  BY <1>1 DEF AllWritten, Template, Kinds
<1>3. \A k \in DOMAIN objects : objects[k].kind = "proxy" => k = 3 \/ k \in Listed(objects)
  <2>1. \A k \in DOMAIN objects : k \in {1, 2, 3, 4} \/ k \in Listed(objects)
    BY <1>1 DEF Listed
  <2> QED
    BY <1>2, <2>1
<1>4. \A k \in Listed(objects) : objects[k].kind = "proxy" => objects[k].name # "default"
  BY <1>1 DEF AllWritten, NameIsWritten
<1>5. (i = 3 /\ j = 3) \/ (i \in Listed(objects) /\ j \in Listed(objects))
  BY <1>2, <1>3, <1>4
<1> QED
  BY <1>5 DEF IInv, Known, Unique

LEMMA ProxyStaysOne ==
    (IInv /\ Written)' =>
        (\A i, j \in DOMAIN objects :
            objects[i].kind = "proxy" /\ objects[j].kind = "proxy" /\ objects[i].name = objects[j].name => i = j)'
BY ProxyIsOne, PTL

LEMMA CreatedRules ==
    ASSUME Known(objects), NEW kind \in Kinds, NEW name \in Name
    PROVE  LET more == FindOrCreate(kind, name) IN
           /\ Len(more) \in Nat /\ DOMAIN more = 1 .. Len(more)
           /\ \A j \in DOMAIN objects : j \in DOMAIN more /\ more[j] = objects[j]
           /\ \A j \in DOMAIN more : j \in DOMAIN objects \/ more[j].rules = <<>>
<1>1. objects \in Seq(Object) /\ DOMAIN objects = 1 .. Len(objects) /\ Len(objects) \in Nat
  BY LenProperties DEF Known
<1>2. CASE Found(objects, kind, name) = {}
  <2> DEFINE o == FromTemplate(kind, name)
             t == Append(objects, o)
  <2>1. o \in Object /\ o.rules = <<>>
    BY NewObject
  <2> HIDE DEF o
  <2>2. t \in Seq(Object) /\ Len(t) = Len(objects) + 1 /\ (\A j \in 1 .. Len(objects) : t[j] = objects[j])
        /\ t[Len(objects) + 1] = o
    BY <1>1, <2>1, AppendProperties
  <2>3. DOMAIN t = 1 .. Len(objects) + 1
    BY <2>2, LenProperties
  <2>4. FindOrCreate(kind, name) = t
    BY <1>2 DEF FindOrCreate, o
  <2> HIDE DEF t
  <2> QED
    BY <1>1, <2>1, <2>2, <2>3, <2>4
<1>3. CASE Found(objects, kind, name) # {}
  BY <1>1, <1>3 DEF FindOrCreate
<1> QED
  BY <1>2, <1>3

SameRules(more) ==
    /\ \A i \in DOMAIN objects : i \in DOMAIN more /\ more[i].rules = objects[i].rules
    /\ \A i \in DOMAIN more : i \in DOMAIN objects \/ more[i].rules = <<>>

LEMMA SettingRules ==
    ASSUME IInv, NEW i \in DOMAIN objects, NEW field \in Fields, NEW value \in Name
    PROVE  SameRules(WithSetting(i, field, value))
<1> DEFINE base == IF field = "file" THEN FindOrCreate("log", value) ELSE objects
<1>1. /\ \A j \in DOMAIN objects : j \in DOMAIN base /\ base[j] = objects[j]
      /\ \A j \in DOMAIN base : j \in DOMAIN objects \/ base[j].rules = <<>>
  <2>1. Known(objects) /\ "log" \in Kinds
    BY DEF IInv, Kinds
  <2>2. /\ \A j \in DOMAIN objects : j \in DOMAIN FindOrCreate("log", value) /\ FindOrCreate("log", value)[j] = objects[j]
        /\ \A j \in DOMAIN FindOrCreate("log", value) :
               j \in DOMAIN objects \/ FindOrCreate("log", value)[j].rules = <<>>
    BY <2>1, CreatedRules
  <2> QED
    BY <2>2
<1>2. Known(objects) /\ objects[i] \in Object
  BY LenProperties DEF IInv, Known
<1>3. WithSetting(i, field, value) = [base EXCEPT ![i].set[field] = value]
  BY DEF WithSetting
<1> HIDE DEF base
<1>4. i \in DOMAIN base /\ base[i] = objects[i]
  BY <1>1
<1>5. base[i].rules = [base[i] EXCEPT !.set[field] = value].rules
  BY <1>2, <1>4 DEF Object
<1> QED
  BY <1>1, <1>3, <1>4, <1>5 DEF SameRules

\* Only a rule's line changes the rules of an object.
LEMMA RulesKept ==
    ASSUME IInv, [Next]_vars, ~ Route
    PROVE  SameRules(objects')
<1>0. Known(objects) /\ DOMAIN objects = 1 .. Len(objects)
  BY LenProperties DEF IInv, Known
<1>1. CASE UNCHANGED objects
  BY <1>1 DEF SameRules
<1>2. CASE Section
  <2>1. CASE Line.name = "default"
    BY <1>2, <2>1 DEF Section, SameRules
  <2>2. CASE Line.name # "default"
    <3>1. HasLine /\ Line.op = "section" /\ objects' = FindOrCreate(Line.kind, Line.name)
      BY <1>2, <2>2 DEF Section, InConfig
    <3>2. Line.kind \in Kinds /\ Line.name \in Name
      BY <3>1, LineIsRead, Carried
    <3>3. /\ \A j \in DOMAIN objects : j \in DOMAIN objects' /\ objects'[j] = objects[j]
          /\ \A j \in DOMAIN objects' : j \in DOMAIN objects \/ objects'[j].rules = <<>>
      BY <1>0, <3>1, <3>2, CreatedRules
    <3> QED
      BY <3>3 DEF SameRules
  <2> QED
    BY <2>1, <2>2
<1>3. CASE Set
  <2>1. HasLine /\ Line.op = "set" /\ objects' = WithSetting(Top.section, Line.field, Line.value)
        /\ Line.value # None
    BY <1>3 DEF Set, InConfig, CanSet
  <2>2. Line.field \in Fields /\ Line.value \in Name
    BY <2>1, LineIsRead, Carried
  <2>3. Top.section \in DOMAIN objects
    BY <1>3, <2>1, OpenSection DEF Set, CanSet
  <2> QED
    BY <2>1, <2>2, <2>3, SettingRules
<1>4. CASE \E op, field : field \in {"level", "file"} /\ SetMain(op, field)
  <2>1. PICK op, field : field \in {"level", "file"} /\ SetMain(op, field)
    BY <1>4
  <2>2. objects' = WithSetting(1, field, options[optind].name) /\ options[optind].name \in Name
    BY <2>1, OptionName DEF SetMain, NextOption, Template
  <2>3. 1 \in DOMAIN objects /\ field \in Fields
    BY <2>1, LenProperties DEF IInv, Known, Fields
  <2> QED
    BY <2>2, <2>3, SettingRules
<1>5. CASE Service
  <2> DEFINE i == Top.section
  <2>1. HasLine /\ SectionKind = "proxy"
        /\ objects' = [objects EXCEPT ![i].services = <<Line.host>> \o objects[i].services]
    BY <1>5 DEF Service, InConfig
  <2>2. i \in DOMAIN objects
    BY <2>1, ProxySection
  <2> HIDE DEF i
  <2>3. objects[i] \in Object
    BY <1>0, <2>2, LenProperties DEF Known
  <2>4. [objects[i] EXCEPT !.services = <<Line.host>> \o objects[i].services].rules = objects[i].rules
    BY <2>3 DEF Object
  <2> QED
    BY <2>1, <2>2, <2>4 DEF SameRules
<1> QED
  BY <1>1, <1>2, <1>3, <1>4, <1>5 DEF Next, vars, ParseFails, EndOfFile, Comment, Include, RouteFile,
     RouteDir, NextInFolder, NotUnderstood, LoadConfig, Serve, StartFails

LEMMA StandsOn ==
    ASSUME NEW objs, Known(objs), NEW more, Keeps(objs, more), NEW i \in DOMAIN objs, NEW o,
           o.name = objs[i].name, o.rules = objs[i].rules, NEW ps \in Seq(Places), StandAt(objs[i], ps, objs)
    PROVE  StandAt(o, ps, more)
<1>1. DOMAIN objs = 1 .. Len(objs) /\ Len(objs) \in Nat /\ objs[i] \in Object
  BY LenProperties DEF Known
<1>2. DOMAIN objs[i].rules = 1 .. Len(objs[i].rules)
  BY <1>1, FieldsOfObject, LenProperties
<1>3. Len(ps) = Len(objs[i].rules)
  BY DEF StandAt
<1>4. ASSUME NEW k \in 1 .. Len(ps) PROVE RuleStandsAt(o.rules[k], ps[k], more)
  <2>1. k \in DOMAIN objs[i].rules /\ o.rules[k] = objs[i].rules[k]
    BY <1>2, <1>3
  <2> DEFINE r == objs[i].rules[k]
  <2>2. LeadTo(r.via, objs)
    BY <2>1 DEF Known, Leads
  <2>3. RuleStandsAt(r, ps[k], objs)
    BY DEF StandAt
  <2> HIDE DEF r
  <2>4. PICK l \in Statement : /\ StatementIs(ps[k], l) /\ DOMAIN r.via = Held(l.via)
                               /\ \A t \in Held(l.via) : objs[r.via[t]].name = l.via[t]
    BY <2>3 DEF RuleStandsAt
  <2>5. \A t \in Held(l.via) : more[r.via[t]].name = l.via[t]
    <3>1. \A t \in DOMAIN r.via : r.via[t] \in DOMAIN objs
      BY <1>1, <2>2 DEF LeadTo, Listed
    <3> QED
      BY <2>4, <3>1 DEF Keeps
  <2>6. RuleStandsAt(r, ps[k], more)
    BY <2>3, <2>4, <2>5 DEF RuleStandsAt
  <2> QED
    BY <2>1, <2>6 DEF r
<1> QED
  BY <1>3, <1>4 DEF StandAt

\* Where the rules stand after a step.
AllIs == IInv /\ Written /\ Traced /\ AllPlaced /\ Chained(stack)

LEMMA NonePassed ==
    ASSUME AllIs, AllIs', [Next]_vars, ~ Route, ~lost', NEW name, NEW P \in RulePlaces(name), Behind(P, Here')
    PROVE  Behind(P, Here)
<1>1. /\ IsPlace(P)
      /\ \E l \in Statement : StatementIs(P, l) /\ l.op \in {"route", "rule"}
  BY DEF RulePlaces
<1> QED
  BY <1>1, OnlyRulesPass DEF AllIs, Passed

LEMMA StaysBehind ==
    ASSUME AllIs, AllIs', [Next]_vars, NEW ps \in Seq(Places), AllBehind(ps, Here)
    PROVE  AllBehind(ps, Here')
<1>1. MovesOn
  BY StepIsTraced DEF AllIs
<1>2. \A k \in 1 .. Len(ps) : ps[k] \in Places
  BY ElementOfSeq
<1> QED
  BY <1>1, <1>2, BehindStays DEF AllIs, AllBehind

LEMMA NothingUnsaid == [Next]_vars /\ ~lost' => ~lost
BY DEF Next, vars, ParseFails, EndOfFile, Comment, Include, Section, Set, Service, Route, RouteFile,
   RouteDir, NextInFolder, NotUnderstood, LoadConfig, SetMain, Serve, StartFails, Exits, Call, Fail

LEMMA OtherKeepsOrder ==
    ASSUME AllIs, AllIs', [Next]_vars, ~ Route, Ordered
    PROVE  InOrder(objects', Here', ~lost')
<1>1. /\ IInv /\ IInv' /\ Known(objects) /\ Known(objects') /\ Keeps(objects, objects')
      /\ DOMAIN objects \subseteq DOMAIN objects'
  BY NamesAreKept DEF AllIs, IInv
<1>2. SameRules(objects')
  BY <1>1, RulesKept
<1>3. \A i \in DOMAIN objects : objects'[i].kind = objects[i].kind /\ objects'[i].name = objects[i].name
  BY <1>1 DEF Keeps
<1>4. ~lost' => HasItsProxy(objects', Here')
  <2> SUFFICES ASSUME ~lost', NEW name \in Name, NEW P \in RulePlaces(name), Behind(P, Here')
               PROVE  \E i \in DOMAIN objects' : objects'[i].kind = "proxy" /\ objects'[i].name = name
    BY DEF HasItsProxy
  <2>1. Behind(P, Here) /\ HasItsProxy(objects, Here)
    BY NonePassed, NothingUnsaid DEF Ordered, InOrder
  <2>2. PICK i \in DOMAIN objects : objects[i].kind = "proxy" /\ objects[i].name = name
    BY <2>1 DEF HasItsProxy
  <2> QED
    BY <1>1, <1>3, <2>2
<1>5. ASSUME NEW i \in DOMAIN objects
      PROVE  \E ps \in Seq(Places) :
                 /\ StandAt(objects'[i], ps, objects') /\ AllBehind(ps, Here')
                 /\ ~lost' => NoneLeftOut(objects'[i], ps, Here')
  <2>1. PICK ps \in Seq(Places) :
            StandAt(objects[i], ps, objects) /\ AllBehind(ps, Here) /\ (~lost => NoneLeftOut(objects[i], ps, Here))
    BY DEF Ordered, InOrder
  <2>2. objects'[i].rules = objects[i].rules /\ objects'[i].name = objects[i].name
        /\ objects'[i].kind = objects[i].kind
    BY <1>2, <1>3 DEF SameRules
  <2>3. StandAt(objects'[i], ps, objects')
    BY <1>1, <2>1, <2>2, StandsOn
  <2>4. AllBehind(ps, Here')
    BY <2>1, StaysBehind
  <2>5. ~lost' => NoneLeftOut(objects'[i], ps, Here')
    BY <2>1, <2>2, NonePassed, NothingUnsaid DEF NoneLeftOut
  <2> QED
    BY <2>3, <2>4, <2>5
<1>6. ASSUME NEW i \in DOMAIN objects', i \notin DOMAIN objects
      PROVE  \E ps \in Seq(Places) :
                 /\ StandAt(objects'[i], ps, objects') /\ AllBehind(ps, Here')
                 /\ ~lost' => NoneLeftOut(objects'[i], ps, Here')
  <2>1. objects'[i].rules = <<>> /\ objects'[i].name \in Name
    <3>1. objects'[i] \in Object
      <4>1. DOMAIN objects' = 1 .. Len(objects')
        BY <1>1, LenProperties DEF Known
      <4> QED
        BY <1>1, <4>1, ElementOfSeq DEF Known
    <3> QED
      BY <1>2, <1>6, <3>1, FieldsOfObject DEF SameRules
  <2>2. <<>> \in Seq(Places) /\ Len(<<>>) = 0 /\ \A k \in 1 .. 0 : FALSE
    BY EmptySeq
  <2>3. StandAt(objects'[i], <<>>, objects') /\ AllBehind(<<>>, Here')
    BY <2>1, <2>2 DEF StandAt, AllBehind
  <2>4. ASSUME ~lost', objects'[i].kind = "proxy", NEW P \in RulePlaces(objects'[i].name), Behind(P, Here')
        PROVE  FALSE
    <3>1. Behind(P, Here) /\ HasItsProxy(objects, Here)
      BY <2>4, NonePassed, NothingUnsaid DEF Ordered, InOrder
    <3>2. PICK j \in DOMAIN objects : objects[j].kind = "proxy" /\ objects[j].name = objects'[i].name
      BY <2>1, <3>1 DEF HasItsProxy
    <3>3. j \in DOMAIN objects' /\ objects'[j].kind = "proxy" /\ objects'[j].name = objects'[i].name
      BY <1>1, <1>3, <3>2
    <3>4. i = j
      BY <2>4, <3>3, ProxyStaysOne DEF AllIs
    <3> QED
      BY <1>6, <3>2, <3>4
  <2> QED
    BY <2>2, <2>3, <2>4 DEF NoneLeftOut
<1> QED
  BY <1>4, <1>5, <1>6 DEF InOrder

\* The last place of a sequence of places.
LEMMA OneMorePlace ==
    ASSUME NEW ps \in Seq(Places), NEW P \in Places
    PROVE  /\ Append(ps, P) \in Seq(Places) /\ Len(Append(ps, P)) = Len(ps) + 1 /\ Len(ps) \in Nat
           /\ \A k \in 1 .. Len(ps) : Append(ps, P)[k] = ps[k]
           /\ Append(ps, P)[Len(ps) + 1] = P
BY AppendProperties, LenProperties

LEMMA StandsLast ==
    ASSUME NEW o, NEW r, NEW S, o.rules \in Seq(S), r \in S, NEW more, more.name = o.name,
           more.rules = Append(o.rules, r), NEW objs,
           NEW ps \in Seq(Places), StandAt(o, ps, objs), NEW P \in Places, P \in RulePlaces(o.name),
           RuleStandsAt(r, P, objs), \A k \in 1 .. Len(ps) : Before(ps[k], P)
    PROVE  StandAt(more, Append(ps, P), objs)
<1> DEFINE qs == Append(ps, P)
           n == Len(ps)
<1>1. /\ qs \in Seq(Places) /\ Len(qs) = n + 1 /\ n \in Nat /\ (\A k \in 1 .. n : qs[k] = ps[k]) /\ qs[n + 1] = P
  BY OneMorePlace
<1>2. /\ Len(o.rules) = n /\ Len(more.rules) = n + 1
      /\ (\A k \in 1 .. n : more.rules[k] = o.rules[k]) /\ more.rules[n + 1] = r
  <2>1. Len(o.rules) = n
    BY DEF StandAt
  <2>2. /\ Len(more.rules) = Len(o.rules) + 1
        /\ (\A k \in 1 .. Len(o.rules) : more.rules[k] = o.rules[k]) /\ more.rules[Len(o.rules) + 1] = r
    BY AppendProperties
  <2> QED
    BY <2>1, <2>2
<1>3. /\ \A k \in 1 .. n : ps[k] \in RulePlaces(o.name) /\ RuleStandsAt(o.rules[k], ps[k], objs)
      /\ \A k \in 1 .. n : \A j \in 1 .. k - 1 : Before(ps[j], ps[k])
  BY DEF StandAt
<1> HIDE DEF qs, n
<1>4. \A k \in 1 .. n + 1 : k = n + 1 \/ k \in 1 .. n
  BY <1>1
<1>5. \A k \in 1 .. n + 1 : qs[k] \in RulePlaces(more.name) /\ RuleStandsAt(more.rules[k], qs[k], objs)
  BY <1>1, <1>2, <1>3, <1>4
<1>6. ASSUME NEW k \in 1 .. n + 1, NEW j \in 1 .. k - 1
      PROVE  Before(qs[j], qs[k])
  <2>1. j \in 1 .. n
    BY <1>1
  <2>2. CASE k = n + 1
    BY <1>1, <2>1, <2>2 DEF n
  <2>3. CASE k \in 1 .. n
    BY <1>1, <1>3, <2>1, <2>3
  <2> QED
    BY <1>4, <2>2, <2>3
<1>7. StandAt(more, qs, objs)
  BY <1>1, <1>2, <1>5, <1>6 DEF StandAt
<1> QED
  BY <1>7 DEF qs

LEMMA HereIsBehind == \A Q : Q.calls \in Seq(Spot) => Behind(Q, Q)
<1> SUFFICES ASSUME NEW Q, Q.calls \in Seq(Spot) PROVE Behind(Q, Q)
  OBVIOUS
<1>1. Len(Q.calls) \in Nat
  BY LenProperties
<1> QED
  BY <1>1 DEF Behind, Begins

LEMMA RuleStandsHere ==
    ASSUME AllIs, AllIs', Route
    PROVE  \E i \in DOMAIN objects, o \in Object, r \in [file : Name, line : Nat, via : Seq(Nat)] :
               /\ objects[i].kind = "proxy" /\ o.kind = "proxy" /\ o.name = objects[i].name
               /\ o.rules = Append(objects[i].rules, r) /\ objects' = [objects EXCEPT ![i] = o]
               /\ Here' \in RulePlaces(objects[i].name) /\ RuleStandsAt(r, Here', objects)
<1>1. PICK i \in DOMAIN objects, r \in [file : Name, line : Nat, via : Seq(Nat)], o \in Object :
          /\ HasLine /\ i = Top.section /\ objects[i].kind = "proxy"
          /\ r.file = Top.name /\ r.line = After.line /\ r.via = Tunnels(Line.via) /\ LeadTo(r.via, objects)
          /\ o.kind = objects[i].kind /\ o.name = objects[i].name /\ o.set = objects[i].set
          /\ o.services = objects[i].services /\ o.rules = Append(objects[i].rules, r)
          /\ Leads(o, objects) /\ objects' = [objects EXCEPT ![i] = o]
  BY RouteAdds DEF AllIs
<1> DEFINE P == [option |-> optind - 1, calls |-> Spots(Advanced)]
<1>2. /\ P \in RulePlaces(objects[Top.section].name) /\ StatementIs(P, Line) /\ Line \in Statement
      /\ Final(P).name = Top.name /\ Final(P).line = After.line
  BY RuleHasAPlace DEF AllIs
<1>3. Here' = P
  BY DEF Here, Spots, Route
<1> HIDE DEF P
<1>4. Line.op \in {"route", "rule"} /\ AllDefined(Line.via) /\ Line.via \in Seq(Name)
  BY <1>2, Carried DEF Route
<1>5. DOMAIN r.via = Held(Line.via)
  BY <1>1 DEF Tunnels
<1>6. ASSUME NEW t \in Held(Line.via)
      PROVE  objects[r.via[t]].name = Line.via[t]
  <2>1. Held(Line.via) \subseteq DOMAIN Line.via
    BY <1>4, LenProperties, ConfigAssumption DEF Held
  <2>2. r.via[t] = Search(objects, "ssh", Line.via[t])
    BY <1>1 DEF Tunnels
  <2>3. Found(objects, "ssh", Line.via[t]) # {}
    BY <1>4, <2>1 DEF AllDefined
  <2>4. Search(objects, "ssh", Line.via[t]) \in Found(objects, "ssh", Line.via[t])
    BY <2>3 DEF Search
  <2> QED
    BY <2>2, <2>4 DEF Found
<1>7. RuleStandsAt(r, P, objects)
  BY <1>1, <1>2, <1>5, <1>6 DEF RuleStandsAt
<1> QED
  BY <1>1, <1>2, <1>3, <1>7

LEMMA RouteKeepsOrder ==
    ASSUME AllIs, AllIs', [Next]_vars, Route, Ordered
    PROVE  InOrder(objects', Here', ~lost')
<1>0. /\ IInv /\ IInv' /\ Written /\ Traced /\ Traced' /\ Known(objects) /\ Known(objects') /\ Keeps(objects, objects')
      /\ DOMAIN objects \subseteq DOMAIN objects'
  BY NamesAreKept DEF AllIs, IInv
<1>1. PICK i \in DOMAIN objects, o \in Object, r \in [file : Name, line : Nat, via : Seq(Nat)] :
          /\ objects[i].kind = "proxy" /\ o.kind = "proxy" /\ o.name = objects[i].name
          /\ o.rules = Append(objects[i].rules, r) /\ objects' = [objects EXCEPT ![i] = o]
          /\ Here' \in RulePlaces(objects[i].name) /\ RuleStandsAt(r, Here', objects)
  BY RuleStandsHere
<1> DEFINE Q == Here'
<1>2. /\ Q \in Places /\ Q.calls \in Seq(Spot) /\ optind' = optind
      /\ OneFurther(Spots(stack), Spots(stack'))
  <2>1. Q.calls \in Seq(Spot)
    BY <1>0, HereIs
  <2>2. Q \in Places
    BY <1>1 DEF RulePlaces
  <2>3. HasLine /\ optind' = optind /\ stack' = Advanced
    BY DEF Route
  <2> QED
    BY <1>0, <2>1, <2>2, <2>3, AdvancedIsTraced
<1>3. DOMAIN objects' = DOMAIN objects /\ objects'[i] = o /\ \A j \in DOMAIN objects : j # i => objects'[j] = objects[j]
  BY <1>1
<1>4. ASSUME ~lost', NEW name, NEW P \in RulePlaces(name), Behind(P, Q), ~ Behind(P, Here)
      PROVE  P = Q /\ name = objects[i].name
  <2>1. /\ IsPlace(P)
        /\ \E l \in Statement : StatementIs(P, l) /\ l.op \in {"route", "rule"}
    BY <1>4 DEF RulePlaces
  <2>2. P = Q
    BY <1>4, <2>1, OnlyRulesPass DEF AllIs, Passed
  <2> QED
    BY <1>0, <1>1, <1>4, <2>2, PlaceIsOfOne
<1> HIDE DEF Q
<1>5. ~lost' => HasItsProxy(objects', Q)
  <2> SUFFICES ASSUME ~lost', NEW name \in Name, NEW P \in RulePlaces(name), Behind(P, Q)
               PROVE  \E j \in DOMAIN objects' : objects'[j].kind = "proxy" /\ objects'[j].name = name
    BY DEF HasItsProxy
  <2>1. CASE Behind(P, Here)
    <3>1. HasItsProxy(objects, Here)
      BY NothingUnsaid DEF Ordered, InOrder
    <3>2. PICK j \in DOMAIN objects : objects[j].kind = "proxy" /\ objects[j].name = name
      BY <2>1, <3>1 DEF HasItsProxy
    <3> QED
      BY <1>0, <3>2 DEF Keeps
  <2>2. CASE ~ Behind(P, Here)
    BY <1>1, <1>3, <1>4, <2>2
  <2> QED
    BY <2>1, <2>2
<1>6. ASSUME NEW j \in DOMAIN objects, j # i
      PROVE  \E ps \in Seq(Places) :
                 /\ StandAt(objects'[j], ps, objects') /\ AllBehind(ps, Q)
                 /\ ~lost' => NoneLeftOut(objects'[j], ps, Q)
  <2>1. PICK ps \in Seq(Places) :
            StandAt(objects[j], ps, objects) /\ AllBehind(ps, Here) /\ (~lost => NoneLeftOut(objects[j], ps, Here))
    BY DEF Ordered, InOrder
  <2>2. objects'[j] = objects[j]
    BY <1>3, <1>6
  <2>3. StandAt(objects'[j], ps, objects')
    BY <1>0, <2>1, <2>2, StandsOn
  <2>4. AllBehind(ps, Q)
    BY <2>1, StaysBehind DEF Q
  <2>5. ASSUME ~lost', objects[j].kind = "proxy", NEW P \in RulePlaces(objects[j].name), Behind(P, Q)
        PROVE  \E k \in 1 .. Len(ps) : ps[k] = P
    <3>1. Behind(P, Here)
      <4> SUFFICES ASSUME ~ Behind(P, Here) PROVE FALSE
        OBVIOUS
      <4>1. objects[j].name = objects[i].name
        BY <1>4, <2>5
      <4> QED
        BY <1>0, <1>1, <1>6, <2>5, <4>1, ProxyIsOne
    <3> QED
      BY <2>1, <2>5, <3>1, NothingUnsaid DEF NoneLeftOut
  <2> QED
    BY <2>2, <2>3, <2>4, <2>5 DEF NoneLeftOut
<1>7. \E ps \in Seq(Places) :
          StandAt(o, ps, objects') /\ AllBehind(ps, Q) /\ (~lost' => NoneLeftOut(o, ps, Q))
  <2>1. PICK ps \in Seq(Places) :
            StandAt(objects[i], ps, objects) /\ AllBehind(ps, Here) /\ (~lost => NoneLeftOut(objects[i], ps, Here))
    BY DEF Ordered, InOrder
  <2> DEFINE qs == Append(ps, Q)
             n == Len(ps)
  <2>2. /\ qs \in Seq(Places) /\ Len(qs) = n + 1 /\ n \in Nat /\ (\A k \in 1 .. n : qs[k] = ps[k]) /\ qs[n + 1] = Q
        /\ \A k \in 1 .. n : ps[k] \in Places
    BY <1>2, OneMorePlace, ElementOfSeq
  <2>3. \A k \in 1 .. n : Before(ps[k], Q)
    BY <1>0, <1>2, <2>1, <2>2, BehindIsBefore DEF AllBehind, Q
  <2>4. objects[i].rules \in Seq([file : Name, line : Nat, via : Seq(Nat)])
    <3>1. objects[i] \in Object
      BY <1>0, LenProperties DEF Known
    <3> QED
      BY <3>1, FieldsOfObject
  <2>5. StandAt(o, qs, objects)
    BY <1>1, <1>2, <2>1, <2>3, <2>4, StandsLast DEF Q
  <2>6. StandAt(o, qs, objects')
    <3> DEFINE more == [objects EXCEPT ![i] = o]
    <3>1. \A j \in DOMAIN objects : more[j].name = objects[j].name
      BY <1>1
    <3>2. Leads(o, objects')
      <4>1. i \in DOMAIN objects' /\ objects'[i] = o
        BY <1>3
      <4> QED
        BY <1>0, <4>1 DEF Known
    <3>3. \A k \in 1 .. Len(qs) : RuleStandsAt(o.rules[k], qs[k], objects')
      <4> SUFFICES ASSUME NEW k \in 1 .. Len(qs) PROVE RuleStandsAt(o.rules[k], qs[k], objects')
        OBVIOUS
      <4>1. RuleStandsAt(o.rules[k], qs[k], objects) /\ Len(qs) = Len(o.rules)
        BY <2>5 DEF StandAt
      <4>2. DOMAIN o.rules = 1 .. Len(o.rules)
        BY FieldsOfObject, LenProperties
      <4>3. LeadTo(o.rules[k].via, objects')
        BY <3>2, <4>1, <4>2 DEF Leads
      <4>4. \A t \in DOMAIN o.rules[k].via : o.rules[k].via[t] \in DOMAIN objects
        <5>1. DOMAIN objects' = 1 .. Len(objects') /\ Len(objects') \in Nat
          BY <1>0, LenProperties DEF Known
        <5> QED
          BY <1>3, <4>3, <5>1 DEF LeadTo, Listed
      <4>5. \A j \in DOMAIN objects : objects'[j].name = objects[j].name
        BY <1>1, <1>3
      <4> QED
        BY <4>1, <4>4, <4>5 DEF RuleStandsAt
    <3> QED
      BY <2>5, <3>3 DEF StandAt
  <2>7. AllBehind(qs, Q)
    <3>1. \A k \in 1 .. n + 1 : k = n + 1 \/ k \in 1 .. n
      BY <2>2
    <3>2. Behind(Q, Q)
      BY <1>2, HereIsBehind
    <3>3. AllBehind(ps, Q)
      BY <2>1, StaysBehind DEF Q
    <3> HIDE DEF qs
    <3> QED
      BY <2>2, <3>1, <3>2, <3>3 DEF AllBehind
  <2>8. ASSUME ~lost', NEW P \in RulePlaces(o.name), Behind(P, Q)
        PROVE  \E k \in 1 .. Len(qs) : qs[k] = P
    <3>1. CASE Behind(P, Here)
      <4>1. PICK k \in 1 .. n : ps[k] = P
        BY <1>1, <2>1, <2>8, <3>1, NothingUnsaid DEF NoneLeftOut
      <4>2. k \in 1 .. Len(qs) /\ qs[k] = P
        BY <2>2, <4>1
      <4> QED
        BY <4>2
    <3>2. CASE ~ Behind(P, Here)
      <4>1. P = Q
        BY <1>4, <2>8, <3>2
      <4>2. n + 1 \in 1 .. Len(qs)
        <5> HIDE DEF qs, n
        <5> QED
          BY <2>2
      <4> QED
        BY <2>2, <4>1, <4>2
    <3> QED
      BY <3>1, <3>2
  <2> QED
    BY <2>2, <2>6, <2>7, <2>8 DEF NoneLeftOut
<1>8. InOrder(objects', Q, ~lost')
  BY <1>3, <1>5, <1>6, <1>7 DEF InOrder
<1> QED
  BY <1>8 DEF Q

LEMMA SameOrder ==
    ASSUME UNCHANGED <<disk, options>>, InOrder(objects', Here', ~lost')
    PROVE  Ordered'
<1>1. /\ \A proxy : RulePlaces(proxy)' = RulePlaces(proxy)
      /\ \A P, l : StatementIs(P, l)' <=> StatementIs(P, l)
  BY SamePlaces
<1>2. \A r, P, objs : RuleStandsAt(r, P, objs)' <=> RuleStandsAt(r, P, objs)
  BY <1>1 DEF RuleStandsAt
<1>3. \A o, ps, objs : StandAt(o, ps, objs)' <=> StandAt(o, ps, objs)
  BY <1>1, <1>2 DEF StandAt
<1>4. /\ \A o, ps, Q : NoneLeftOut(o, ps, Q)' <=> NoneLeftOut(o, ps, Q)
      /\ \A objs, Q : HasItsProxy(objs, Q)' <=> HasItsProxy(objs, Q)
  BY <1>1 DEF NoneLeftOut, HasItsProxy
<1>5. \A objs, Q, all : InOrder(objs, Q, all)' <=> InOrder(objs, Q, all)
  BY <1>3, <1>4 DEF InOrder
<1> QED
  BY <1>5 DEF Ordered

LEMMA StepKeepsOrder == AllIs /\ AllIs' /\ Ordered /\ [Next]_vars => Ordered'
<1> SUFFICES ASSUME AllIs, AllIs', Ordered, [Next]_vars PROVE Ordered'
  OBVIOUS
<1>1. InOrder(objects', Here', ~lost')
  BY OtherKeepsOrder, RouteKeepsOrder
<1> QED
  BY <1>1, SameTables, SameOrder

LEMMA InitIsOrdered == Init => Ordered
<1> SUFFICES ASSUME Init PROVE Ordered
  OBVIOUS
<1>1. /\ objects \in Seq(Object) /\ DOMAIN objects = 1 .. 7
      /\ \A i \in 1 .. 4 : objects[i] = Fresh(Templates[i], "default")
      /\ \A i \in 5 .. 7 : objects[i] = Fresh("ssh", Predefined[i - 4])
  BY ObjectsAtStart
<1>2. \A i \in DOMAIN objects : objects[i].rules = <<>>
  <2>1. \A i \in 1 .. 7 : i \in 1 .. 4 \/ i \in 5 .. 7
    OBVIOUS
  <2> QED
    BY <1>1, <2>1 DEF Fresh
<1>3. ASSUME NEW name, NEW P \in RulePlaces(name), Behind(P, Here) PROVE FALSE
  <2>1. P.option \in DOMAIN options /\ DOMAIN options = 1 .. Len(options)
    BY LenProperties, ConfigAssumption DEF RulePlaces, IsPlace, Init
  <2>2. Here.option = 0
    BY DEF Here, Init
  <2>3. Len(options) \in Nat
    BY LenProperties, ConfigAssumption DEF Init
  <2>4. \A n \in Nat : \A k \in 1 .. n : ~ (k < 0) /\ k # 0
    OBVIOUS
  <2>5. ~ (P.option < 0) /\ P.option # 0
    <3> HIDE <1>3
    <3> QED
      BY <2>1, <2>3, <2>4
  <2> QED
    BY <1>3, <2>2, <2>5 DEF Behind
<1>4. <<>> \in Seq(Places) /\ Len(<<>>) = 0 /\ \A k \in 1 .. 0 : FALSE
  BY EmptySeq
<1>5. \A i \in DOMAIN objects : /\ StandAt(objects[i], <<>>, objects) /\ AllBehind(<<>>, Here)
                                /\ NoneLeftOut(objects[i], <<>>, Here)
  BY <1>2, <1>3, <1>4 DEF StandAt, AllBehind, NoneLeftOut
<1> QED
  BY <1>3, <1>4, <1>5 DEF Ordered, InOrder, HasItsProxy

-----------------------------------------------------------------------------
(***************************************************************************)
(* The numbers a reader of the log and of the status page is given: every  *)
(* call on the stack has counted the lines that end before its position,   *)
(* whichever of "\n", "\r", "\r\n" and "\n\r" the file ends them with      *)
(* (read_line, config_file.c), and the line it stands at has called the    *)
(* next one, the first having been called by the option before optind.     *)
(***************************************************************************)
THEOREM LinesAreNumbered == Spec => []Traced
<1>1. Init => Traced
  BY InitIsTraced
<1>2. IInv /\ IInv' /\ Written /\ Traced /\ [Next]_vars => Traced'
  BY StepIsTraced
<1> QED
  BY <1>1, <1>2, Invariant, OnlyWhatIsWritten, PTL DEF Spec

LEMMA Chains == Spec => []Chained(stack)
<1>1. Thorough => Chained(stack)
  BY DEF Thorough
<1> QED
  BY <1>1, Thoroughness, PTL

LEMMA Order == Spec => []Ordered
<1>1. Spec => []AllIs
  <2>1. IInv /\ Written /\ Traced /\ AllPlaced /\ Chained(stack) => AllIs
    BY DEF AllIs
  <2> QED
    BY <2>1, Invariant, OnlyWhatIsWritten, LinesAreNumbered, Placement, Chains, PTL
<1> QED
  BY <1>1, InitIsOrdered, StepKeepsOrder, PTL DEF Spec

\* When the program serves, every place is behind it.
LEMMA AllIsBehind ==
    ASSUME IInv, Traced, at = "serving", stack = <<>>, optind > Len(options), NEW P \in Places, P.option \in DOMAIN options
    PROVE  Behind(P, Here)
<1>1. /\ Here.option = optind - 1 /\ Here.calls = Spots(stack) /\ optind \in Nat
  BY DEF Here, IInv, Tables
<1>2. P.option \in 1 .. Len(options) /\ Len(options) \in Nat /\ optind > Len(options)
  BY LenProperties, ConfigAssumption DEF IInv, Tables
<1>3. P.option < optind - 1 \/ P.option = optind - 1
  BY <1>1, <1>2
<1>4. Begins(Spots(stack), P.calls)
  <2>1. DOMAIN Spots(stack) = 1 .. 0 /\ Len(Spots(stack)) = 0
    <3>1. stack = <<>> /\ Len(stack) = 0
      BY EmptySeq
    <3> QED
      BY <3>1, StackIsAChain
  <2>2. Len(P.calls) \in Nat
    BY LenProperties DEF Places
  <2>3. \A j \in 1 .. 0 : FALSE
    OBVIOUS
  <2> QED
    BY <2>1, <2>2, <2>3 DEF Begins
<1> QED
  BY <1>1, <1>3, <1>4 DEF Behind

\* Of two places one comes before the other, and none before itself.
LEMMA OrderIsStrict == \A P \in Places : ~ Before(P, P)
<1> SUFFICES ASSUME NEW P \in Places, Before(P, P) PROVE FALSE
  OBVIOUS
<1>1. P.option \in Nat /\ P.calls \in Seq(Spot)
  BY DEF Places
<1>2. \A m \in DOMAIN P.calls : P.calls[m].line \in Nat
  <2> SUFFICES ASSUME NEW m \in DOMAIN P.calls PROVE P.calls[m].line \in Nat
    OBVIOUS
  <2>1. P.calls[m] \in Spot
    BY <1>1, LenProperties, ElementOfSeq
  <2> QED
    BY <2>1 DEF Spot
<1> QED
  BY <1>1, <1>2 DEF Before, Earlier

\* "lines in config files executed sequentially, in the order they appear": the
\* rules of a proxy are in the order of their lines, each of them once.
THEOREM RulesAreInOrder == Spec => []RulesAsWritten
<1>1. IInv /\ Traced /\ Thorough /\ Ordered /\ LossesAreTold => RulesAsWritten
  <2> SUFFICES ASSUME IInv, Traced, Thorough, Ordered, LossesAreTold PROVE RulesAsWritten
    OBVIOUS
  <2>1. at = "serving" => \A name : \A P \in RulePlaces(name) : Behind(P, Here)
    <3>1. \A name : \A P \in RulePlaces(name) : P \in Places /\ P.option \in DOMAIN options
      BY DEF RulePlaces, IsPlace
    <3> QED
      BY <3>1, AllIsBehind DEF Thorough
  <2>2. ASSUME NEW i \in DOMAIN objects
        PROVE  \E ps \in Seq(Places) :
                   /\ StandAt(objects[i], ps, objects)
                   /\ Serves /\ objects[i].kind = "proxy" =>
                          \A P \in RulePlaces(objects[i].name) : \E k \in 1 .. Len(ps) : ps[k] = P
    <3>1. PICK ps \in Seq(Places) :
              StandAt(objects[i], ps, objects) /\ (~lost => NoneLeftOut(objects[i], ps, Here))
      BY DEF Ordered, InOrder
    <3>2. Serves /\ objects[i].kind = "proxy" =>
              \A P \in RulePlaces(objects[i].name) : \E k \in 1 .. Len(ps) : ps[k] = P
      BY <2>1, <3>1, NothingIsLost DEF NoneLeftOut
    <3> QED
      BY <3>1, <3>2
  <2>3. Serves => \A name \in Name : RulePlaces(name) # {} =>
                      \E i \in DOMAIN objects : objects[i].kind = "proxy" /\ objects[i].name = name
    BY <2>1, NothingIsLost DEF Ordered, InOrder, HasItsProxy
  <2> QED
    BY <2>2, <2>3 DEF RulesAsWritten
<1> QED
  BY <1>1, Invariant, LinesAreNumbered, Thoroughness, Order, NothingIsLostQuietly, PTL

-----------------------------------------------------------------------------
\* The last of several lines that set the same value holds.

SettingsBehind(kind, name, field, Q) == {P \in SettingPlaces(kind, name, field) : Behind(P, Q)}
LastOfAll(S, Q) == Q \in S /\ \A P \in S : P = Q \/ Before(P, Q)
LastHolds(S, kind, name, field, objs) ==
    S # {} => \E i \in DOMAIN objs, Q \in S :
                  /\ IsCalled(i, kind, name, objs) /\ SetsAt(Q, kind, name, field, objs[i].set[field])
                  /\ LastOfAll(S, Q)
AllHold(objs, Q) ==
    \A kind \in Kinds, name \in Name, field \in Fields :
        LastHolds(SettingsBehind(kind, name, field, Q), kind, name, field, objs)
Overwritten == ~lost => AllHold(objects, Here)

LEMMA ObjectIsOne ==
    ASSUME IInv, Written, NEW kind \in Kinds, NEW name, NEW i \in DOMAIN objects, NEW j \in DOMAIN objects,
           IsCalled(i, kind, name, objects), IsCalled(j, kind, name, objects)
    PROVE  i = j
<1>1. DOMAIN objects = 1 .. Len(objects) /\ Len(objects) \in Nat /\ AllWritten(objects)
  BY LenProperties DEF IInv, Known, Written
<1>2. CASE name = "default"
  BY <1>2 DEF IsCalled
<1>3. CASE name # "default"
  <2>1. objects[1].name = "default" /\ objects[2].name = "default" /\ objects[3].name = "default"
        /\ objects[4].name = "default"
    BY <1>1 DEF AllWritten, Template, Kinds
  <2>2. \A k \in DOMAIN objects : k \in {1, 2, 3, 4} \/ k \in Listed(objects)
    BY <1>1 DEF Listed
  <2>3. i \in Listed(objects) /\ j \in Listed(objects)
    BY <1>3, <2>1, <2>2 DEF IsCalled
  <2> QED
    BY <2>3 DEF IInv, Known, Unique, IsCalled
<1> QED
  BY <1>2, <1>3

SameSettings(more, i, field, value) ==
    \A j \in DOMAIN objects : /\ j \in DOMAIN more
                              /\ \A f \in Fields : more[j].set[f] = IF j = i /\ f = field THEN value ELSE objects[j].set[f]

LEMMA SettingSets ==
    ASSUME IInv, NEW i \in DOMAIN objects, NEW field \in Fields, NEW value \in Name
    PROVE  SameSettings(WithSetting(i, field, value), i, field, value)
<1> DEFINE base == IF field = "file" THEN FindOrCreate("log", value) ELSE objects
<1>1. \A j \in DOMAIN objects : j \in DOMAIN base /\ base[j] = objects[j]
  <2>1. Known(objects) /\ "log" \in Kinds
    BY DEF IInv, Kinds
  <2>2. \A j \in DOMAIN objects : j \in DOMAIN FindOrCreate("log", value) /\ FindOrCreate("log", value)[j] = objects[j]
    BY <2>1, CreatedRules
  <2> QED
    BY <2>2
<1>2. \A j \in DOMAIN objects : objects[j] \in Object
  BY LenProperties, ElementOfSeq DEF IInv, Known
<1>3. WithSetting(i, field, value) = [base EXCEPT ![i].set[field] = value]
  BY DEF WithSetting
<1> HIDE DEF base
<1>4. ASSUME NEW j \in DOMAIN objects, NEW f \in Fields
      PROVE  WithSetting(i, field, value)[j].set[f] = IF j = i /\ f = field THEN value ELSE objects[j].set[f]
  <2>1. j \in DOMAIN base /\ base[j] = objects[j]
    BY <1>1
  <2>2. CASE j # i
    BY <1>3, <2>1, <2>2
  <2>3. CASE j = i
    <3>1. WithSetting(i, field, value)[i] = [base[i] EXCEPT !.set[field] = value]
      BY <1>3, <2>1, <2>3
    <3>2. base[i].set \in [Fields -> Name \cup {None}] /\ base[i] \in Object
      BY <1>2, <2>1, <2>3, FieldsOfObject
    <3>3. [base[i] EXCEPT !.set[field] = value].set = [base[i].set EXCEPT ![field] = value]
      BY <3>2 DEF Object
    <3> QED
      BY <2>1, <2>3, <3>1, <3>2, <3>3
  <2> QED
    BY <2>2, <2>3
<1> QED
  BY <1>1, <1>3, <1>4 DEF SameSettings

LEMMA SameSettingPlaces ==
    ASSUME UNCHANGED <<disk, options>>
    PROVE  \A objs, Q : AllHold(objs, Q)' <=> AllHold(objs, Q)
<1>1. /\ \A x, l : Says(x, l)' <=> Says(x, l)
      /\ \A x, kind, name : SaidIn(x, kind, name)' <=> SaidIn(x, kind, name)
      /\ \A P : IsPlace(P)' <=> IsPlace(P)
  BY SamePlaces
<1>2. \A P, kind, name, field, value :
          SetsAt(P, kind, name, field, value)' <=> SetsAt(P, kind, name, field, value)
  BY <1>1 DEF SetsAt
<1>3. \A kind, name, field : SettingPlaces(kind, name, field)' = SettingPlaces(kind, name, field)
  BY <1>1, <1>2 DEF SettingPlaces
<1>4. \A kind, name, field, Q : SettingsBehind(kind, name, field, Q)' = SettingsBehind(kind, name, field, Q)
  BY <1>3 DEF SettingsBehind
<1>5. \A S, kind, name, field, objs :
          LastHolds(S, kind, name, field, objs)' <=> LastHolds(S, kind, name, field, objs)
  BY <1>2 DEF LastHolds
<1> QED
  BY <1>4, <1>5 DEF AllHold

\* A step that sets a value, at the place Q.
SettingIsAt(i, kind, name, field, value, Q) ==
    /\ i \in DOMAIN objects /\ kind \in Kinds /\ name \in Name /\ field \in Fields /\ value \in Name
    /\ IsCalled(i, kind, name, objects) /\ objects' = WithSetting(i, field, value)
    /\ Q \in Places /\ Q.calls \in Seq(Spot) /\ SetsAt(Q, kind, name, field, value)
    /\ \A P \in Places : Behind(P, Here) => Before(P, Q)

LEMMA SetHasAPlace ==
    ASSUME AllIs, AllIs', Set
    PROVE  /\ SettingIsAt(Top.section, objects[Top.section].kind, objects[Top.section].name,
                          Line.field, Line.value, Here')
           /\ IsPlace(Here') /\ StatementIs(Here', Line) /\ Line \in Statement /\ Final(Here').kind = "config"
<1> DEFINE n == Len(stack)
           c == Spots(Advanced)
           P == [option |-> optind - 1, calls |-> c]
           i == Top.section
<1>1. /\ HasLine /\ SectionKind # None /\ Line.op = "set" /\ Top.kind = "config" /\ Line.value # None
      /\ objects' = WithSetting(i, Line.field, Line.value) /\ stack' = Advanced /\ optind' = optind
      /\ CallsAreWritten(stack, objects) /\ stack # <<>>
  BY DEF Set, InConfig, CanSet, AllIs, Written, HasLine, Reading
<1>2. /\ IsPlace(P) /\ Final(P) = c[n] /\ c # <<>> /\ c \in Seq(Spot)
      /\ c[n].kind = Top.kind /\ c[n].name = Top.name /\ c[n].line = After.line
  BY <1>1, LineIsAPlace DEF AllIs
<1>3. Here' = P
  BY <1>1 DEF Here, Spots
<1>4. i \in DOMAIN objects /\ i # 0 /\ objects[i] \in Object /\ FrameIsWritten(Top, objects)
  <2>1. i \in DOMAIN objects
    BY <1>1, OpenSection DEF AllIs
  <2>2. objects \in Seq(Object) /\ DOMAIN objects = 1 .. Len(objects)
    BY LenProperties DEF AllIs, IInv, Known
  <2> QED
    BY <1>1, <2>1, <2>2, TopIsWritten DEF AllIs
<1>5. /\ Says(c[n], Line) /\ Line \in Statement
      /\ SaidIn(c[n], objects[i].kind, objects[i].name)
  BY <1>1, <1>2, <1>4, LineIsSaid DEF AllIs
<1>6. Line.field \in Fields /\ Line.value \in Name
  BY <1>1, <1>5, Carried
<1>7. objects[i].kind \in Kinds /\ objects[i].name \in Name
  BY <1>4, FieldsOfObject
<1>8. IsCalled(i, objects[i].kind, objects[i].name, objects)
  BY <1>1, <1>4 DEF FrameIsWritten, IsCalled
<1>9. P.calls = c /\ P.calls # <<>> /\ P \in Places
  BY <1>2 DEF IsPlace
<1> HIDE DEF P
<1>10. SetsAt(P, objects[i].kind, objects[i].name, Line.field, Line.value)
  BY <1>1, <1>2, <1>5, <1>9 DEF SetsAt
<1>11. StatementIs(P, Line)
  BY <1>1, <1>2, <1>5, <1>9 DEF StatementIs
<1>12. \A R \in Places : Behind(R, Here) => Before(R, P)
  <2>1. OneFurther(Spots(stack), Spots(stack'))
    BY <1>1, AdvancedIsTraced DEF AllIs
  <2> QED
    BY <1>1, <1>3, <2>1, BehindIsBefore DEF AllIs
<1>13. SettingIsAt(i, objects[i].kind, objects[i].name, Line.field, Line.value, P)
  BY <1>1, <1>2, <1>4, <1>6, <1>7, <1>8, <1>9, <1>10, <1>12 DEF SettingIsAt
<1> QED
  BY <1>1, <1>2, <1>3, <1>5, <1>11, <1>13

LEMMA NoCalls ==
    ASSUME AllIs, stack = <<>>
    PROVE  Here.option = optind - 1 /\ Here.calls = <<>> /\ Spots(stack) = <<>>
<1>1. Spots(stack) \in Seq(Spot) /\ Len(Spots(stack)) = 0
  BY StackIsAChain, EmptySeq DEF AllIs
<1>2. Spots(stack) = <<>>
  BY <1>1, EmptySeq
<1> QED
  BY <1>2 DEF Here

LEMMA SetMainHasAPlace ==
    ASSUME AllIs, AllIs', NEW op, NEW field, SetMain(op, field), field \in DOMAIN OptionOf, OptionOf[field] = op
    PROVE  SettingIsAt(1, "main", "default", field, options[optind].name, Here') /\ Here'.calls = <<>>
<1> DEFINE value == options[optind].name
<1>1. /\ stack = <<>> /\ stack' = stack /\ optind' = optind + 1 /\ optind <= Len(options) /\ options[optind].op = op
      /\ objects' = WithSetting(1, field, value) /\ UNCHANGED <<disk, options>>
  BY DEF SetMain, NextOption, Between, Template
<1>2. value \in Name /\ optind \in DOMAIN options /\ optind \in Nat /\ options[optind].name = value
  <2>1. optind \in 1 .. Len(options) + 1 /\ DOMAIN options = 1 .. Len(options) /\ Len(options) \in Nat
    BY ConfigAssumption, LenProperties DEF AllIs, IInv, Tables
  <2> QED
    BY <1>1, <2>1, OptionName DEF AllIs
<1>3. Here' = [option |-> optind, calls |-> <<>>]
  <2>1. Spots(stack') = <<>>
    BY <1>1, NoCalls
  <2>2. Here' = [option |-> optind' - 1, calls |-> Spots(stack')]
    BY DEF Here, Spots
  <2> QED
    BY <1>1, <1>2, <2>1, <2>2
<1>4. Here' \in Places /\ Here'.option = optind /\ Here'.calls = <<>> /\ <<>> \in Seq(Spot)
  BY <1>2, <1>3, EmptySeq DEF Places
<1>5. IsCalled(1, "main", "default", objects) /\ 1 \in DOMAIN objects
  <2>1. 1 \in DOMAIN objects
    BY LenProperties DEF AllIs, IInv, Known
  <2> QED
    BY <2>1 DEF AllIs, Written, AllWritten, IsCalled, Template, Kinds
<1>6. field \in Fields /\ "main" \in Kinds /\ "default" \in Name
  BY ConfigAssumption DEF Fields, Kinds, OptionOf
<1> HIDE DEF value
<1>7. SetsAt(Here', "main", "default", field, value)
  BY <1>1, <1>2, <1>4 DEF SetsAt
<1>8. ASSUME NEW R \in Places, Behind(R, Here) PROVE Before(R, Here')
  <2>1. Here.option = optind - 1
    BY <1>1, NoCalls
  <2>2. R.option \in Nat
    BY DEF Places
  <2>3. R.option < optind
    BY <1>2, <1>8, <2>1, <2>2 DEF Behind
  <2> QED
    BY <1>4, <2>3 DEF Before
<1> QED
  BY <1>1, <1>2, <1>4, <1>5, <1>6, <1>7, <1>8 DEF SettingIsAt, value

\* An option -v or -V is passed by being taken.
LEMMA OptionPasses ==
    ASSUME AllIs, AllIs', [Next]_vars, ~lost', NEW P, IsPlace(P), P.calls = <<>>, options[P.option].op # "c", Passed(P)
    PROVE  (SetMain("v", "level") \/ SetMain("V", "file")) /\ P = Here'
<1>1. /\ Here.option = optind - 1 /\ Here.calls = Spots(stack) /\ Spots(stack) \in Seq(Spot)
      /\ Here'.option = optind' - 1 /\ Here'.calls = Spots(stack') /\ Spots(stack') \in Seq(Spot)
      /\ optind \in Nat /\ optind' \in Nat
  BY HereIs DEF AllIs
<1>2. /\ P \in Places /\ P.option \in Nat /\ Len(P.calls) = 0
      /\ \A d : ~ Earlier(P.calls, d)
  BY EmptySeq DEF IsPlace, Places, Earlier
<1>3. \A d \in Seq(Spot) : Begins(d, P.calls) <=> d = <<>>
  <2>1. \A d \in Seq(Spot) : Len(d) \in Nat /\ DOMAIN d = 1 .. Len(d) /\ (d = <<>> <=> Len(d) = 0)
    BY LenProperties, EmptySeq
  <2> QED
    BY <1>2, <2>1 DEF Begins
<1>4. /\ P.option < optind' - 1 \/ (P.option = optind' - 1 /\ Spots(stack') = <<>>)
      /\ ~ (P.option < optind - 1) /\ ~ (P.option = optind - 1 /\ Spots(stack) = <<>>)
  BY <1>1, <1>2, <1>3 DEF Passed, Behind
<1>5. stack # <<>> => options[optind - 1].op = "c"
  <2> SUFFICES ASSUME stack # <<>> PROVE options[optind - 1].op = "c"
    OBVIOUS
  <2>1. 1 \in DOMAIN stack
    BY EmptySeq, LenProperties DEF AllIs, IInv, Sound
  <2> QED
    BY <2>1 DEF AllIs, Traced, IsTraced, FrameTraced
<1>6. stack = <<>> => Spots(stack) = <<>>
  BY NoCalls
<1>7. optind' = optind + 1 /\ stack = <<>> /\ P.option = optind
  <2>1. MovesOn
    BY StepIsTraced DEF AllIs
  <2>2. optind' # optind
    <3> SUFFICES ASSUME optind' = optind PROVE FALSE
      OBVIOUS
    <3>1. P.option = optind - 1
      BY <1>1, <1>2, <1>4
    <3> QED
      BY <1>4, <1>5, <1>6, <3>1
  <2>3. optind' = optind + 1 /\ stack = <<>>
    BY <2>1, <2>2 DEF MovesOn
  <2> QED
    BY <1>1, <1>2, <1>4, <1>6, <2>3
<1>8. ~ LoadConfig
  BY <1>7 DEF LoadConfig, NextOption
<1>9. SetMain("v", "level") \/ SetMain("V", "file")
  <2>1. optind' # optind
    BY <1>1, <1>7
  <2> QED
    BY <1>8, <2>1 DEF Next, vars, ParseFails, EndOfFile, Comment, Include, Section, Set, Service, Route, RouteFile,
       RouteDir, NextInFolder, NotUnderstood, Serve, StartFails
<1>10. P = Here'
  <2>1. stack' = stack
    BY <1>9 DEF SetMain
  <2>2. Here' = [option |-> optind' - 1, calls |-> Spots(stack')] /\ Spots(stack') = <<>>
    BY <1>6, <1>7, <2>1 DEF Here, Spots
  <2>3. P = [option |-> P.option, calls |-> P.calls]
    BY <1>2 DEF Places
  <2> QED
    BY <1>1, <1>7, <2>2, <2>3
<1> QED
  BY <1>9, <1>10

\* A place of a setting is passed by a step that sets what the place says.
LEMMA SettingPasses ==
    ASSUME AllIs, AllIs', [Next]_vars, ~lost', NEW kind, NEW name, NEW field,
           NEW P \in SettingPlaces(kind, name, field), Passed(P)
    PROVE  /\ P = Here'
           /\ \/ /\ Set /\ kind = objects[Top.section].kind /\ name = objects[Top.section].name /\ field = Line.field
              \/ /\ kind = "main" /\ name = "default"
                 /\ \/ SetMain("v", "level") /\ field = "level"
                    \/ SetMain("V", "file") /\ field = "file"
<1>1. IsPlace(P) /\ \E value : SetsAt(P, kind, name, field, value)
  BY DEF SettingPlaces
<1>2. CASE P.calls = <<>>
  <2>1. /\ kind = "main" /\ name = "default" /\ field \in DOMAIN OptionOf
        /\ options[P.option].op = OptionOf[field]
    BY <1>1, <1>2 DEF SetsAt
  <2>2. options[P.option].op # "c"
    BY <2>1 DEF OptionOf
  <2>3. (SetMain("v", "level") \/ SetMain("V", "file")) /\ P = Here'
    BY <1>1, <1>2, <2>2, OptionPasses
  <2>4. \A op, f : SetMain(op, f) /\ f \in {"level", "file"} => Here'.option = optind /\ options[optind].op = op
    <3> SUFFICES ASSUME NEW op, NEW f, SetMain(op, f) PROVE Here'.option = optind /\ options[optind].op = op
      OBVIOUS
    <3>1. optind \in Nat /\ optind' = optind + 1 /\ options[optind].op = op
      BY HereIs DEF SetMain, NextOption, AllIs
    <3>2. Here' = [option |-> optind' - 1, calls |-> Spots(stack')]
      BY DEF Here, Spots
    <3> QED
      BY <3>1, <3>2
  <2>5. CASE SetMain("v", "level")
    BY <2>1, <2>3, <2>4, <2>5 DEF OptionOf
  <2>6. CASE SetMain("V", "file")
    BY <2>1, <2>3, <2>4, <2>6 DEF OptionOf
  <2> QED
    BY <2>1, <2>3, <2>5, <2>6
<1>3. CASE P.calls # <<>>
  <2>0. PICK value : SetsAt(P, kind, name, field, value)
    BY <1>1
  <2>1. PICK l \in Statement :
            /\ Final(P).kind = "config" /\ SaidIn(Final(P), kind, name)
            /\ Says(Final(P), l) /\ l.op = "set" /\ l.field = field /\ l.value = value
    BY <1>3, <2>0 DEF SetsAt
  <2>2. StatementIs(P, l) /\ l.op \notin DOMAIN CallOf
    BY <1>3, <2>1 DEF StatementIs, CallOf
  <2>3. /\ P = Here' /\ l = Line /\ (Comment \/ Set \/ Service \/ Route \/ Section)
    BY <1>1, <2>2, OnlyItsLinePasses DEF AllIs
  <2>4. Set
    BY <2>1, <2>3 DEF Comment, Service, Route, Section, InConfig
  <2>5. SettingIsAt(Top.section, objects[Top.section].kind, objects[Top.section].name, Line.field, Line.value, P)
    BY <2>3, <2>4, SetHasAPlace
  <2>6. SaidIn(Final(P), objects[Top.section].kind, objects[Top.section].name)
    BY <1>3, <2>5 DEF SettingIsAt, SetsAt
  <2>7. Final(P).name \in DOMAIN disk
    <3>1. IsReadable(Final(P))
      BY <1>1, <2>2, PlaceIsThere DEF Final, AllIs
    <3> QED
      BY <2>1, <3>1 DEF IsReadable
  <2> QED
    BY <2>1, <2>3, <2>4, <2>6, <2>7, SaidInOne DEF AllIs
<1> QED
  BY <1>2, <1>3

SettingsStay(more) ==
    \A j \in DOMAIN objects : j \in DOMAIN more /\ \A f \in Fields : more[j].set[f] = objects[j].set[f]

LEMMA OthersSetNothing ==
    ASSUME AllIs, [Next]_vars, ~ Set, ~ SetMain("v", "level"), ~ SetMain("V", "file")
    PROVE  SettingsStay(objects')
<1>0. IInv /\ Known(objects) /\ DOMAIN objects = 1 .. Len(objects)
  BY LenProperties DEF AllIs, IInv, Known
<1>1. CASE UNCHANGED objects
  BY <1>1 DEF SettingsStay
<1>2. CASE Section
  <2>1. CASE Line.name = "default"
    BY <1>2, <2>1 DEF Section, SettingsStay
  <2>2. CASE Line.name # "default"
    <3>1. HasLine /\ Line.op = "section" /\ objects' = FindOrCreate(Line.kind, Line.name)
      BY <1>2, <2>2 DEF Section, InConfig
    <3>2. Line.kind \in Kinds /\ Line.name \in Name
      BY <1>0, <3>1, LineIsRead, Carried
    <3>3. \A j \in DOMAIN objects : j \in DOMAIN objects' /\ objects'[j] = objects[j]
      BY <1>0, <3>1, <3>2, CreatedRules
    <3> QED
      BY <3>3 DEF SettingsStay
  <2> QED
    BY <2>1, <2>2
<1>3. CASE Service
  <2> DEFINE i == Top.section
  <2>1. HasLine /\ SectionKind = "proxy"
        /\ objects' = [objects EXCEPT ![i].services = <<Line.host>> \o objects[i].services]
    BY <1>3 DEF Service, InConfig
  <2>2. i \in DOMAIN objects
    BY <1>0, <2>1, ProxySection
  <2> HIDE DEF i
  <2>3. objects[i] \in Object
    BY <1>0, <2>2, LenProperties DEF Known
  <2>4. [objects[i] EXCEPT !.services = <<Line.host>> \o objects[i].services].set = objects[i].set
    BY <2>3 DEF Object
  <2> QED
    BY <2>1, <2>2, <2>4 DEF SettingsStay
<1>4. CASE Route
  <2>1. PICK i \in DOMAIN objects, o \in Object : o.set = objects[i].set /\ objects' = [objects EXCEPT ![i] = o]
    BY <1>4, RouteAdds DEF AllIs
  <2> QED
    BY <2>1 DEF SettingsStay
<1> QED
  BY <1>1, <1>2, <1>3, <1>4 DEF Next, vars, ParseFails, EndOfFile, Comment, Include, RouteFile,
     RouteDir, NextInFolder, NotUnderstood, LoadConfig, Serve, StartFails

LEMMA StaysCalled ==
    ASSUME AllIs, AllIs', [Next]_vars, NEW i \in DOMAIN objects, NEW kind, NEW name, IsCalled(i, kind, name, objects)
    PROVE  i \in DOMAIN objects' /\ IsCalled(i, kind, name, objects')
<1>1. Keeps(objects, objects') /\ DOMAIN objects \subseteq DOMAIN objects'
  BY NamesAreKept DEF AllIs
<1> QED
  BY <1>1 DEF Keeps, IsCalled

\* What holds of settings of which none has been passed.
LEMMA LastStill ==
    ASSUME AllIs, AllIs', [Next]_vars, NEW kind, NEW name, NEW field \in Fields, NEW S,
           LastHolds(S, kind, name, field, objects),
           \A i \in DOMAIN objects :
               IsCalled(i, kind, name, objects) => objects'[i].set[field] = objects[i].set[field]
    PROVE  LastHolds(S, kind, name, field, objects')
<1> SUFFICES ASSUME S # {}
             PROVE  \E i \in DOMAIN objects', Q \in S :
                        /\ IsCalled(i, kind, name, objects') /\ SetsAt(Q, kind, name, field, objects'[i].set[field])
                        /\ LastOfAll(S, Q)
  BY DEF LastHolds
<1>1. PICK i \in DOMAIN objects, Q \in S :
          /\ IsCalled(i, kind, name, objects) /\ SetsAt(Q, kind, name, field, objects[i].set[field])
          /\ LastOfAll(S, Q)
  BY DEF LastHolds
<1>2. i \in DOMAIN objects' /\ IsCalled(i, kind, name, objects')
  BY <1>1, StaysCalled
<1>3. SetsAt(Q, kind, name, field, objects'[i].set[field])
  BY <1>1
<1> QED
  BY <1>1, <1>2, <1>3

LEMMA SettingsStayBehind ==
    ASSUME AllIs, AllIs', [Next]_vars, NEW kind, NEW name, NEW field
    PROVE  SettingsBehind(kind, name, field, Here) \subseteq SettingsBehind(kind, name, field, Here')
<1>1. MovesOn
  BY StepIsTraced DEF AllIs
<1>2. \A P \in Places : Behind(P, Here) => Behind(P, Here')
  BY <1>1, BehindStays DEF AllIs
<1> QED
  BY <1>2 DEF SettingsBehind, SettingPlaces

LEMMA OthersKeepSettings ==
    ASSUME AllIs, AllIs', [Next]_vars, ~lost', AllHold(objects, Here),
           ~ Set, ~ SetMain("v", "level"), ~ SetMain("V", "file")
    PROVE  AllHold(objects', Here')
<1> SUFFICES ASSUME NEW kind \in Kinds, NEW name \in Name, NEW field \in Fields
             PROVE  LastHolds(SettingsBehind(kind, name, field, Here'), kind, name, field, objects')
  BY DEF AllHold
<1> DEFINE S == SettingsBehind(kind, name, field, Here)
           T == SettingsBehind(kind, name, field, Here')
<1>1. T \subseteq S
  <2> SUFFICES ASSUME NEW P \in T, P \notin S PROVE FALSE
    OBVIOUS
  <2>1. P \in SettingPlaces(kind, name, field) /\ Passed(P)
    BY DEF SettingsBehind, Passed
  <2> QED
    BY <2>1, SettingPasses
<1>2. S \subseteq T
  BY SettingsStayBehind
<1>3. T = S
  BY <1>1, <1>2
<1>4. LastHolds(S, kind, name, field, objects)
  BY DEF AllHold
<1>5. SettingsStay(objects')
  BY OthersSetNothing
<1> HIDE DEF S, T
<1>6. LastHolds(S, kind, name, field, objects')
  BY <1>4, <1>5, LastStill DEF SettingsStay
<1> QED
  BY <1>3, <1>6 DEF T

\* All that a step passes, at the place where it sets a value.
PassesOnly(kind, name, field) ==
    \A k, n, f : \A P \in SettingPlaces(k, n, f) : Passed(P) => P = Here' /\ k = kind /\ n = name /\ f = field

LEMMA SettingKeepsSettings ==
    ASSUME AllIs, AllIs', [Next]_vars, AllHold(objects, Here), IsPlace(Here'),
           NEW i, NEW kind0, NEW name0, NEW field0, NEW value0,
           SettingIsAt(i, kind0, name0, field0, value0, Here'), PassesOnly(kind0, name0, field0)
    PROVE  AllHold(objects', Here')
<1> DEFINE Q == Here'
<1> SUFFICES ASSUME NEW kind \in Kinds, NEW name \in Name, NEW field \in Fields
             PROVE  LastHolds(SettingsBehind(kind, name, field, Q), kind, name, field, objects')
  BY DEF AllHold
<1> DEFINE S == SettingsBehind(kind, name, field, Here)
           T == SettingsBehind(kind, name, field, Q)
<1>0. /\ i \in DOMAIN objects /\ kind0 \in Kinds /\ name0 \in Name /\ field0 \in Fields /\ value0 \in Name
      /\ IsCalled(i, kind0, name0, objects) /\ objects' = WithSetting(i, field0, value0)
      /\ Q \in Places /\ Q.calls \in Seq(Spot) /\ SetsAt(Q, kind0, name0, field0, value0)
      /\ \A P \in Places : Behind(P, Here) => Before(P, Q)
  BY DEF SettingIsAt
<1>1. S \subseteq T
  BY SettingsStayBehind
<1>2. LastHolds(S, kind, name, field, objects)
  BY DEF AllHold
<1>3. SameSettings(objects', i, field0, value0)
  BY <1>0, SettingSets DEF AllIs
<1>4. \A P \in T : P \in S \/ (P = Q /\ kind = kind0 /\ name = name0 /\ field = field0)
  <2> SUFFICES ASSUME NEW P \in T, P \notin S PROVE P = Q /\ kind = kind0 /\ name = name0 /\ field = field0
    OBVIOUS
  <2>1. P \in SettingPlaces(kind, name, field) /\ Passed(P)
    BY DEF SettingsBehind, Passed
  <2> QED
    BY <2>1 DEF PassesOnly
<1>5. CASE kind = kind0 /\ name = name0 /\ field = field0
  <2>1. Q \in T
    <3>1. Behind(Q, Q)
      BY <1>0, HereIsBehind
    <3>2. Q \in SettingPlaces(kind, name, field)
      BY <1>0, <1>5 DEF SettingPlaces
    <3> QED
      BY <3>1, <3>2 DEF SettingsBehind
  <2>2. \A P \in S : Before(P, Q)
    BY <1>0 DEF SettingsBehind, SettingPlaces
  <2>3. LastOfAll(T, Q)
    BY <1>4, <2>1, <2>2 DEF LastOfAll
  <2>4. i \in DOMAIN objects' /\ IsCalled(i, kind, name, objects')
    BY <1>0, <1>5, StaysCalled
  <2>5. objects'[i].set[field] = value0
    BY <1>0, <1>3, <1>5 DEF SameSettings
  <2>6. SetsAt(Q, kind, name, field, objects'[i].set[field])
    BY <1>0, <1>5, <2>5
  <2> HIDE DEF T, Q
  <2> QED
    BY <2>1, <2>3, <2>4, <2>6 DEF LastHolds, T
<1>6. CASE ~ (kind = kind0 /\ name = name0 /\ field = field0)
  <2>1. T = S
    BY <1>1, <1>4, <1>6
  <2>2. ASSUME NEW j \in DOMAIN objects, IsCalled(j, kind, name, objects)
        PROVE  objects'[j].set[field] = objects[j].set[field]
    <3>1. j = i => kind = kind0 /\ name = name0
      BY <1>0, <2>2 DEF IsCalled
    <3>2. ~ (j = i /\ field = field0)
      BY <1>6, <3>1
    <3> QED
      BY <1>3, <3>2 DEF SameSettings
  <2> HIDE DEF S, T, Q
  <2>3. LastHolds(S, kind, name, field, objects')
    BY <1>2, <2>2, LastStill
  <2> QED
    BY <2>1, <2>3 DEF T
<1> QED
  BY <1>5, <1>6

LEMMA StepKeepsSettings == AllIs /\ AllIs' /\ Overwritten /\ [Next]_vars => Overwritten'
<1> SUFFICES ASSUME AllIs, AllIs', Overwritten, [Next]_vars, ~lost' PROVE AllHold(objects', Here')
  BY SameTables, SameSettingPlaces DEF Overwritten
<1>0. AllHold(objects, Here)
  BY NothingUnsaid DEF Overwritten
<1>1. CASE Set
  <2> DEFINE i == Top.section
  <2>1. /\ SettingIsAt(i, objects[i].kind, objects[i].name, Line.field, Line.value, Here')
        /\ IsPlace(Here')
    BY <1>1, SetHasAPlace
  <2>2. ~ SetMain("v", "level") /\ ~ SetMain("V", "file")
    BY <1>1 DEF Set, SetMain, InConfig, HasLine, Reading, NextOption, Between
  <2>3. PassesOnly(objects[i].kind, objects[i].name, Line.field)
    BY <2>2, SettingPasses DEF PassesOnly
  <2> QED
    BY <1>0, <2>1, <2>3, SettingKeepsSettings
<1>2. ASSUME NEW op, NEW field, SetMain(op, field), <<op, field>> \in {<<"v", "level">>, <<"V", "file">>}
      PROVE  AllHold(objects', Here')
  <2>1. field \in DOMAIN OptionOf /\ OptionOf[field] = op
    BY <1>2 DEF OptionOf
  <2>2. SettingIsAt(1, "main", "default", field, options[optind].name, Here') /\ Here'.calls = <<>>
    BY <1>2, <2>1, SetMainHasAPlace
  <2>3. ~ Set /\ ~ (SetMain("v", "level") /\ SetMain("V", "file")) 
    BY <1>2 DEF Set, SetMain, InConfig, HasLine, Reading, NextOption, Between
  <2>4. PassesOnly("main", "default", field)
    <3>1. SetMain("v", "level") => field = "level"
      BY <1>2 DEF SetMain, NextOption
    <3>2. SetMain("V", "file") => field = "file"
      BY <1>2 DEF SetMain, NextOption
    <3> QED
      BY <2>3, <3>1, <3>2, SettingPasses DEF PassesOnly
  <2>5. IsPlace(Here')
    <3>1. Here' \in Places /\ IsChain(<<>>) /\ Here'.option \in DOMAIN options
      <4>1. IsChain(<<>>)
        BY EmptySeq DEF IsChain
      <4>2. Here'.option = optind' - 1 /\ optind \in Nat /\ optind' = optind + 1 /\ optind <= Len(options)
        BY <1>2, HereIs DEF AllIs, SetMain, NextOption
      <4>3. optind \in 1 .. Len(options) + 1 /\ DOMAIN options = 1 .. Len(options) /\ Len(options) \in Nat
        BY ConfigAssumption, LenProperties DEF AllIs, IInv, Tables
      <4> QED
        BY <2>2, <4>1, <4>2, <4>3 DEF SettingIsAt
    <3> QED
      BY <2>2, <3>1 DEF IsPlace
  <2> QED
    BY <1>0, <2>2, <2>4, <2>5, SettingKeepsSettings
<1>3. CASE ~ Set /\ ~ SetMain("v", "level") /\ ~ SetMain("V", "file")
  BY <1>0, <1>3, OthersKeepSettings
<1> QED
  BY <1>1, <1>2, <1>3

LEMMA NothingSetYet == Init => Overwritten
<1> SUFFICES ASSUME Init, NEW kind, NEW name, NEW field, NEW P \in SettingPlaces(kind, name, field), Behind(P, Here)
             PROVE  FALSE
  BY DEF Overwritten, AllHold, LastHolds, SettingsBehind
<1>1. P.option \in 1 .. Len(options) /\ Len(options) \in Nat
  BY LenProperties, ConfigAssumption DEF SettingPlaces, IsPlace, Init
<1>2. Here.option = 0
  BY DEF Here, Init
<1>3. ~ (P.option < 0) /\ P.option # 0
  BY <1>1
<1> QED
  BY <1>2, <1>3 DEF Behind

LEMMA Settings == Spec => []Overwritten
<1>1. Spec => []AllIs
  <2>1. IInv /\ Written /\ Traced /\ AllPlaced /\ Chained(stack) => AllIs
    BY DEF AllIs
  <2> QED
    BY <2>1, Invariant, OnlyWhatIsWritten, LinesAreNumbered, Placement, Chains, PTL
<1> QED
  BY <1>1, NothingSetYet, StepKeepsSettings, PTL DEF Spec

\* "later lines overwrite earlier lines": what is set last, of all that the
\* options and the files say, holds.
THEOREM LaterLinesOverwrite == Spec => []LaterOnesOverwrite
<1>1. IInv /\ Written /\ Traced /\ Thorough /\ Overwritten /\ LossesAreTold => LaterOnesOverwrite
  <2> SUFFICES ASSUME IInv, Written, Traced, Thorough, Overwritten, Serves, at = "serving", ~lost,
                      NEW kind \in Kinds, NEW name \in Name, NEW field \in Fields,
                      SettingPlaces(kind, name, field) # {}
               PROVE  /\ \E i \in DOMAIN objects : IsCalled(i, kind, name, objects)
                      /\ \A i \in DOMAIN objects :
                             IsCalled(i, kind, name, objects) =>
                                 \E Q \in SettingPlaces(kind, name, field) :
                                     /\ SetsAt(Q, kind, name, field, objects[i].set[field])
                                     /\ \A P \in SettingPlaces(kind, name, field) : P = Q \/ Before(P, Q)
    BY NothingIsLost DEF LaterOnesOverwrite
  <2> DEFINE S == SettingPlaces(kind, name, field)
  <2>1. \A P \in S : Behind(P, Here)
    <3> SUFFICES ASSUME NEW P \in S PROVE Behind(P, Here)
      OBVIOUS
    <3>1. P \in Places /\ P.option \in DOMAIN options
      BY DEF SettingPlaces, IsPlace
    <3> QED
      BY <3>1, AllIsBehind DEF Thorough
  <2>2. SettingsBehind(kind, name, field, Here) = S
    BY <2>1 DEF SettingsBehind
  <2>3. LastHolds(S, kind, name, field, objects)
    BY <2>2 DEF Overwritten, AllHold
  <2> HIDE DEF S
  <2>4. PICK i \in DOMAIN objects, Q \in S :
            /\ IsCalled(i, kind, name, objects) /\ SetsAt(Q, kind, name, field, objects[i].set[field])
            /\ \A P \in S : P = Q \/ Before(P, Q)
    BY <2>3 DEF LastHolds, LastOfAll, S
  <2>5. \A j \in DOMAIN objects : IsCalled(j, kind, name, objects) => j = i
    BY <2>4, ObjectIsOne
  <2> QED
    BY <2>4, <2>5 DEF S
<1> QED
  BY <1>1, Invariant, OnlyWhatIsWritten, LinesAreNumbered, Thoroughness, Settings, NothingIsLostQuietly, PTL
=============================================================================

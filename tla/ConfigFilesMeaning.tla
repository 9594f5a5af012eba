------------------------ MODULE ConfigFilesMeaning --------------------------
(***************************************************************************)
(* What a set of configuration files says, without recursion: where their  *)
(* statements are, in which sections, which files the options reach, and   *)
(* in which order all of this is come to.  The theorems about ConfigFiles  *)
(* compare the objects of the program with it.                             *)
(***************************************************************************)
EXTENDS ConfigFiles, FiniteSets

-----------------------------------------------------------------------------
\* What is written.

\* Where the lines of a file have their statements.  Only a line that ends is
\* one.
Starts(f) ==
    {p \in DOMAIN disk[f] :
        /\ disk[f][p] \notin Break /\ (p = 1 \/ disk[f][p - 1] \in Break)
        /\ \E q \in DOMAIN disk[f] : p < q /\ disk[f][q] \in Break}

\* The section that is open at the position p of a file.
NoSectionBefore(f, p) == \A q \in Starts(f) : q < p => disk[f][q].op # "section"
InSection(f, p, kind, name) ==
    \E q \in Starts(f) :
        /\ q < p /\ disk[f][q].op = "section" /\ disk[f][q].kind = kind /\ disk[f][q].name = name
        /\ \A r \in Starts(f) : q < r /\ r < p => disk[f][r].op # "section"

\* The files that are reached from some of them through lines of a kind: what
\* every set that has these and is closed under such lines has.
ClosedUnder(op, R) ==
    \A f \in R : \A p \in Starts(f) :
        disk[f][p].op = op /\ disk[f][p].name \in DOMAIN disk => disk[f][p].name \in R
Reached(op, from) ==
    {f \in DOMAIN disk : \A R \in SUBSET DOMAIN disk :
        from \cap DOMAIN disk \subseteq R /\ ClosedUnder(op, R) => f \in R}

Given(op) == {options[o].name : o \in {k \in DOMAIN options : options[k].op = op}}
ConfigsRead == Reached("include", Given("c"))

\* The statements in the sections of an object, and the files of its rules.
Stated(op, kind, name) ==
    UNION {{disk[f][p] : p \in {q \in Starts(f) : disk[f][q].op = op /\ InSection(f, q, kind, name)}} :
               f \in ConfigsRead}
RuleFilesNamed(proxy) ==
    {l.name : l \in Stated("routeFile", "proxy", proxy)}
    \cup UNION {Folders[l.name] : l \in {d \in Stated("routeDir", "proxy", proxy) : d.name \in DOMAIN Folders}}
RulesRead(proxy) == Reached("routeFile", RuleFilesNamed(proxy))

\* The lines that end the reading of their file without a message: in a
\* configuration file "${" without "}", in a rule file also what is no rule.
NamedBy(op) ==
    UNION {{disk[f][p].name : p \in {q \in Starts(f) : disk[f][q].op = op}} : f \in ConfigsRead}
NamedRuleFiles == NamedBy("routeFile") \cup UNION {Folders[d] : d \in NamedBy("routeDir") \cap DOMAIN Folders}
HasQuietLine ==
    \/ \E f \in ConfigsRead : \E p \in Starts(f) : disk[f][p].op = "unterminated"
    \/ \E f \in Reached("routeFile", NamedRuleFiles) : \E p \in Starts(f) :
           disk[f][p].op \notin {"rule", "routeFile", "comment", "unreadable"}

(***************************************************************************)
(* The calls of error() before each "return 0" and "exit" of               *)
(* config_file.c, route_rule.c and server.c: what a start loses -- the     *)
(* rest of a text, a tunnel of a rule, or everything -- it has told of, at *)
(* whatever depth it was lost and whoever survived it, unless a file that  *)
(* is reached from the options has a line of the two quiet kinds           *)
(* (config_file.c:213, route_rule.c:180).                                  *)
(***************************************************************************)
LossesAreTold == lost => reported \/ HasQuietLine

\* The program serves after a start without a message, from files that have
\* no quiet line.
Serves == at = "serving" /\ ~reported /\ ~HasQuietLine

\* A rule of a proxy is a line of one of its sections or of one of its rule
\* files, and its tunnels are those of the names in that line.
RuleIsWritten(r, proxy, objs) ==
    /\ r.file \in DOMAIN disk
    /\ \E p \in Starts(r.file) :
           LET l == disk[r.file][p] IN
           /\ \/ l.op = "route" /\ r.file \in ConfigsRead /\ InSection(r.file, p, "proxy", proxy)
              \/ l.op = "rule" /\ r.file \in RulesRead(proxy)
           /\ DOMAIN r.via = Held(l.via) /\ \A t \in Held(l.via) : objs[r.via[t]].name = l.via[t]

\* A value is one that a section of its object gives it, or an option, or one
\* of the object "default" of its kind.
ValueIsStated(kind, name, field, value) ==
    \/ \E l \in Stated("set", kind, name) : l.field = field /\ l.value = value
    \/ kind = "main" /\ name = "default" /\ \/ field = "level" /\ value \in Given("v")
                                            \/ field = "file" /\ value \in Given("V")
ValueIsWritten(kind, name, field, value) ==
    /\ field \in Accepted[kind]
    /\ \/ ValueIsStated(kind, name, field, value)
       \/ field \in Copied[kind] /\ ValueIsStated(kind, "default", field, value)

ObjectIsWritten(o, objs) ==
    /\ \A k \in DOMAIN o.rules : o.kind = "proxy" /\ RuleIsWritten(o.rules[k], o.name, objs)
    /\ \A f \in Fields : o.set[f] # None => ValueIsWritten(o.kind, o.name, f, o.set[f])
    /\ \A k \in DOMAIN o.services :
           o.kind = "proxy" /\ \E l \in Stated("service", "proxy", o.name) : l.host = o.services[k]

\* An object on a list has a section, or is a log that is used, or predefined.
SectionIsWritten(kind, name) ==
    \E f \in ConfigsRead : \E p \in Starts(f) :
        disk[f][p].op = "section" /\ disk[f][p].kind = kind /\ disk[f][p].name = name
NameIsWritten(kind, name) ==
    \/ name # "default" /\ SectionIsWritten(kind, name)
    \/ kind = "log" /\ \/ name \in Given("V")
                       \/ \E k \in Kinds, n \in Name : \E l \in Stated("set", k, n) : l.field = "file" /\ l.value = name
    \/ kind = "ssh" /\ \E k \in 1 .. 3 : name = Predefined[k]

AllWritten(objs) ==
    /\ \A i \in DOMAIN objs : ObjectIsWritten(objs[i], objs)
    /\ \A i \in Listed(objs) : NameIsWritten(objs[i].kind, objs[i].name)
    /\ \A kind \in Kinds : objs[Template[kind]].kind = kind /\ objs[Template[kind]].name = "default"

\* Where a call is in its file, and for which section.
AtLineStart(f) == f.pos = 1 \/ disk[f.name][f.pos - 1] \in Break
FrameIsWritten(f, objs) ==
    /\ f.kind # "folder" => AtLineStart(f)
    /\ f.kind = "config" =>
           /\ f.name \in ConfigsRead
           /\ f.section = 0 => NoSectionBefore(f.name, f.pos)
           /\ f.section # 0 =>
                  LET o == objs[f.section] IN
                  /\ InSection(f.name, f.pos, o.kind, o.name)
                  /\ o.name = "default" => f.section = Template[o.kind]
    /\ f.kind = "rules" =>
           objs[f.section].kind = "proxy" /\ f.name \in RulesRead(objs[f.section].name)
    /\ f.kind = "folder" =>
           /\ objs[f.section].kind = "proxy"
           /\ \A k \in DOMAIN f.todo : f.todo[k] \in RuleFilesNamed(objs[f.section].name)

CallsAreWritten(s, objs) == \A i \in DOMAIN s : FrameIsWritten(s[i], objs)
Written == AllWritten(objects) /\ CallsAreWritten(stack, objects)

-----------------------------------------------------------------------------
\* What has been done.

\* The object that the sections of a kind and a name configure.
IsCalled(i, kind, name, objs) ==
    objs[i].kind = kind /\ objs[i].name = name /\ (name = "default" => i = Template[kind])

HasRule(o, f, l, objs) ==
    \E k \in DOMAIN o.rules :
        LET r == o.rules[k] IN
        r.file = f /\ DOMAIN r.via = DOMAIN l.via /\ \A t \in DOMAIN l.via : objs[r.via[t]].name = l.via[t]

\* A line has been done to the object i.
IsTaken(l, f, i, objs, R) ==
    /\ l.op = "set" => l.field \in Accepted[objs[i].kind] /\ objs[i].set[l.field] # None
    /\ l.op # "set" => objs[i].kind = "proxy"
    /\ l.op = "service" => \E k \in DOMAIN objs[i].services : objs[i].services[k] = l.host
    /\ l.op = "route" => HasRule(objs[i], f, l, objs)
    /\ l.op = "routeFile" => <<i, l.name>> \in R
    /\ l.op = "routeDir" => l.name \in DOMAIN Folders /\ \A g \in Folders[l.name] : <<i, g>> \in R

\* A line of a configuration file, of a rule file for the object i, or an
\* option has been done, when C are the configuration files that are read, and
\* R the rule files, each for an object.
InOpenSection == {"set", "service", "route", "routeFile", "routeDir"}
LineIsDone(f, p, objs, C, R) ==
    LET l == disk[f][p] IN
    /\ l.op = "include" => l.name \in C
    /\ l.op = "section" => \E i \in DOMAIN objs : IsCalled(i, l.kind, l.name, objs)
    /\ l.op \notin {"include", "section", "comment"} =>
           /\ l.op \in InOpenSection
           /\ \E i \in DOMAIN objs :
                  /\ InSection(f, p, objs[i].kind, objs[i].name)
                  /\ IsCalled(i, objs[i].kind, objs[i].name, objs) /\ IsTaken(l, f, i, objs, R)
RuleLineIsDone(i, f, p, objs, R) ==
    LET l == disk[f][p] IN
    /\ l.op \in {"rule", "routeFile", "comment"}
    /\ l.op = "rule" => HasRule(objs[i], f, l, objs)
    /\ l.op = "routeFile" => <<i, l.name>> \in R
OptionIsDone(o, objs, C) ==
    /\ options[o].op = "c" => options[o].name \in C
    /\ options[o].op = "v" => objs[1].set["level"] # None
    /\ options[o].op = "V" => objs[1].set["file"] # None

\* CONFIG_FILENAME_STACK_SIZE is not reached.
FewFiles == IsFiniteSet(DOMAIN disk) /\ Cardinality(DOMAIN disk) < MaxDepth

RulesReadFor(objs) ==
    {r \in (DOMAIN objs) \X (DOMAIN disk) : objs[r[1]].kind = "proxy" /\ r[2] \in RulesRead(objs[r[1]].name)}

\* The calls have done the lines that are behind them; files that are read are
\* done, or being read, or in a folder that is being read.
FrameIsDone(f, objs, C, R) ==
    /\ f.kind = "config" =>
           /\ f.name \in C /\ \A p \in Starts(f.name) : p < f.pos => LineIsDone(f.name, p, objs, C, R)
           /\ f.section # 0 => IsCalled(f.section, objs[f.section].kind, objs[f.section].name, objs)
    /\ f.kind = "rules" =>
           /\ <<f.section, f.name>> \in R
           /\ \A p \in Starts(f.name) : p < f.pos => RuleLineIsDone(f.section, f.name, p, objs, R)
    /\ f.kind = "folder" => \A k \in DOMAIN f.todo : <<f.section, f.todo[k]>> \in R

IsOpen(f, s) == \E j \in DOMAIN s : s[j].kind = "config" /\ s[j].name = f
IsPending(r, s) ==
    \E j \in DOMAIN s :
        /\ s[j].section = r[1]
        /\ \/ s[j].kind = "rules" /\ s[j].name = r[2]
           \/ s[j].kind = "folder" /\ \E k \in DOMAIN s[j].todo : s[j].todo[k] = r[2]
FramesDone(s, objs, C, R) == \A j \in DOMAIN s : FrameIsDone(s[j], objs, C, R)
FilesDone(S, s, objs, C, R) ==
    \A f \in S : f \in DOMAIN disk /\ (IsOpen(f, s) \/ \A p \in Starts(f) : LineIsDone(f, p, objs, C, R))
RulesDone(S, s, objs, R) ==
    \A r \in S : \/ IsPending(r, s)
                 \/ r[2] \in DOMAIN disk /\ \A p \in Starts(r[2]) : RuleLineIsDone(r[1], r[2], p, objs, R)
OptionsDone(n, objs, C) == \A o \in DOMAIN options : o < n => OptionIsDone(o, objs, C)
Progress(s, objs, n, C, R) ==
    FramesDone(s, objs, C, R) /\ FilesDone(C, s, objs, C, R) /\ RulesDone(R, s, objs, R) /\ OptionsDone(n, objs, C)

\* The calls of a chain of includes follow each other on the stack.
Linked(s, i) ==
    \A j \in i - s[i].depth + 1 .. i - 1 :
        /\ s[j].kind = s[i].kind /\ s[j].depth = s[i].depth - (i - j)
        /\ s[i].kind = "rules" => s[j].section = s[i].section
Chained(s) == \A i \in DOMAIN s : Linked(s, i)

ReadSoFar(s, objs, n) ==
    \E C \in SUBSET DOMAIN disk : \E R \in SUBSET ((DOMAIN objs) \X Name) : Progress(s, objs, n, C, R)
Thorough ==
    /\ Chained(stack)
    /\ at = "serving" => stack = <<>> /\ optind > Len(options)
    /\ FewFiles /\ ~lost => ReadSoFar(stack, objects, optind)

(* readme.md:70: a program that serves after a start without a message,    *)
(* from files without a quiet line and fewer than                          *)
(* CONFIG_FILENAME_STACK_SIZE, has done every option                       *)
(* and every line of every file that is reached from them, also those that *)
(* files including each other had skipped: a section has its object; what  *)
(* a section sets is set, its services and its rules, with all tunnels of  *)
(* the names in the line, are those of its object; and all rule files that *)
(* a section reads have been read to their end for it.                     *)
NothingMissing ==
    Serves /\ FewFiles =>
        LET rules == RulesReadFor(objects) IN
        /\ \A o \in DOMAIN options : OptionIsDone(o, objects, ConfigsRead)
        /\ \A f \in ConfigsRead : \A p \in Starts(f) : LineIsDone(f, p, objects, ConfigsRead, rules)
        /\ \A r \in rules : \A p \in Starts(r[2]) : RuleLineIsDone(r[1], r[2], p, objects, rules)

-----------------------------------------------------------------------------
\* Lines, their numbers and their order.

\* The second half of a line end of two characters: among line breaks none of
\* which is like the one before it, every second one.
SecondHalf(f, q) ==
    \E s \in 1 .. q - 1 :
        /\ (q - s) % 2 = 1 /\ \A j \in s .. q : disk[f][j] \in Break
        /\ \A j \in s .. q - 1 : disk[f][j] # disk[f][j + 1]
        /\ s = 1 \/ disk[f][s - 1] \notin Break \/ disk[f][s - 1] = disk[f][s]
Terminators(f) == {q \in DOMAIN disk[f] : disk[f][q] \in Break /\ ~ SecondHalf(f, q)}
LinesBefore(f, p) == Cardinality({q \in Terminators(f) : q < p})

\* A spot is a line of a file, or the number of a name in a folder; a place is
\* an option and the spots of the calls that lead to the last of them.
Spot == [kind : {"config", "rules", "folder"}, name : Name, line : Nat]
Places == [option : Nat, calls : Seq(Spot)]

\* The order of places: that of the options, of the lines of one file, and of
\* what the lines have called.
Earlier(c, d) == \E m \in DOMAIN c \cap DOMAIN d : c[m].line < d[m].line /\ \A j \in 1 .. m - 1 : c[j] = d[j]
Before(P, Q) == P.option < Q.option \/ (P.option = Q.option /\ Earlier(P.calls, Q.calls))

\* The statement at a spot, and the section it is in.
StatedAt(x, p) == p \in Starts(x.name) /\ x.line = LinesBefore(x.name, p) + 1
Says(x, l) == \E p \in Starts(x.name) : StatedAt(x, p) /\ disk[x.name][p] = l
SaidIn(x, kind, name) == \E p \in Starts(x.name) : StatedAt(x, p) /\ InSection(x.name, p, kind, name)

\* What the spot x calls.
CallOf == [include |-> "config", routeFile |-> "rules", routeDir |-> "folder"]
LeadsTo(x, y) ==
    \/ /\ x.kind # "folder"
       /\ \E l \in Statement : /\ Says(x, l) /\ l.name = y.name
                               /\ \/ x.kind = "config" /\ l.op \in DOMAIN CallOf /\ y.kind = CallOf[l.op]
                                  \/ x.kind = "rules" /\ l.op = "routeFile" /\ y.kind = "rules"
    \/ x.kind = "folder" /\ y.kind = "rules" /\ x.line \in DOMAIN AsListed(x.name) /\ y.name = AsListed(x.name)[x.line]
\* No chain has a file twice, or more files than MaxDepth.
MayFollow(x, y, n) == x.kind = y.kind => x.name # y.name /\ n < MaxDepth
IsReadable(x) == IF x.kind = "folder" THEN x.name \in DOMAIN Folders ELSE x.name \in DOMAIN disk
IsChain(c) ==
    /\ \A j \in DOMAIN c : IsReadable(c[j]) /\ \A i \in 1 .. j - 1 : MayFollow(c[i], c[j], j - i)
    /\ \A j \in DOMAIN c : j > 1 => LeadsTo(c[j - 1], c[j])
IsPlace(P) ==
    /\ P \in Places /\ P.option \in DOMAIN options /\ IsChain(P.calls)
    /\ P.calls # <<>> => /\ options[P.option].op = "c"
                         /\ P.calls[1].kind = "config" /\ P.calls[1].name = options[P.option].name

\* The section whose line has led to a place.
InSectionOf(c, kind, name) ==
    \A j \in DOMAIN c : c[j].kind = "config" /\ (j < Len(c) => c[j + 1].kind # "config") => SaidIn(c[j], kind, name)
Final(P) == P.calls[Len(P.calls)]
StatementIs(P, l) == P.calls # <<>> /\ Final(P).kind # "folder" /\ Says(Final(P), l)
RulePlaces(proxy) ==
    {P \in Places : /\ IsPlace(P) /\ InSectionOf(P.calls, "proxy", proxy)
                    /\ \E l \in Statement : /\ StatementIs(P, l)
                                            /\ l.op = IF Final(P).kind = "config" THEN "route" ELSE "rule"}

-----------------------------------------------------------------------------
\* The rules of an object stand for places, in their order.

RuleStandsAt(r, P, objs) ==
    /\ r.file = Final(P).name /\ r.line = Final(P).line
    /\ \E l \in Statement : /\ StatementIs(P, l) /\ DOMAIN r.via = Held(l.via)
                            /\ \A t \in Held(l.via) : objs[r.via[t]].name = l.via[t]
StandAt(o, ps, objs) ==
    /\ Len(ps) = Len(o.rules)
    /\ \A k \in 1 .. Len(ps) : ps[k] \in RulePlaces(o.name) /\ RuleStandsAt(o.rules[k], ps[k], objs)
    /\ \A k \in 1 .. Len(ps) : \A j \in 1 .. k - 1 : Before(ps[j], ps[k])

(***************************************************************************)
(* "lines in config files executed sequentially, in the order they appear" *)
(* (readme.md:70), for what the order matters to: the rules of a proxy,    *)
(* tried from the first to the last.  Always, the rules of every object    *)
(* stand for lines of sections of that object, of config files or of files *)
(* of rules they name, in the order those lines are come to, each at most  *)
(* once per way that leads to it.  When the program serves after a start   *)
(* without a message, from files without a quiet line, every such line has *)
(* become a rule, and every proxy with such a line exists                  *)
(* (insert_route_rule, route_rule.c:50).                                   *)
(***************************************************************************)
RulesAsWritten ==
    /\ \A i \in DOMAIN objects : \E ps \in Seq(Places) :
           /\ StandAt(objects[i], ps, objects)
           /\ Serves /\ objects[i].kind = "proxy" =>
                  \A P \in RulePlaces(objects[i].name) : \E k \in 1 .. Len(ps) : ps[k] = P
    /\ Serves => \A name \in Name : RulePlaces(name) # {} =>
                     \E i \in DOMAIN objects : objects[i].kind = "proxy" /\ objects[i].name = name

-----------------------------------------------------------------------------
\* The last of several lines that set the same value holds.

OptionOf == [level |-> "v", file |-> "V"]
SetsAt(P, kind, name, field, value) ==
    \/ /\ P.calls = <<>> /\ kind = "main" /\ name = "default" /\ field \in DOMAIN OptionOf
       /\ options[P.option].op = OptionOf[field] /\ options[P.option].name = value
    \/ /\ P.calls # <<>> /\ Final(P).kind = "config" /\ SaidIn(Final(P), kind, name)
       /\ \E l \in Statement : Says(Final(P), l) /\ l.op = "set" /\ l.field = field /\ l.value = value
SettingPlaces(kind, name, field) == {P \in Places : IsPlace(P) /\ \E value : SetsAt(P, kind, name, field, value)}

(***************************************************************************)
(* "If two or more config lines set the same value, later lines overwrite  *)
(* earlier lines" (readme.md:71).  After a start without a message, from   *)
(* files without a quiet line, a value that lines of config files or       *)
(* options set is that of the last of them, in the order of the options,   *)
(* of the lines of a file, and of what the lines include: however many     *)
(* sections of one name there are, in whichever files, and however often a *)
(* file is included.                                                       *)
(***************************************************************************)
LaterOnesOverwrite ==
    Serves =>
        \A kind \in Kinds, name \in Name, field \in Fields :
            LET S == SettingPlaces(kind, name, field) IN
            S # {} =>
                /\ \E i \in DOMAIN objects : IsCalled(i, kind, name, objects)
                /\ \A i \in DOMAIN objects :
                       IsCalled(i, kind, name, objects) =>
                           \E Q \in S : /\ SetsAt(Q, kind, name, field, objects[i].set[field])
                                        /\ \A P \in S : P = Q \/ Before(P, Q)
=============================================================================

--------------------------- MODULE MCConfigFiles ----------------------------
(***************************************************************************)
(* ConfigFiles for TLC: a small disk on which files include each other,    *)
(* with every short main file; and what a set of files means, by recursion *)
(* on the text instead of a stack, to compare the outcome with.            *)
(***************************************************************************)
EXTENDS ConfigFilesMeaning, SequencesExt

-----------------------------------------------------------------------------
\* The files.

Sec(k, n) == [op |-> "section", kind |-> k, name |-> n]
Put(f, v) == [op |-> "set", field |-> f, value |-> v]
Via(o, v) == [op |-> o, via |-> v]
Read(o, n) == [op |-> o, name |-> n]
Srv(h) == [op |-> "service", host |-> h]
Only(o) == [op |-> o]

\* Each line has its statement and the next of the four kinds of line end.
LineEnds == <<<<LF>>, <<CR, LF>>, <<CR>>, <<LF, CR>>>>
File(lines) == FlattenSeq([k \in DOMAIN lines |-> <<lines[k]>> \o LineEnds[1 + (k % 4)]])
CutShort(lines) == SubSeq(File(lines), 1, Len(File(Front(lines))) + 1)

MainLines ==
    {Sec("proxy", "q"), Sec("ssh", "a"), Sec("proxy", "default"), Sec("log", "log"),
     Put("level", "high"), Put("file", None), Put("file", "log"), Put("size", "low"),
     Via("route", <<"a">>), Via("route", <<"direct", "a", "null">>),
     Read("include", "inc"), Read("include", "main"), Read("routeFile", "r1"), Read("routeDir", "dir"),
     Srv("127.0.0.1"), Srv("elsewhere"), Only("comment")}
Busy == {l \in MainLines : l.op \in {"section", "route", "include", "routeFile"}}
MainFiles ==
    {<<Sec("ssh", "a"), Sec("proxy", "p")>> \o ls :
        ls \in UNION {[1 .. n -> MainLines] : n \in 0 .. 2} \cup [1 .. 3 -> Busy]}

Included ==
    {File(<<Put("level", "low")>>),
     File(<<Sec("main", "default"), Put("level", "low"), Sec("ssh", "a"), Put("port", "low"), Read("include", "main")>>),
     File(<<Sec("proxy", "q"), Via("route", <<"direct">>), Only("unreadable"), Srv("127.0.0.1")>>),
     File(<<Sec("proxy", "q"), Srv("127.0.0.1"), Only("unterminated"), Via("route", <<"direct">>)>>),
     CutShort(<<Sec("log", "default"), Put("size", "high"), Sec("proxy", "p"), Read("routeFile", "r2"), Put("level", "high")>>)}
Second ==
    {File(<<Via("rule", <<"a">>), Read("routeFile", "r1"), Read("routeFile", "r3"), Via("rule", <<>>)>>) \o <<LF, LF>>,
     File(<<Via("rule", <<"direct">>), Only("nonsense")>>)}
First == File(<<Via("rule", <<"null", "a">>), Read("routeFile", "r2"), Via("rule", <<"direct">>)>>)
Third == File(<<Via("rule", <<"socks_proxy">>), Read("routeFile", "r2")>>)

Disk(m, i, r) == [main |-> File(m), inc |-> i, r1 |-> First, r2 |-> r, r3 |-> Third,
                  more |-> File(<<Sec("proxy", "p"), Via("route", <<"direct">>)>>)]
MCDisks == {Disk(m, i, r) : m \in MainFiles, i \in Included, r \in Second}
MCFolders == [dir |-> {"r2", "r1"}]
MCAlphabetical == <<"inc", "main", "more", "r1", "r2", "r3">>
MCNames == {"main", "inc", "more", "r1", "r2", "r3", "dir", "a", "p", "q", "log", "low", "high",
            "default", "direct", "socks_proxy", "null"}

Opt(o, n) == [op |-> o, name |-> n]
MCCommandLines == {<<Opt("v", "low"), Opt("c", "main"), Opt("V", "log"), Opt("c", "more")>>}

-----------------------------------------------------------------------------
\* The meaning.  A last line without a line end is not part of it.

Statements(f) == SelectSeq(disk[f], LAMBDA x : x \notin Break)
Cut(f) == disk[f] # <<>> /\ Last(disk[f]) \notin Break
LineCount(f) == Len(Statements(f)) - (IF Cut(f) THEN 1 ELSE 0)

RECURSIVE Rules(_, _, _, _)
Rules(f, k, section, chain) ==
    IF f \notin DOMAIN disk \/ k > LineCount(f) THEN <<>> ELSE
    LET s == Statements(f)[k]
        here == CASE s.op = "routeFile" ->
                        IF s.name \in chain \/ Cardinality(chain) >= MaxDepth THEN <<>>
                        ELSE Rules(s.name, 1, section, chain \cup {s.name})
                  [] s.op = "rule" -> <<[section |-> section, file |-> f, line |-> k, said |-> s]>>
                  [] OTHER -> <<>>
    IN here \o Rules(f, k + 1, section, chain)
RuleFile(f, section) == Rules(f, 1, section, {f})

RECURSIVE Lines(_, _, _, _)
Lines(f, k, section, chain) ==
    IF f \notin DOMAIN disk \/ k > LineCount(f) THEN <<>> ELSE
    LET s == Statements(f)[k]
        in == IF s.op = "section" THEN <<s.kind, s.name>> ELSE section
        here == CASE s.op = "include" ->
                        IF s.name \in chain \/ Cardinality(chain) >= MaxDepth THEN <<>>
                        ELSE Lines(s.name, 1, <<>>, chain \cup {s.name})
                  [] s.op = "routeFile" -> RuleFile(s.name, in)
                  [] s.op = "routeDir" ->
                        FlattenSeq([i \in DOMAIN Alphabetical |->
                            IF Alphabetical[i] \in Folders[s.name]
                            THEN RuleFile(Alphabetical[i], in) ELSE <<>>])
                  [] OTHER -> <<[section |-> in, file |-> f, line |-> k, said |-> s]>>
    IN here \o Lines(f, k + 1, in, chain)

OfOption(o) ==
    IF o.op = "c" THEN Lines(o.name, 1, <<>>, {o.name})
    ELSE <<[section |-> <<"main", "default">>, file |-> None, line |-> 0,
            said |-> Put(IF o.op = "v" THEN "level" ELSE "file", o.name)]>>
Everything == FlattenSeq([i \in DOMAIN options |-> OfOption(options[i])])

\* What the statements "all" say about the object <<kind, name>> = o.
About(all, o, op) == SelectSeq(all, LAMBDA l : l.section = o /\ l.said.op = op)
RulesFor(all, o) ==
    LET ls == SelectSeq(all, LAMBDA l : l.section = o /\ l.said.op \in {"route", "rule"})
    IN [k \in DOMAIN ls |-> [file |-> ls[k].file, line |-> ls[k].line, via |-> ls[k].said.via]]
ServicesFor(all, o) ==
    LET ls == Reverse(About(all, o, "service")) IN [k \in DOMAIN ls |-> ls[k].said.host]
Mentions(all, o) ==
    {k \in DOMAIN all : \/ all[k].said.op = "section" /\ all[k].section = o
                        \/ all[k].said.op = "set" /\ all[k].said.field = "file" /\ o = <<"log", all[k].said.value>>}
Settings(all, o, field, n) ==
    {k \in 1 .. n : all[k].section = o /\ all[k].said.op = "set" /\ all[k].said.field = field}
Greatest(S) == CHOOSE k \in S : \A j \in S : j <= k
Least(S) == CHOOSE k \in S : \A j \in S : k <= j
LastOf(all, S) == IF S = {} THEN None ELSE all[Greatest(S)].said.value
ValueFor(all, o, field) ==
    LET own == Settings(all, o, field, Len(all)) IN
    IF own # {} \/ o[2] = "default" \/ field \notin Copied[o[1]] \/ Mentions(all, o) = {} THEN LastOf(all, own)
    ELSE LastOf(all, Settings(all, <<o[1], "default">>, field, Least(Mentions(all, o))))

Id(i) == <<objects[i].kind, objects[i].name>>
RulesOf(i) ==
    [k \in DOMAIN objects[i].rules |->
        [file |-> objects[i].rules[k].file, line |-> objects[i].rules[k].line,
         via |-> [t \in DOMAIN objects[i].rules[k].via |-> objects[objects[i].rules[k].via[t]].name]]]
Mean(i, all) ==
    /\ RulesOf(i) = RulesFor(all, Id(i))
    /\ objects[i].services = ServicesFor(all, Id(i))
    /\ \A f \in Fields : objects[i].set[f] = ValueFor(all, Id(i), f)
Origins(rules) == [k \in DOMAIN rules |-> <<rules[k].file, rules[k].line>>]
NoneMissing(all) ==
    \A k \in DOMAIN all : all[k].said.op = "section" /\ all[k].said.name # "default" =>
        Found(objects, all[k].said.kind, all[k].said.name) # {}

RECURSIVE IsWithin(_, _)
IsWithin(s, t) ==
    \/ s = <<>>
    \/ /\ t # <<>>
       /\ IF Head(s) = Head(t) THEN IsWithin(Tail(s), Tail(t)) ELSE IsWithin(s, Tail(t))

AsWritten(all) == NoneMissing(all) /\ \A i \in DOMAIN objects : Mean(i, all)

(***************************************************************************)
(* readme.md:70, "lines in config files executed sequentially, in the      *)
(* order they appear": a program that serves after a start without a       *)
(* message, from files without a quiet line, is configured by all lines of *)
(* all files it was given and of those they include -- every rule, in      *)
(* order and at its own proxy, with the line number the logs will show for *)
(* it, every service, the last value of every setting or else the one the  *)
(* object was created with.  After an error or a quiet line that did not   *)
(* end the program rules may be missing, but none is out of order or at    *)
(* another proxy.                                                          *)
(***************************************************************************)
ConfiguredAsWritten ==
    at = "serving" =>
        LET all == Everything IN
        /\ \A i \in Proxies : IsWithin(Origins(RulesOf(i)), Origins(RulesFor(all, Id(i))))
        /\ Serves => AsWritten(all)
=============================================================================

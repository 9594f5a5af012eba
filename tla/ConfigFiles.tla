---------------------------- MODULE ConfigFiles -----------------------------
(***************************************************************************)
(* How the program becomes what its configuration files say: main() takes  *)
(* the options in their order, config_file_parse and route_rule_file_parse *)
(* read files line by line and call each other and themselves, each line   *)
(* acts on the objects made so far, and server() opens the sockets.        *)
(*                                                                         *)
(* The C stack is here a stack of frames, one for each call that is in the *)
(* middle of a file or of a directory.  A text is a sequence of line       *)
(* breaks and statements: a statement stands for all characters of a line, *)
(* after comments, spaces, quotes and variables have been dealt with.      *)
(***************************************************************************)
EXTENDS Naturals, Sequences

CONSTANTS
    Name,          \* paths as they are written, names of objects ("default" too), values
    Disks,         \* the possible contents of the disk, [file -> text]
    Folders,       \* [directory -> the files in it]
    Alphabetical,  \* the files, in the order of strcmp()
    CommandLines,  \* the possible sequences of options
    MaxDepth,      \* CONFIG_FILENAME_STACK_SIZE, ROUTE_RULE_FILENAME_STACK_SIZE: 200
    MaxVia,        \* the tunnels a rule can hold: 99
    None, CR, LF

Kinds == {"main", "log", "proxy", "ssh"}
Fields == {"level", "file", "size", "port"}

\* What the lines of a section may set, and what a new object of the section's
\* kind gets from the object "default": new_ssh_tunnel() ignores its argument.
Accepted == [main |-> {"level", "file"}, log |-> {"size"},
             proxy |-> {"level", "file"}, ssh |-> {"level", "file", "port"}]
Copied == [main |-> {}, log |-> {"size"}, proxy |-> {"level", "file"}, ssh |-> {}]

Statement ==
    [op : {"include", "routeFile", "routeDir"}, name : Name]
    \cup [op : {"section"}, kind : Kinds, name : Name]
    \cup [op : {"set"}, field : Fields, value : Name \cup {None}]   \* None: not a value
    \cup [op : {"service"}, host : {"127.0.0.1", "elsewhere"}]
    \cup [op : {"route", "rule"}, via : Seq(Name)]    \* "route" <rule>, and <rule>
    \cup [op : {"comment", "unreadable", "unterminated", "nonsense"}]

Break == {CR, LF}
Option == [op : {"c", "v", "V"}, name : Name]

\* The names in a directory, sorted.
AsListed(dir) == SelectSeq(Alphabetical, LAMBDA f : f \in Folders[dir])

ASSUME ConfigAssumption ==
    /\ \A d \in Disks : DOMAIN d \subseteq Name /\ \A f \in DOMAIN d : d[f] \in Seq(Statement \cup Break)
    /\ DOMAIN Folders \subseteq Name
    /\ \A d \in DOMAIN Folders :
           AsListed(d) \in Seq(Name) /\ Folders[d] = {AsListed(d)[i] : i \in DOMAIN AsListed(d)}
    /\ CommandLines \subseteq Seq(Option)
    /\ MaxDepth \in Nat \ {0} /\ MaxVia \in Nat \ {0}
    /\ {"default", "direct", "socks_proxy", "null"} \subseteq Name
    /\ None \notin Name \cup Kinds /\ CR # LF /\ Break \cap (Statement \cup {None}) = {}

VARIABLES
    disk,
    options,    \* the command line
    optind,     \* its option that is next
    stack,      \* the calls, the running one last
    objects,    \* all objects, in the order of their creation
    reported,   \* error() has been called
    lost,       \* history: a text, a tunnel or the whole start has been given up
    at          \* "reading", "serving" or "exited"

vars == <<disk, options, optind, stack, objects, reported, lost, at>>

-----------------------------------------------------------------------------
\* Objects.  The first four are not on any list: main's own settings and the
\* objects that the sections "default" configure.

Templates == <<"main", "log", "proxy", "ssh">>
Template == [main |-> 1, log |-> 2, proxy |-> 3, ssh |-> 4]
Predefined == <<"direct", "socks_proxy", "null">>

Fresh(kind, name) ==
    [kind |-> kind, name |-> name, set |-> [f \in Fields |-> None], rules |-> <<>>, services |-> <<>>]

Init ==
    /\ disk \in Disks /\ options \in CommandLines /\ optind = 1
    /\ stack = <<>> /\ reported = FALSE /\ lost = FALSE /\ at = "reading"
    /\ objects = [i \in 1 .. 4 |-> Fresh(Templates[i], "default")]
                 \o [i \in 1 .. 3 |-> Fresh("ssh", Predefined[i])]

Listed(objs) == 5 .. Len(objs)
Found(objs, kind, name) == {i \in Listed(objs) : objs[i].kind = kind /\ objs[i].name = name}

Uncopied(kind, name) == Fresh(kind, name)    \* mutant: the template is ignored
FromTemplate(kind, name) ==
    [Fresh(kind, name) EXCEPT !.set =
        [f \in Fields |-> IF f \in Copied[kind] THEN objects[Template[kind]].set[f] ELSE None]]

AlwaysNew(kind, name) == Append(objects, FromTemplate(kind, name))   \* mutant: no search
FindOrCreate(kind, name) ==
    IF Found(objects, kind, name) = {} THEN Append(objects, FromTemplate(kind, name)) ELSE objects
Search(objs, kind, name) == CHOOSE i \in Found(objs, kind, name) : TRUE
Place(objs, kind, name) == IF name = "default" THEN Template[kind] ELSE Search(objs, kind, name)

\* A logFilename makes the log file it names, if there is none yet.
WithSetting(i, field, value) ==
    [IF field = "file" THEN FindOrCreate("log", value) ELSE objects
     EXCEPT ![i].set[field] = value]

-----------------------------------------------------------------------------
\* read_line.

\* last: which of the flags cr and lf is set; depth: filename_stack_index.
Frame(kind, name, depth, section, todo) ==
    [kind |-> kind, name |-> name, depth |-> depth, pos |-> 1, last |-> None, line |-> 0,
     section |-> section, todo |-> todo]

Top == stack[Len(stack)]
Callers == SubSeq(stack, 1, Len(stack) - 1)
Text == disk[Top.name]

\* The second half of a two-character line end belongs to the line before.
NoHalf == FALSE                              \* mutant: it ends a line of its own
OtherHalf == Top.pos <= Len(Text) /\ Top.last # None /\ Text[Top.pos] \in Break \ {Top.last}
Begin == IF OtherHalf THEN Top.pos + 1 ELSE Top.pos
Ends == {p \in Begin .. Len(Text) : Text[p] \in Break}
End == CHOOSE p \in Ends : \A q \in Ends : p <= q

Reading == at = "reading" /\ stack # <<>> /\ Top.kind # "folder"
HasLine == Reading /\ Ends # {}
Line == IF End = Begin THEN [op |-> "comment"] ELSE Text[Begin]
After == [Top EXCEPT !.pos = End + 1, !.last = Text[End], !.line = @ + 1]
Unread == stack                              \* mutant: the line is met again
Advanced == [stack EXCEPT ![Len(stack)] = After]

-----------------------------------------------------------------------------
\* Calls and returns of the two parsing functions.

\* The call on top of "callers" has returned 0.  An include goes on without
\* the file; a rule file that reads another one stops, and returns 1; for all
\* others the program exits: after the error "USAGE" if a line of a section
\* has made the call, and without a word if an option has.
Survives(kind, callers) == callers # <<>> /\ (kind = "config" \/ callers[Len(callers)].kind = "rules")
Resumed(kind, callers) ==
    IF kind = "config" THEN callers ELSE SubSeq(callers, 1, Len(callers) - 1)

\* told: the reason has been reported.
Fail(kind, callers, told) ==
    /\ lost' = TRUE
    /\ reported' = (reported \/ told \/ (callers # <<>> /\ ~Survives(kind, callers)))
    /\ IF Survives(kind, callers)
       THEN stack' = Resumed(kind, callers) /\ UNCHANGED at
       ELSE stack' = <<>> /\ at' = "exited"

Call(kind, name, callers, depth, section) ==
    IF name \in DOMAIN disk
    THEN /\ stack' = Append(callers, Frame(kind, name, depth, section, <<>>))
         /\ UNCHANGED <<reported, lost, at>>
    ELSE Fail(kind, callers, TRUE)

\* A failing read, a line that is too long, an open quote and a bad variable
\* are reported, and so is an undefined tunnel; "${" without a "}" is not, nor
\* what is not a rule in a rule file.
AllDefined(via) == \A j \in DOMAIN via : Found(objects, "ssh", via[j]) # {}
Undefined == Top.kind = "rules" /\ Line.op = "rule" /\ ~AllDefined(Line.via)
Unreadable ==
    \/ Line.op \in {"unreadable", "unterminated"}
    \/ Top.kind = "rules" /\ Line.op \notin {"rule", "routeFile", "comment"}
    \/ Undefined
OnlyTunnels == Undefined                     \* mutant: a bad line has no message
IsTold == Line.op = "unreadable" \/ Undefined
ParseFails ==
    /\ HasLine /\ Unreadable
    /\ Fail(Top.kind, Callers, IsTold)
    /\ UNCHANGED <<disk, options, optind, objects>>

\* Whatever follows the last line break has been read, and is not used.
EndOfFile ==
    /\ Reading /\ Ends = {}
    /\ stack' = Callers
    /\ UNCHANGED <<disk, options, optind, objects, reported, lost, at>>

Comment ==
    /\ HasLine /\ Line.op = "comment"
    /\ stack' = Advanced
    /\ UNCHANGED <<disk, options, optind, objects, reported, lost, at>>

\* Files that are being read are not read again; deep nesting is not followed.
Blocked(name) ==
    \/ \E i \in Len(stack) - Top.depth + 1 .. Len(stack) : stack[i].name = name
    \/ Top.depth >= MaxDepth

NoSection == 0
Include ==
    /\ HasLine /\ Line.op = (IF Top.kind = "config" THEN "include" ELSE "routeFile")
    /\ IF Blocked(Line.name)
       THEN stack' = Advanced /\ UNCHANGED <<reported, lost, at>>
       ELSE Call(Top.kind, Line.name, Advanced, Top.depth + 1,
                 IF Top.kind = "config" THEN NoSection ELSE Top.section)
    /\ UNCHANGED <<disk, options, optind, objects>>

-----------------------------------------------------------------------------
\* Lines of a configuration file.  A rule file is read for one proxy, which
\* is its section throughout.

InConfig(op) == HasLine /\ Top.kind = "config" /\ Line.op = op
SectionKind == IF Top.section = 0 THEN None ELSE objects[Top.section].kind

Section ==
    /\ InConfig("section")
    /\ objects' = IF Line.name = "default" THEN objects ELSE FindOrCreate(Line.kind, Line.name)
    /\ stack' = [stack EXCEPT ![Len(stack)] =
                    [After EXCEPT !.section = Place(objects', Line.kind, Line.name)]]
    /\ UNCHANGED <<disk, options, optind, reported, lost, at>>

AnyValue == SectionKind # None /\ Line.field \in Accepted[SectionKind]   \* mutant: empty values too
CanSet == SectionKind # None /\ Line.value # None /\ Line.field \in Accepted[SectionKind]
Set ==
    /\ InConfig("set") /\ CanSet
    /\ objects' = WithSetting(Top.section, Line.field, Line.value)
    /\ stack' = Advanced
    /\ UNCHANGED <<disk, options, optind, reported, lost, at>>

Service ==
    /\ InConfig("service") /\ SectionKind = "proxy"
    /\ objects' = [objects EXCEPT ![Top.section].services = <<Line.host>> \o @]
    /\ stack' = Advanced
    /\ UNCHANGED <<disk, options, optind, reported, lost, at>>

\* parse_route_rule_spec looks the tunnels up at once, and drops those over
\* the limit with an error.
Held(via) == 1 .. (IF Len(via) > MaxVia THEN MaxVia ELSE Len(via))
Tunnels(via) == [j \in Held(via) |-> Search(objects, "ssh", via[j])]
InFront(rules, r) == <<r>> \o rules          \* mutant: as services and tunnels are inserted
AtEnd(rules, r) == Append(rules, r)
Route ==
    /\ HasLine /\ Line.op = (IF Top.kind = "config" THEN "route" ELSE "rule")
    /\ SectionKind = "proxy" /\ AllDefined(Line.via)
    /\ objects' = [objects EXCEPT ![Top.section].rules =
                      AtEnd(@, [file |-> Top.name, line |-> After.line, via |-> Tunnels(Line.via)])]
    /\ stack' = Advanced
    /\ reported' = (reported \/ Len(Line.via) > MaxVia)
    /\ lost' = (lost \/ Len(Line.via) > MaxVia)
    /\ UNCHANGED <<disk, options, optind, at>>

RouteFile ==
    /\ InConfig("routeFile") /\ SectionKind = "proxy"
    /\ Call("rules", Line.name, Advanced, 1, Top.section)
    /\ UNCHANGED <<disk, options, optind, objects>>

\* The directory is read and sorted before its first file is opened.
RouteDir ==
    /\ InConfig("routeDir") /\ SectionKind = "proxy" /\ Line.name \in DOMAIN Folders
    /\ stack' = Append(Advanced, Frame("folder", Line.name, 0, Top.section, AsListed(Line.name)))
    /\ UNCHANGED <<disk, options, optind, objects, reported, lost, at>>

NextInFolder ==
    /\ at = "reading" /\ stack # <<>> /\ Top.kind = "folder"
    /\ IF Top.todo = <<>>
       THEN stack' = Callers /\ UNCHANGED <<reported, lost, at>>
       ELSE Call("rules", Head(Top.todo), [stack EXCEPT ![Len(stack)].todo = Tail(@)],
                 1, Top.section)
    /\ UNCHANGED <<disk, options, optind, objects>>

\* No section is open that takes the line, or its value cannot be used.
Understood ==
    \/ Line.op \in {"comment", "unreadable", "unterminated", "include", "section"}
    \/ Line.op = "set" /\ CanSet
    \/ SectionKind = "proxy" /\ \/ Line.op \in {"service", "routeFile"}
                                \/ Line.op = "route" /\ AllDefined(Line.via)
                                \/ Line.op = "routeDir" /\ Line.name \in DOMAIN Folders
Exits == reported' = TRUE /\ lost' = TRUE /\ stack' = <<>> /\ at' = "exited"
NotUnderstood ==
    /\ HasLine /\ Top.kind = "config" /\ ~Understood
    /\ Exits
    /\ UNCHANGED <<disk, options, optind, objects>>

-----------------------------------------------------------------------------
\* main() and the beginning of server().

Between == at = "reading" /\ stack = <<>>
NextOption(op) ==
    /\ Between /\ optind <= Len(options) /\ options[optind].op = op
    /\ optind' = optind + 1
    /\ UNCHANGED <<disk, options>>

LoadConfig ==
    /\ NextOption("c")
    /\ Call("config", options[optind].name, <<>>, 1, NoSection)
    /\ UNCHANGED objects

SetMain(op, field) ==
    /\ NextOption(op)
    /\ objects' = WithSetting(Template["main"], field, options[optind].name)
    /\ UNCHANGED <<stack, reported, lost, at>>

\* Only the proxies of the list are served, and only on the loopback interface;
\* setrlimit() and bind() may fail.
Proxies == {i \in Listed(objects) : objects[i].kind = "proxy"}
AllLocal == \A i \in Proxies : \A k \in DOMAIN objects[i].services : objects[i].services[k] = "127.0.0.1"
Serve ==
    /\ Between /\ optind > Len(options) /\ AllLocal
    /\ at' = "serving"
    /\ UNCHANGED <<disk, options, optind, stack, objects, reported, lost>>
StartFails ==
    /\ Between /\ optind > Len(options)
    /\ Exits
    /\ UNCHANGED <<disk, options, optind, objects>>

Next ==
    \/ ParseFails \/ EndOfFile \/ Comment \/ Include
    \/ Section \/ Set \/ Service \/ Route \/ RouteFile \/ RouteDir \/ NextInFolder \/ NotUnderstood
    \/ LoadConfig \/ SetMain("v", "level") \/ SetMain("V", "file") \/ Serve \/ StartFails

Spec == Init /\ [][Next]_vars
FairSpec == Spec /\ WF_vars(Next)

-----------------------------------------------------------------------------
Object == [kind : Kinds, name : Name, set : [Fields -> Name \cup {None}],
           rules : Seq([file : Name, line : Nat, via : Seq(Nat)]),
           services : Seq({"127.0.0.1", "elsewhere"})]
Activation == [kind : {"config", "rules", "folder"}, name : Name, depth : Nat, pos : Nat \ {0},
               last : Break \cup {None}, line : Nat, section : Nat, todo : Seq(Name)]
TypeOK ==
    /\ DOMAIN disk \subseteq Name /\ optind \in 1 .. Len(options) + 1
    /\ stack \in Seq(Activation)
    /\ \A i \in DOMAIN stack : stack[i].section \in 0 .. Len(objects)
    /\ objects \in Seq(Object) /\ Len(objects) >= 4
    /\ reported \in BOOLEAN /\ lost \in BOOLEAN /\ at \in {"reading", "serving", "exited"}

(***************************************************************************)
(* config_file.c:691, :588, "no infinite loops for us! I hope": no file is *)
(* opened while the same chain of includes is in the middle of it, however *)
(* files include each other, directly or through others, and the chain     *)
(* stays within filename_stack.                                            *)
(***************************************************************************)
NoReentry ==
    \A i \in DOMAIN stack :
        /\ stack[i].depth <= MaxDepth
        /\ \A j \in i - stack[i].depth + 1 .. i - 1 : stack[j].name # stack[i].name

(***************************************************************************)
(* The same comment, of the program as a whole: whatever files include     *)
(* each other, and however a folder's files read one another, the program  *)
(* comes to the end of its configuration, or gives up.                     *)
(***************************************************************************)
ReadingEnds == <>(at # "reading")

(***************************************************************************)
(* config_file.c:280, log_file.c:171: a section that is opened again, by   *)
(* any file, and a log named by several objects mean one object; so what a *)
(* rule's tunnel points to is what every section of that name configures,  *)
(* also after the rule, and it is on the list the main thread looks after. *)
(***************************************************************************)
OneObjectPerName ==
    /\ \A i, j \in Listed(objects) : objects[i].kind = objects[j].kind /\ objects[i].name = objects[j].name => i = j
    /\ \A i \in DOMAIN objects : \A k \in DOMAIN objects[i].rules :
           \A t \in DOMAIN objects[i].rules[k].via :
               LET o == objects[i].rules[k].via[t]
               IN o \in Listed(objects) /\ objects[o].kind = "ssh"
=============================================================================

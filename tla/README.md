# SmartSOCKSProxy: models, model checks and proofs

SmartSOCKSProxy accepts SOCKS4, SOCKS5, port-forward and HTTP connections, decides by a list of rules
where each of them should go, starts the ssh processes that lead there, and relays the bytes. It is one
process: a main thread that runs a `poll` loop, and one detached thread per client connection.

Everything here is TLA+ translated from the C code in `src/`. TLC checks each model on small instances,
TLAPS proves theorems about some of them for every value of their constants. `PROJECT.json` ties the
definitions to source lines (`map`), lists the runs, the seeded bugs that show that each property can
fail (`mutants`), the disagreements between code and documentation (`findings`), and what is hard to
test in this code (`hazards`).

## 1. Inventory

| Part | State it keeps | Operations | Talks to | What makes it correct |
|---|---|---|---|---|
| Main loop (`server.c`, `thread_msg.c`) | listening sockets, `pollfd`s, its `errno` | poll, accept, launch, sweep, check tunnels, answer JSON requests, rotate logs | everything below | no dead connection is kept, no live one freed; it never stops turning |
| Client connection list (`client_connection.c`) | links, ids, the objects | insert at the head, remove, sweep | main thread only | always the newest-first list of the allocated objects; a walk never meets a freed one |
| Connection threads (`service_thread.c`, `safe_close.c`) | two descriptors, `end_time`, `thread_has_exited` | set-up, shutdown | main loop, by plain fields | the flag is the last thing a thread touches |
| SOCKS service (`service_socks.c`, `socks_connection.c`, `socks5_client.c`) | `socks_*`, `dst_host`, `route`, `tunnel`, `fd_out`, `failure_type` | handshake, attempts over the route's tunnels, answer, relay | rules, tunnel policy, ssh's SOCKS5 port | a grant means a socket; all tunnels are tried; no socket is lost |
| Port forward (`service_port_forward.c`) | fixed destination | attempts, relay | as SOCKS | as SOCKS |
| HTTP service (`service_http.c`, `build_json.c`) | `JSONStatusRequested/Ready/Str` | ask the main thread, wait about 1 s, send, free | main loop, without a lock | each string is freed once, by its owner; a request is answered |
| Shuttle (`shuttle.c`, `safe_blocking_readwrite.c`) | poll snapshot, which sides are open, counters | read, blocking write, end of transmission | both peers | order, no loss except to one that hung up, an end |
| ssh tunnels (`ssh_policy.c`, `ssh_tunnel.c`) | pid, start time, marks | mark, check, fork, `waitpid` | connection threads' `route`, `tunnel` | every child is known; wanted tunnels run; starts are throttled |
| Route rules (`route_rules_engine.c`, `route_rule.c`, `host_id.c`, `dns_util.c`) | rule list, destination, `default_direct` | parse networks and masks, match, rewrite, resolve, decide | SOCKS service, resolver | the first rule that matches the rewritten destination decides |
| Log files (`log_file.c`, `log.c`) | descriptor, byte count, the files on disk | write, open, rotate | all threads; main thread rotates | the files read as one journal, also across restarts |
| Configuration (`config_file.c`, `main_config.c`, `main.c`) | the calls in the middle of a file, open sections, the objects made so far | take an option, read a line, include, open a section, set, add a rule or a service, start | every other part uses its objects | what is lost is reported; who serves has been configured by every line of every file, in order; a name means one object; reading ends |
| Listening sockets (`listen_socket.c`, `service.c`, `proxy_instance.c`) | the services of each proxy | open, at the start | configuration, main loop | only the loopback interface is served |
| Helpers (`string2.c`, `log_level.c`, `thread_local.c`) | - | - | - | - |
| Unit tests (`unit_test*.c`) | - | - | - | - |

What is hard: the main thread frees objects of detached threads that it never joins; objects are shared
by plain fields, some of them without a lock; descriptor numbers are reused across threads; `errno`
outlives the call that set it; ssh processes die at any time; the rotation of the logs runs beside their
writers; and the retry loops depend on which of several codes an attempt leaves behind. The full list is
`hazards` in `PROJECT.json`.

## 2. Modules

| Module | Models | Composes or refines |
|---|---|---|
| `ConnectionPool` | a set of connections with a sweep | abstract; implemented by `ConnectionList` (run and proof) and by `MainLoop` (proof) |
| `ConnectionList` | the linked list and `cleanup_connections`, pointer by pointer | implements `ConnectionPool` |
| `MainLoop` | main loop, connection threads, descriptor table, clock, `errno` | uses the list as a set; implements `ConnectionPool` |
| `TunnelPolicy` | mark and sweep against threads looking for a tunnel, the processes, and the `errno` that decides whether the main thread comes back from `poll` | - |
| `JsonStatus` | the hand-over of status strings | - |
| `Shuttle` | one relay thread and two peers | - |
| `SocksSession` | what a client of the service sees | abstract |
| `SocksConnection` | the thread of a SOCKS connection | implements `SocksSession` |
| `RouteRules` | the networks of the rules, as written and as stored, the walk over the rules, and what is connected to | decides the `route` that `SocksConnection` takes as given |
| `ConfigFiles` | options, files, included files, rule files and folders, the objects they make, the start | compared with a reading of the files by recursion (`MCConfigFiles`) |
| `ConfigFilesMeaning` | what the files say without recursion: statements, sections, files that are reached, places and their order | what the theorems about `ConfigFiles` speak of |
| `DefaultRoute` | threads that race to create the default route, main thread reading it | - |
| `Journal` | the records that are kept and the order in which they are read; the oldest may go | abstract |
| `LogFile` | writers, rotation, restarts | implements `Journal` |

`MC*` modules only give constants; `MCConfigFiles` also says what a set of files means, in recursive
operators that no module with theorems may use. `*Proofs` modules hold theorems; `SocksConnectionProofs` has
those about `RouteRules` too, whose names begin with `Walk` where `SocksConnection` has the same one, and
`TunnelPolicyProofs` those about `DefaultRoute`, which it instantiates as `Race`. Where no
`MC` module is needed, the `.cfg` names the component's module itself. Operators marked "mutant" are the seeded bugs; nothing refers to them.

### How state and actions correspond to the code

* **Main thread.** Each module that contains it splits the loop only where another actor can see a
  difference. `MainLoop` has a step per poll, accept, launch, visited connection; `JsonStatus` has one per
  assignment that the HTTP thread may see; `TunnelPolicy` has one per locked sample of a connection.
* **Shared fields.** `thread_has_exited`, `end_time`, `JSONStatus*` and `default_direct` are plain stores.
  They are taken to become visible in program order: the build uses no optimisation (`Makefile` sets no
  `-O`), and the code targets x86 macOS (`sin_len`). On a machine with weaker ordering the models of
  `MainLoop`, `JsonStatus` and `DefaultRoute` would need more behaviours; this is an assumption of them.
* **Locks.** A section between `lock_client_connection` and `unlock_client_connection`, or inside
  `log_file_mutex`, is one step.
* **Data.** Bytes are numbered (`Shuttle`, `LogFile`), messages are what their reader distinguishes
  (`SocksConnection`), addresses and masks are sets of bits (`RouteRules`), a document is the set of
  connections it lists (`JsonStatus`).
* **Configuration.** The C stack of `config_file_parse`, `route_rule_file_parse` and the loop over a folder is
  the variable `stack`, a frame per call. A text is a sequence of line breaks and statements; a statement stands
  for all characters of its line, a value that cannot be used is `None`. A file is known by its path as it is
  written, as in the code: two paths of one file are two files to the check for recursion.
* **Networks.** `RouteRules` keeps each rule as written (an address alone, with a mask, with the length of a
  prefix) and as stored; its properties speak of what is written.
* **External parts** (`external` in the map): peers, the kernel's buffers, ssh processes, clock.
* **Undefined values.** Uninitialised memory is a choice: `failure_type` in `SocksConnection`, the address
  of a lookup whose first answer is IPv6 and the mask of a prefix of 0 in `RouteRules`, `tunnel[1]` in
  `DefaultRoute`.

## 3. Runs

All bounds are constants of the modules or of the `MC` modules.

| Run | Shows | Bounds, and why they suffice |
|---|---|---|
| `connection_list` | The list is always the heap, newest first (`ListIsHeap`); a sweep frees what was due (`SweepIsComplete`); refinement of `ConnectionPool` | 3 addresses, reused, 5 accepted connections: head, middle, tail and only element are all removed. The invariant, and that no walk meets freed memory (`NoDangling`), are proved without bounds |
| `main_loop` | No object freed under its thread, no foreign or leaked descriptor; dead connections are freed unless the loop is caught in `poll` (`ReapedUnlessCaught`) | 2 connections, 2 descriptors, so that numbers and addresses are reused by the other connection and `accept` and `socket` run out of them; `Loiter` 1 instead of 4 s; forks and launches fail with EAGAIN and ENOMEM |
| `main_loop_eagain` (violation) | After a call that failed with EAGAIN the loop around `poll` never ends, and nothing is reaped | as above, EAGAIN only |
| `tunnel_policy` | Every child is known, no mark without a connection that wants it, two starts of a tunnel at least `Throttle` apart; who keeps asking gets a process for one of its tunnels, unless the main loop is caught in `poll` (`ProcessIsStarted`) | 2 connections, 2 ssh tunnels, a route that names both, and one of them twice; attempts 0..1 try both; `Throttle` 1. Two connections are what it takes for one to withdraw what it asked for while the other one's mark counts; with two tunnels the marking thread may see either being tried, or none, and so mark one or both. 1 pid: while a tunnel's process runs, or has not been collected, forks for the other one fail; all but `ProcessIsStarted` is proved for any number of each |
| `json_status` | Strings live while used; the requester is in its document; who waits is answered | 2 connections, 2 blocks: a block that is freed is reused at once, and a leaked one makes `strdup` fail |
| `json_status_leak` (violation) | A copy made after the thread's last look is lost | as above |
| `shuttle` | Order, no gap, loss only towards a peer that hung up, an orderly end loses nothing and counts what was sent, a shut-down ends the thread | 3 bytes per peer, reads of up to 2, a kernel buffer of 1: short reads, short writes and a full buffer all happen |
| `socks_connection` | A grant means a socket, none is left behind, no early end while ssh comes up, all tunnels tried; refinement of `SocksSession` | six routes over all four kinds of tunnel, attempts 0..3 instead of 0..100 |
| `route_rules` | First match decides; the announced address type fits; host part kept | all lists of up to 3 of 7 rules, which write their networks in all three ways; 2 bits (one of network, one of host), 2 host names, 2 ports: all 10 x 2 destinations against 400 lists |
| `default_walk` (violation) | The main thread follows a pointer that was never set | 3 threads, 2 walks of the main thread |
| `log_file` | The files, read from the oldest to the newest, implement `Journal`; writers follow the name; a full log gets a new file, no rotation closes -1 | 2 old files, size 2, 11 records, 2 restarts, a failing `open` or `write`, with and without the rotation's own debug messages: the chain overflows and is cut by a crash at every place |
| `config_files` | What is lost has been reported, unless a file has a quiet line (`LossesAreTold`); who serves without having reported an error, from files without one, has been configured by every line, in order, with the right line numbers (`ConfiguredAsWritten`); a name means one object; reading ends | main files of up to 4 lines chosen from 17 and of 5 chosen from 8, with all four kinds of line end; 5 files they may include (one includes the main file, one has a line that fails with a message and one a line that fails without, one ends without a line end), 2 sets of rule files that read each other, one of which has a line that is no rule, one folder, a second `-c`, `-v` and `-V` in between. `MaxDepth` 2 instead of 200 and `MaxVia` 2 instead of 99, so that both limits are reached |

Each of the other passing runs checks the type invariant of its module; that of `RouteRules` is proved as well, and those of
`JsonStatus` and `Shuttle` are proved only.

`CHECK_DEADLOCK FALSE` is given for `RouteRules`, `DefaultRoute`, `LogFile` and `ConfigFiles`, whose bounded
behaviours end.

### Fairness

* `ConnectionList`, `MainLoop`: weak fairness of the main thread, whose loop has no exit, and of time.
  Threads need none: properties start from a thread that has exited.
* `TunnelPolicy`: weak fairness of the main thread and of time, and strong fairness of a tunnel's start: a
  fork that is tried again and again succeeds at last. A fork, a thread or a `poll` that fails with EAGAIN may leave
  the main thread caught in `poll` (`server.c:286-288`): there it has no step to take, fairness asks nothing of it,
  and `ProcessIsStarted` names the case as `MainLoop`'s `ReapedUnlessCaught` does. Nothing is assumed of threads, processes and clients;
  `ProcessIsStarted` has its own hypothesis about a connection that keeps asking.
* `JsonStatus`: weak fairness of the main thread, which the request wakes through its pipe. That the
  thread's hundred polls outlast a turn of the loop is a hypothesis of the property, not fairness.
* `Shuttle`: weak fairness of the thread and of peers that read what they are sent. A peer that does not
  read blocks the thread: the code has no timeout, and no property claims otherwise.
* `ConfigFiles`: weak fairness of the program's only thread, which never waits for anything but a file.
* `LogFile`: weak fairness of the rotation, called in every turn of the main loop.

`ConnectionList`, `JsonStatus` and `LogFile` have no `errno`: what they say under fairness holds of a main loop that
is not caught.

## 4. Proofs

All of these hold for every value of the constants that the named assumptions allow. An assumption says what
kind of value a constant is (or, of `Conn` in `MainLoop`, that it is finite), and TLC evaluates each of them. Three
say more. `RouteAssumption` keeps host names,
addresses and the special answers of a lookup apart. `LogFileAssumption` excludes a `byteCountMax` of 0, with
which every turn of the main loop would rotate. `ConfigAssumption` says that `AsListed(d)`, the sorted names of a
folder, has the folder's names and no others: its definition says so, through an operator on sequences that the
provers cannot expand.

| Module | Theorems | Argument |
|---|---|---|
| `ConnectionListProofs` | `TypeCorrect`, `ListIsHeapAlways`, `NeverDangling`, `SweepCompletes`, `Refinement` | Ids grow and new objects go to the front, so "`next` is the object with the largest smaller id" is a statement about single links; with its mirror image for `prev` it is inductive, and no path through the list is ever mentioned. What is due lies at or behind the cursor |
| `MainLoopProofs` | `TypeCorrect`, `ObjectOutlivesThread`, `DescriptorsAlwaysAgree`, `LoiterIsRespected`, `PoolIsImplemented`, `ReapingApproaches` | A visited connection with `thread_has_exited` has an idle thread, so no field of it is between `close()` and -1, so both name descriptors of its own. The invariant adds that the two sides differ and that a stale field is a closed one. As a pool (`ConnectionPool`), the objects are the members, those of threads that have exited for longer than `Loiter` are reclaimable, and no other is ever freed. How far the main thread is from freeing a reclaimable one is a pair of numbers that gets smaller, in lexicographic order, with each of its steps that does not leave it caught in `poll`, and that no other step changes: the safety half of `ReapedUnlessCaught` |
| `TunnelPolicyProofs` | `TypeCorrect`, `NoChildIsForgotten`, `StartsAreThrottled`, `MarksAreEvidence`; of the default route: `DefaultRouteIsCompleted`, `SerialDecisionsAreSafe` | A running or uncollected process is its tunnel's `pid`; `start_time` is the time of the last start. For marks: the tunnel's places in the routes of visited connections are counted. Between a mark and its use a connection may only gain a route, and what `con->tunnel` names has a place in it. Of the default route: a half of what is published is there or owed by a thread that will write it, to whatever is then published (`Owed`), so nothing stays incomplete once nobody is between publishing and filling in; and if threads decided one at a time, as under a lock, the main thread would never walk an incomplete list, which the run `default_walk` shows to happen without one |
| `JsonStatusProofs` | `TypeCorrect`, `StringsStayLive`, `AnswerIsAboutRequester`, `DeliveredStringIsFreed`, `OneHandOver` | A string comes with the flag or just before it, a connection with the flag gets no other, and the list does not change while a document is copied |
| `ShuttleProofs` | `TypeCorrect`, `StreamsStayInOrder`, `NothingIsLostBefore`, `OrderlyEndLosesNothing` | Every byte is unread, in the buffer, written or dropped, and its number is its place in that order (`Stream`). A byte is dropped only when the other side cannot be written to, which never changes back, so what is written has no gap; and a side is closed only when it has nothing left to read (`Knowledge`) |
| `SocksConnectionProofs` | `TypeCorrect`, `GrantsAreHonest`, `NoSocketIsLeft`, `TunnelsAreWaitedFor`, `AllTunnelsAreTried`, `SessionIsKept`; of the rules: `WalkTypeCorrect`, `AddressTypeAlwaysFits`, `HostPartIsKept`, `FirstMatchAlwaysDecides`, `RouteHasTunnel` | The answer is reached only from an attempt that left a socket or used the null tunnel; "Refused" is left behind only by an attempt that got past this host; as attempts go round the route, the k-th has tried its tunnel. The rules (`WalkInv`): each rule behind the walk, as it is written, did not match the destination as it then was, or has no tunnel; each bit that changed is named by the `to` of such a rule; and the address type is set wherever the destination is |
| `ConfigFilesProofs` | `TypeCorrect`, `NeverReentered`, `OneObjectForEachName`, `NestingIsBounded`, `ReadingDescends`, `NothingIsLostQuietly`, `OnlyWhatIsWritten`, `RulesStayInPlace`, `NothingIsMissing`, `LinesAreNumbered`, `RulesAreInOrder`, `LaterLinesOverwrite` | See below |
| `LogFileProofs` | `TypeCorrect`, `RotationIsSafe`, `WritersFollowTheName`, `JournalIsKept` | The count grows only while the log is open and is reset with the descriptor, so a full log is open until the rotation takes its descriptor; an open log is the file of its own name except after the last rename. For the journal, files are numbered as they are created: a nearer name is a newer file (`NewerIsNearer`), no number between the oldest and the newest is missing under the names (`NoFileMissing`), what is open is the newest (`OpenIsNewest`), and a half-done chain has its gap exactly where the rotation is (`RenamedAway`), so whatever a rename overwrites, or a crash leaves behind, is the oldest |

Each safety proof names an inductive invariant (`IInv`), proves that `Init` establishes it and that each
action keeps it -- one lemma per action -- and derives the property.

The configuration has the longest argument, in eight parts.

* *Calls.* A new frame is compared with those of its chain when it is made, and no frame changes its file or its
  depth; a chain never reaches below the stack. So only the new frame has to be looked at (`NeverReentered`).
* *Names.* A new object is compared with all others when it is made, and none changes its kind or name
  (`OneObjectForEachName`).
* *End.* A call comes with a line, or a name in a folder, that its caller will not read again. What is left to
  read at each level of nesting is therefore a tuple of numbers that gets smaller in lexicographic order,
  however much the new level holds (`ReadingDescends`); there are at most `2 * MaxDepth + 1` levels
  (`NestingIsBounded`), and such an order has no infinite descent (lemma `DescentEnds`).
* *Losses.* A call that fails has either called `error()`, or ends at a line of one of two kinds (`IsTold`): a
  `${` without `}` in a configuration file or a rule file, or what is no rule in a rule file. Each frame reads a file
  that the options reach, so such a line is one that `HasQuietLine` sees (`FailureIsTold`, `NothingIsLostQuietly`).
  The three theorems below about completeness are therefore about `Serves`: a start without a message from files
  without a quiet line, of which it follows that nothing has been lost (`NothingIsLost`). The second condition is
  needed: see what section 5 says of `readme.md:70`.
* *Nothing more.* Every object, value, service and rule carries the statement it comes from. The files the
  options reach are the least set that is closed under inclusion, and each frame reads one of them in the right
  section (`OnlyWhatIsWritten`). Steps only add, and rules at the end of their list (`RulesStayInPlace`).
* *Nothing less.* What lies behind the position of each call has been done, and each file that was taken up has
  been read, is on the stack, or is still to come in a folder on the stack (`Progress`). Where a file is not
  read because it is being read, it is on the stack (`Chained`). The limit on the depth, at which the code leaves
  a file out with no more than a warning, is not met: a chain has no file twice, and `NothingMissing` speaks of
  fewer files than `MaxDepth` (`ChainIsShort`). When the stack is empty, all that was reached has been done
  (`NothingIsMissing`).
* *Numbers.* A call has counted the line ends before its position, the second half of a two-character one
  excepted, and the line it stands at is the one that has called the next frame (`Traced`, `LinesAreNumbered`).
* *Order.* The stack is therefore a place in the text: an option, and the lines that have called one another.
  Places are ordered by their options, then by the first line in which they differ. A step moves the present
  place on and never back (`MovesOn`), and of all places that are statements it leaves behind only the one whose
  line it has read (`OnlyItsLinePasses`); that needs `Chained`, as a file that is not read again must be one that
  no place leads through twice. So the rules of a proxy stand for the places of rules behind the present one, in
  their order, and a new one for the present place (`Ordered`, `RulesAreInOrder`); and a value is that of the last
  place behind the present one that sets it, be it a line or an option (`Overwritten`, `LaterLinesOverwrite`).

Only model-checked:

* Liveness and everything under fairness, which is out of the prover's reach: `ReapedUnlessCaught` and
  `ReadingEnds`, of which the descents are proved, `ProcessIsStarted`, `RequestIsServed`, `ShutDownEndsThread`,
  `FullIsRotated`, and the fairness in `ImplementsPool`.
* `ConfiguredAsWritten`, which compares with a reading of the files by recursive operators (`Everything`). Of what
  it says, `OnlyWhatIsWritten`, `NothingIsMissing`, `RulesAreInOrder` and `LaterLinesOverwrite` leave open: the order
  of services and of objects, the value that is copied from a section `default` where nothing else sets it (proved
  is that some line there says it), and files at the limits `MaxDepth` and `MaxVia`, which are reported or cut.
* That `DefaultRoute` goes wrong without a lock: a counterexample, which is no theorem.

## 5. What the violations say

Each of the runs marked "violation" checks a statement the repository makes about itself; `findings` in
`PROJECT.json` quotes it.

* `json_status_leak`: a document copied after the HTTP thread has given up is never freed.
* `default_walk`: `default_direct` is published before its list of tunnels has an end, and the main thread
  may walk it.
* `main_loop_eagain`: a call that left EAGAIN in `errno` stops the main loop for good.

Some statements of comments and documentation differ from the code in a way that reading shows as well as a
run; they are noted here and have no run.

* `client_connection.h:67` says that `tunnel` is "the tunnel we successfully connected to"; it is set before
  the attempt (`socks_connection.c:129`), and the main thread relies on that (`ssh_policy.c:191`).
* `shuttle.c:18` says the result counts bytes "written to fd_write"; drained bytes count too (`:43`).
* `log_file.h:19` says `byte_count` is what was written to the file; after a restart it starts at 0 for a
  file that exists (`log_file.c:123`), which may so grow past the size `readme.md:88` speaks of.
* `route_rules_engine.c:221` says "Using default." of a connection no rule matches; both callers then refuse
  it, as the function returns 0.
* `readme.md:164` says a connection made to a mapped address goes to another one; a SOCKS5 client that sends
  the address in its dotted form as a name is not mapped, as a name is converted after the walk over the rules
  (`socks_connection.c:40`).
* `socks_connection.c:25` (`connect_null`) succeeds without setting `failure_type`, which its caller then sends
  to the client; `GrantIsHonest` allows for it.
* `config_file.c:37` says that `read_line` returns a line together with the end of the file; its callers leave
  their loops (`:575`, `:663`) before they look at that line. `ConfiguredAsWritten` leaves such lines out.
* `main.c:78` says that the default proxy is used where no proxy is configured; only the proxies of the list are
  served (`main.c:186`), so the services and rules of `proxy default` have no effect.
* `readme.md:70` says that the lines of configuration files are executed in the order they appear, and
  `readme.md:122` that `routeFile` reads all rules of a file. A rule file that names one that cannot be read ends
  there and counts as read (`config_file.c:611`), and an `include` that fails is skipped (`:699`): the program serves
  without the rest of the file. Two kinds of line cut a file so without any `error()`: a `${` without `}`
  (`config_file.c:213`), and an unknown keyword in a rule file (`route_rule.c:180`, `config_file.c:616`). They are
  the "quiet lines" of `LossesAreTold`, and the runs' disks have both.
* What `ssh default` sets is copied to no other tunnel (`ssh_tunnel.c:49`), unlike `proxy default` and
  `log default`.
* `service_socks.c:304` (`socks5_respond2`), which has no caller, is not modelled; it would write the port over an
  IPv4 address, as it does not advance its index (`:315`).
* `service_http.c:212` sends "HTTP/1.1 " and `basic_response` sends it again.

Some places rely on sizes that no model here has: the list of a folder's files holds 200 names
(`config_file.c:464`), and the byte behind what was read is set to 0 (`shuttle.c:33`).

## 6. Not modelled

* How a line becomes a statement: comments, spaces, quotes, variables, and the keywords of a route rule and of the
  service specifications. `ConfigFiles` has the outcome: a statement, or a line that cannot be read, with a message or without.
* The HTTP request parser, the static pages, and the text of the JSON document (`build_json.c`): they keep no
  state beyond the hand-over that `JsonStatus` models. Wording of logs, log levels, `ulimit`, `-d` and `-h`.
* The bytes of SOCKS messages (see the plan), IPv6 destinations (refused by the code), user ids of SOCKS4.
* The order of the tunnels within a route in `RouteRules` (it is in `SocksConnection`, `TunnelPolicy` and
  `ConfigFiles`).
* Lock failures, `malloc` failures that end the program, exits of `unexpected_exit` other than the
  rotation's.
* The resolver's endless `EAI_AGAIN` loop, and children forked while another thread holds the log's mutex.
* Helpers on strings and log levels, and the unit tests, which test these helpers.

## 7. Plan

In this order, most important first. Done: everything in section 2.

1. Proofs: the order of the services, and that a new object has the values its `default` section has by then,
   as `Ordered` and `Overwritten` have it for rules and values.
2. `SocksWire`: the framing of replies and requests on both sides of SOCKS4 and SOCKS5
   (`service_socks.c:45-301`, `socks5_client.c:12-128`), as the number of bytes written against the number
   the repository's own client reads, for each address type, with the lengths of names bounded by 2.
3. `Proxy`: the composition of `MainLoop`'s threads with `TunnelPolicy`'s and the `JsonStatus` of several
   services on one list, for the interplay of the loiter time with marks and requests.
4. Extensions: a response's status line and body in `JsonStatus`; aborted connections in `MainLoop`'s accept;
   the keywords of a route rule in `RouteRules`.

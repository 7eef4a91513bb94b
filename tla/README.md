# A TLA+ verification project for VStream

VStream is two C++ programs that stream video through a proxy. **miProxy** sits between the
browsers and a web server, one thread in `select()`, and rewrites the requests for video chunks to
the bitrate that the measured throughput supports. **nameserver** tells a proxy which web server
to use, round robin or by distance on a map. This directory models both programs, checks the
models with TLC, and proves the central facts with TLAPS for every value of the constants.

    tlc -config core.cfg MCMiProxy      # likewise for the other .cfg files, see "Runs"
    tlapm MiProxyProofs.tla             # likewise for the other *Proofs modules

## 1. Inventory of the system

| Component | Code | State it keeps | Operations | Here |
|---|---|---|---|---|
| Event loop and handlers of miProxy | `src/miProxy/miProxy.cpp`, `miProxy.h`, `main.cpp` | `clients` (address -> `Connection`: two sockets, two buffers, the announced length, the kept request `no_list_message`), `readfds`, the log | `run`, `handle_master_connection`, `handle_client_connection`, `handle_request_message`, `handle_server_connection`, `handle_response_message` | `MiProxy`, `Traffic`, `Forwarder` |
| Bitrate adaptation | `miProxy.cpp`: `parse_xml`, `update_throughput`, `parse_bitrate` | `available_bitrates`, `current_throughput`, `current_bitrate`, `chunkname` | those three | `Bitrate`, `Adaptation` |
| DNS lookup protocol | `miProxy.cpp`: `init_dns_socket`, `request_dns`, `handle_dns_*`; `nameserver.cpp` | one connection per proxy, the connection the nameserver is serving | connect, ask, answer, close, log | `Dns`, `DnsMessages`, `OneAnswer` |
| Round robin | `nameserver/utils.cpp` | `index` | `next` | `Dns` |
| Geography | `nameserver/utils.cpp` | the network, a cache of 32 entries | load a file, `findServer` | `NetworkFile`, `Geography`; in `Dns` its result (`Nearest`) |
| Sending and address helpers | `miProxy/helpers.h` | none | `send_all`, `make_*_sockaddr` | `send_all` in `MiProxy`; the others are library calls |
| DNS message encoding | `DNSHeader.h`, `DNSQuestion.h`, `DNSRecord.h` | none | encode, decode | `DnsMessages` |
| Start-up of both programs | constructors, `Info` | the options | parse | constants and initial states |
| Demo echo server; build files, topology, scripts | `miProxy/demo`, `starter_files`, `Makefile`s | | | not modelled |

**How they interact.** A browser connects to miProxy; an address that is new to the map makes the
proxy ask the nameserver *in the middle of its loop* (`request_dns` blocks). The first request of an
entry opens a connection to the web server, which the entry keeps. Requests go one way, responses
the other, each through a buffer of the entry until the message in it is complete. The nameserver
serves one connection at a time and closes it after one answer.

**What is hard in it.**

* *Descriptors.* `readfds` is filled once per iteration and used while handlers close descriptors
  and the kernel hands the numbers out again; descriptors are also leaked (an overwritten
  `client_socket`, the `server_socket` of an erased entry), one for each connection of a browser, until there are none left.
* *The iterator.* `handle_client_connection` erases the entry that the range-`for` of `run()` is at;
  incrementing that iterator is undefined behaviour.
* *Reassembly.* Messages arrive in pieces; length, buffer and kept request must be reset at the right
  moments, and all three survive a close of the web server's connection.
* *The two manifests.* While `no_list_message` is set the next complete response is swallowed.
* *Values used later than read.* The log line is made of `chunkname` and `current_bitrate`, written
  when the chunk was requested.
* *Partial and blocking sends.* `send_all` waits until a browser reads, and with it the whole loop; what is
  left of a response must follow, once and from the right place.
* *Errors.* A reset, a send to a closed end, a missing `Content-Length`, an address that is not found.
* *The lookup.* Either end may be gone between any two of the eight calls; `recv` may return less than was
  sent, and from there on the nameserver takes the rest of one message for the next, text for a size.
* *The servers file.* It may name nodes it does not list, and give a link twice.

**What makes each component correct.** *Event loop:* an entry never holds a closed, foreign or shared
descriptor; the loop never reads from a silent descriptor; a browser only sees its own answers, and
never the manifest with bitrates; every request is answered; the log names the chunk it was written
for; a browser reads its response in order and whole, in whatever pieces it was received and sent. *Adaptation:* the choice is the best bitrate on offer; the average stays in the range of what was
measured. *Geography:* a client is told the nearest server it reaches through no other client, from the
cache as from a search. *Lookup:* the log goes round the servers; a proxy uses the address logged for it, whole when it was read whole; one
connection gives one address or the end of the proxy; lookups end.

`PROJECT.json` lists the components with their status and every hazard at the line where it bites.

## 2. The modules

| Module | What it models |
|---|---|
| `Traffic` | Messages (sequences of units, each the bytes the proxy searches for), `parse_header`, and a TCP socket as the proxy sees it: readable data, written data, close, reset. |
| `Bitrate` | The stream part of a `Connection` and its three member functions as operators; the README's rule (`IsBest`) as the reference definition of the choice. |
| `MiProxy` | The process: EXTENDS the two above. |
| `Forwarder` | What a browser is promised: it asks, and reads one response to its own request, piece by piece. `MiProxy` implements it (`Forwards`). |
| `MCMiProxy` | Values of the constants of `MiProxy` for TLC. |
| `Adaptation`, `MCAdaptation` | One connection seen from its stream: manifests, requests and measurements in any order. |
| `DnsMessages` | Header, question and record: their fields, the bytes they encode to, and what is decoded from the bytes that were read. |
| `Dns`, `MCDns` | Proxies and nameserver, call by call: EXTENDS `DnsMessages`. |
| `OneAnswer` | The abstract promise of a connection to the nameserver, which `Dns` implements. |
| `NetworkFile` | The servers file of the geographic mode, line by line, and the network the constructors make of it. |
| `Geography`, `MCGeography` | `findServer`: its early returns, its loop iteration by iteration, and its cache: EXTENDS `NetworkFile`. |
| `BitrateProofs`, `AdaptationProofs`, `MiProxyProofs`, `MiProxyMessagesProofs`, `MiProxyLockstepProofs`, `GeographyProofs`, `DnsMessagesProofs`, `DnsProofs` | Lemmas and theorems. |

### MiProxy

`pc` follows `run()`: `Select` takes the readable descriptors into `readfds`; `Accept*` is
`handle_master_connection` when a connection waits; then the scan visits the entries in the order of
their keys (`todo` is what it has not come to). **One action is one handler call**, with everything it
calls up to a send that waits: `ClientRequest` reads, appends, connects when there is no connection, keeps the rewritten
manifest request, chooses the bitrate, sends, and clears the buffer. A descriptor counts as ready when
`readfds` holds it, whatever has happened since, and the browser's socket goes before the web server's,
as in the code's `if ... else if`. The environment's actions (browsers: `OpenConnection`,
`SendRequest`, `Receive`, `CloseConnection`; web server: `Respond`, `ServerClose`, `ServerAbort`)
come between any two handler calls.

A response goes to the browser as `send_all` sends it. A browser's connection holds `SendBuffer` units; `ServerForward`
sends what fits, and when something is left the process is in phase `send`, where `SendMore` sends more whenever
the browser has read. Nothing else of the proxy happens meanwhile. Requests are short and the web server reads before it
answers, so that sends to it do not wait.

| Action | Code |
|---|---|
| `Select`, `Skip`, `ScanEnds` | `run` |
| `AcceptKnown`, `AcceptNew`, `AcceptWithoutAddress`, `AcceptFails` | `handle_master_connection`, `request_dns` by its result |
| `ClientGone`, `ClientReset`, `ClientPartial` | `handle_client_connection` |
| `ClientRequest` | the same with `handle_request_message` and `parse_bitrate` |
| `ServerGone`, `ServerReset`, `ServerPartial` | `handle_server_connection`, `parse_header` |
| `ServerManifest`, `ServerForward` | the same with `handle_response_message`, `parse_xml`, `update_throughput`, the first `send` |
| `SendMore` | the further iterations of `send_all` |

*Ends of the process.* Exceptions, `exit(1)` and SIGPIPE all end in a `pc` outside `Phases`, named for
the reason (`Deaths`). `main()` catches `runtime_error` only; the `length_error` of `append(buffer, -1)`
passes it by.

*Undefined behaviour.* Incrementing the erased iterator is a choice: the loop goes on behind the entry
(`advance`, what a red-black tree whose node was just freed usually does), comes back to entries it
has been at (`revisit`), or crashes (`abort`). `available_bitrates[0]` of an empty vector ends the
process in the model.

*Abstractions.* A unit stands for the bytes the proxy searches a message for (request line, empty line,
headers with or without `Content-Length`, body). `BufferSize` is in units, so that every read may stop
between any two of them. Throughputs are in half kbps, so that 1.5 times a bitrate is an integer; the
time of a response is replaced by any throughput of `Measured`, and `server_conn_start` tells which response was
beginning when the clock was read. The bitrate in a rewritten path is the field `br`. `n`, the number of a request, is there for the properties; no code
looks at it.

### Dns

`phase` and `at` are where a proxy is in `request_dns`; `ns` and `nsAt` where the nameserver is in
`handle_connection`. Each `send` and `recv` is a step. A stream carries sizes, headers, questions and records
with their fields, and a `recv` takes all of one or stops at one of the `Cuts`, the places that make a difference to
what is decoded. Checks are where the code has them and nowhere else. The nameserver verifies that the first size
was read whole, and nothing else: it takes what a short read left (`Rest`) for the next message. Text taken for a size is a
number above 2^29, and `receive_all` then writes its zero that far away, which ends the program; a size of zero, or a
question without its name, is answered with a refusal. The proxy verifies both sizes and does not look at the RCODE, so that
it finds out about a refusal by the missing record. It takes the address as it was read, the empty one and the beginning of one
included, and may end at the browser's first request, when it cannot connect to it (`CannotConnect`). The mode `"EMPTY"` is round robin over a file
that names no server: the first question for the domain divides by zero, and the nameserver ends (`NoServers`). Closing a connection that
was not read to its end resets it, and what the proxy has not received may be lost. A send to a proxy that has ended
either gets lost or raises SIGPIPE. Proxies are started at any time (`Connect`), fail to (`StartFails`: the port is taken), and ask
at any later time (`Lookup`). A header of which a part was read leaves fields of the `DNSHeader` undefined; the answer's
header may then have another size, which fits (`MessagesFit`) and which nobody looks at.

### Geography

`findServer` is called for one client after another. A return before the loop is a step (`AskUnknown`,
`AskCached`), so is the set-up of a search (`AskNew`), and so is each iteration: `Visit` marks the node,
erases it from `distMap`, relaxes its neighbours and takes the minimum; `Found` evicts, caches and returns;
`NotReached` leaves the loop with nothing. Ids stand for addresses. The map that `min_element` is applied
to may be empty after the last node was erased: its end is then read, which the model answers with any of
`EndValues`; the loop's condition ends the search before the value is used. The order of an
`unordered_map` is not known, so evicting from its beginning is evicting any entry. `visited` also keeps
the distance at which a node was visited; no guard looks at it, the proofs do.

The network is what a file loads to (`NetworkFile!Loaded`). A line for a node with an id or an address that another line has, or
of an unknown type, ends the program before it serves anybody. Nothing is verified of the lines for links. A node that
only they name is created in the middle of a search, as a `CLIENT`, the first value of `NodeType`: the search does not
go there. Of two lines for the same link the shorter one counts, as neighbours are relaxed once for each. Assumed of the file: it has the lines
it announces, hosts have addresses, costs are not negative (`FilesAssumption`), and sums fit an `int`.

## 3. Runs

All the configurations but `geography` say `CHECK_DEADLOCK FALSE`: `select()` has no timeout, so the proxy
may wait forever once the browsers have no more to do, and either program may have ended.

| Run | States | What it shows |
|---|---|---|
| `core` | 134 thousand | Two browsers stream at the same time (a manifest and two chunks, a manifest and one chunk), every response waits in `send_all`, nothing fails. Answers go to the asker, each request is in exactly one place, the player never sees bitrates, chunks are asked for at the best bitrate, log lines match, nothing ends the process, and **every request is answered** (`Answered`, a liveness property). The refinement `Forwards`: each browser reads the response it asked for, in order, once. |
| `churn` | 676 thousand | Browsers and web server close at any moment and descriptors are reused. `FdOwnership`, `NoBlockingRead`, `NoCrossTalk`. |
| `faults` | 1.07 million | Everything that may fail does, all the outcomes of the erased iterator included; every action of the module fires. `TypeOK`, `FdOwnership` and `NoCrossTalk` hold up to the end of the process. `LeaksLimited`: what leaks is at most a descriptor for each connection a browser has opened. Of a browser that keeps its one connection, whatever the web server does: its request is lost only with the connection it went out on (`LostOnlyWithServer`), what that connection leaves in the entry never meets the next answer (`SteadyAnswers`), and its manifest still comes after the one with the bitrates (`SteadyBitrates`). |
| `adaptation` | 28 thousand | All manifests of one to three bitrates out of {1, 3, 5} in every order, read once or more, four throughputs. |
| `dns` | 853 thousand | Three proxies, two servers, both modes and a file without servers, short reads on the connection of the first proxy, one proxy that may end at any point; the map does not know the third. Includes the refinement `PromiseKept` and the liveness property `LookupsEnd`. |
| `geography` | 366 thousand | Every file with two clients, three nodes that are switches or servers, and lines for any of seven links at cost 1 or 3, each after a longer line for the same link, and with a way of cost 0 through a node that is not listed; a cache of one entry. Files with a duplicate id or address are rejected. Answers are compared with `Routes`, the lengths of all the routes by their number of links. Includes the liveness property `SearchEnds`. |
| `parallel`, `reconnect`, `nolength`, `initial`, `lookups`, `leaving` | | Expected violations, section 6. |

**Bounds, and why they are enough.** Two browsers make the interference between entries; entries do
not interact otherwise. `NumFd` 4 is one descriptor per connection of the two browsers in `core`;
in `churn` it leaves room for a leaked descriptor and for reuse; in `faults`, 3 makes `accept()` and
`socket()` fail. Two requests on a connection are needed for a stale length or buffer to show, three
for a bitrate that was chosen after a measurement. `BufferSize` 2 makes responses of three and four
units arrive in one, two, three or four reads; `SendBuffer` 2 is less than any response, so that every one is sent in parts. The manifest is listed in descending order. `MaxOpen` 1 is one
connection per browser at a time; `parallel` shows what happens with two. In `dns`, three proxies make
two wait behind one, and two servers make the index wrap. `MaxLookups` of two exercises the closed
connection. Two bitrates of `adaptation` are equal in some manifests, and two of the throughputs are
just at and just below what bitrate 3 needs.
In `geography`, the seven links make two ways from a client, a triangle in which the detour at cost 1 + 1 beats the
direct link at cost 3, ties, nodes that are not reached, and a way through the other client that must not be
taken; a cache of one entry makes the second client evict the first.

**Fairness.** `MiProxy!Fairness`: the thread of the proxy keeps running while it can (`WF(Proxy)`: one
thread, scheduled by the kernel, that never waits but in `select`, and in the lookup, which
is answered or ends the process); the web server answers what it was asked (`Respond`), and a
browser reads what it was sent (`Receive`), both being programs outside the repository that the
property assumes to be alive. `Answered` needs this of *every* browser: one that does not read keeps the proxy in `send_all`, and
with it all the others waiting. Nothing obliges a browser to ask or anyone to close. `Dns!Fairness`: the nameserver's thread, the
proxies' calls once they are in a lookup, and their connecting at start-up. It does *not* make a proxy ask, which is why
`LookupsEnd` is conditional: a proxy that is connected and silent holds up everyone behind it.
`Geography!FairSpec`: the loop of `findServer` goes on by itself (`WF(Search)`); nobody is obliged to ask.

## 4. Proofs

All the theorems are checked by `tlapm`; they hold for any number of browsers, descriptors, requests
and faults, from the named assumptions on the constants (`MiProxyAssumption`, `ClientAssumption`,
`BufferAssumption`, `AlphaAssumption`, `AdaptationAssumption`, `GeographyAssumption`, `FilesAssumption`,
`DomainAssumption`, `DnsAssumption`) that TLC evaluates on every run.

* **`MiProxyProofs!TypeCorrect`, `FdOwnershipAlways`** - from the inductive
  `Inv == TypeOK /\ Waits /\ ScansEntries /\ SendsSome /\ FdOwnership`. Ownership alone is not inductive: a handler
  acts on an entry of the scan, so `ScansEntries` (what the scan has not come to is still in the map) has
  to say that this entry exists and owns its descriptors; `Waits` says the same of the connection about
  to be accepted; `SendsSome` says that a send that waits has a descriptor to go on with. The argument is a frame: a handler changes its own entry, the descriptors of that
  entry and free ones (`OnlyEntry`), other entries own neither, so theirs are as before
  (`OthersKept`). Handing out the lowest free descriptor never takes an owned one.
* **`LeaksLimitedAlways`** - on top of `Inv`, which says which entry a descriptor is held for. Every step leaves a browser the descriptors beside its
  connection to the web server, or fewer (`EntryStepBeside`, `Frugal`: a handler takes one only for that connection, and closes the one that was there), but for
  two: one that is accepted was waiting before (`WaitsNoLonger`), and when an entry is erased the descriptor that is closed makes up for the one that
  leaks (`ClientGoneLeaks`).
* **`NoBlockingReadAlways`** - under `"revisit" \notin EraseOutcomes`. The second invariant `Heard` adds
  that between `select` and `accept` everything in `readfds` is readable and not free, so that the
  descriptor `accept` returns is not in `readfds`: that is why a stale bit is harmless. The scan visits each
  entry once, so that only its own handler consumes what was reported. If the iterator may come back, the
  statement is false, and the assumption says so.
* **`MiProxyMessagesProofs!NoCrossTalkAlways`** - what a browser is sent belongs to its own requests, for every
  behaviour of `MiProxy`. A unit reaches a connection by way of the other socket, the buffers of the entry, and `send_all`,
  so that the invariant `Apart` says the same of all of these (`SocketsApart`, `EntriesApart`, `SendingApart`), on top of
  `Inv`: it is `FdOwnership` that makes the two sockets an entry copies between sockets of the same browser. The buffers of an
  entry that is not in the map count as well, and so does what a browser has read of an answer: the browser model asks the next
  question when the answer is complete, and only on a connection that is still open is there anything read.
* **`MiProxyLockstepProofs!AnswersGoToAskerAlways`, `PlayerNeverSeesBitratesAlways`, `ChunkAtBestBitrateAlways`,
  `LogMatchesResponseAlways`, `RequestInOnePlaceAlways`, `LearntBitratesKeptAlways`** - under `Quiet`: a browser has one connection at a time, and nobody but the
  proxy closes one. Browsers, requests, reads of any size, descriptors, responses without a length or not found are not
  limited. `core` is such a run; `parallel` and `reconnect` show that two of the properties are false without it.
  All six follow from one invariant, `QuietInv == Inv /\ Separate /\ SendingOn /\ Lockstep /\ LogMatchesResponse`.
  None of the properties is inductive, because each speaks of one place of a dialogue and a step moves units between two of
  them. `Situation` therefore puts together what each receiver has kept with what is still on its way to it, for all
  four places and the entry, and `Lockstep` says that every dialogue is idle or in one of four states (`AtProxy`, `AtServer`, `OnItsWay`,
  `AtBrowser`): the one request, or its answer, is whole in one place, the others are empty, and the entry remembers what that request
  needs (`Sought`: the kept manifest request, the chunk's name and bitrate, the vector). A partial read or send leaves the
  situation as it is; a complete one moves to the next state. That "complete" is recognised at the right moment is a lemma on
  `parse_header` (`CompleteWhole`). `Separate` (each descriptor in use is that of one entry) and the frame `SameDialogue` keep the other
  dialogues out of it.
* **`ForwardsAlways`** - the refinement, under `Quiet` and `"notFound" \notin Faults`, on top of `QuietInv`: what a browser sees are
  the request and the part read on its one connection (`SeenOnce`), so that `SendRequest` maps to `Ask`, `Receive` to `Hear`,
  and every other step to a stutter (`StepForwards`). A web server that knows no resource may answer a chunk's request with a page
  that still carries its bitrate, which the abstract specification does not allow for; hence the second assumption.
* **`StaysUpAlways`** - under `Smooth`: `Quiet`, no connection refused, nothing not found, an address whenever one is looked up, a
  manifest with a bitrate, two descriptors for each browser, and, in `dns_mode`, one browser (`lookups` shows what a second one
  does). `core` satisfies it, with no descriptor to spare. Each of the ways to end has its reason not to be taken: that `accept()` and `socket()` find a descriptor is the pigeonhole
  principle (`HeldIs`, `FreeLeft`); that a chunk is not asked for without bitrates, and that the message parsed as XML is the
  manifest, follow from `Lockstep`.
* **`AdaptationProofs!ChoosesBestAlways`, `StreamTypeCorrect`** - for every manifest, alpha and sequence of measurements. `IInv`
  adds to `ChoosesBest` that the vector is ascending and holds exactly the bitrates of the manifest once one was read
  (`VectorInv`). `BitrateProofs!ChosenIsBest` is the lemma on the walk: on an ascending vector the supported
  bitrates are a prefix (`WalkIsPrefix`), so that its length is the place of the best one.
* **`AdaptationProofs!AverageInRangeAlways`** - `RangeInv` says of the extremes of what was measured what
  `AverageInRange` needs; the lemma `AverageIsBetween` is the arithmetic of a weighted average.
* **`GeographyProofs!TypeCorrect`, `VisitsInOrderAlways`, `ShortestAnswersAlways`, `AnswersNearestAlways`, `CacheSoundAlways`** - for every network,
  cache size and sequence of questions: an answer is a server reached by a route of the network that enters no other
  client, and no such route to any server is shorter; no answer means that no server is reached.
  `SearchInv` holds during a search: every known distance is that of a real route (`Real`); nodes were visited
  in the order of their distances (`Ordered`); the current node is a nearest one of `distMap` (`AtNearest`); and each
  neighbour of a visited node is visited or in `distMap`, at no more than the distance by way of it (`Frontier`). From
  the frontier follows that a route to an unvisited node is at least as long as the distance of the current
  one (`RoutesAreBounded`). That is an induction over routes, which is done here by a *least counterexample*: the
  lemma `LeastElement` (every non-empty set of naturals has a least element, from the well-foundedness of
  `<`) gives the first place at which a route would break the bound, and `Frontier` contradicts it.
  The first lemma, `NetworksLoaded`, gives what the search needs of a network (types for the nodes, links between listed nodes, costs that are
  numbers) from `FilesAssumption` alone, whatever the lines for links are.
  `AnswersNearest` and `CacheSound` speak of `Routes`, which enumerates the lengths of the routes over at most as many nodes as there are. They
  follow from `ShortestAnswers` by two more arguments: `RoutesAreRoutes` (the enumeration is that of the routes, again by a least
  counterexample), and `ShortRouteExists` (a shortest route is one of them: a route over more nodes than there are
  comes to one of them twice, by the pigeonhole principle, and cutting the detour makes it no longer, since no cost is negative). That the cache
  stays within its size is an invariant of its own (`Bounded`): an entry is removed before one is put into a full cache.
* **`DnsProofs!TypeCorrect`, `LogCyclesAlways`, `UsesLoggedAddressAlways`, `PromiseAlwaysKept`** - for any number of proxies,
  servers and lookups, any short reads, and any proxy that ends anywhere. The invariant `IInv` has a part for each thing that the calls rely
  on. `LinkInv`: who is connected, and that nobody waits twice. `QueryInv`: what is on its way to the
  nameserver is what is left of one query, or the two are out of step (`OutOfStep`) after a short read; without it the nameserver might
  serve a connection twice, and a proxy be given two addresses. `ReplyInv` and `AnswerInv`: what is on its way back is what is left of one answer, which
  names the address that was given, and once the proxy has its address nothing can follow but the rest of a message it cannot
  decode. `LogInv`: `index` is the number of lines modulo the number of servers, plus one while an answer that was counted is
  not logged yet. The refinement maps a step of `RecvRecord` that learns an address to `Learn`, the end of a proxy to `Die`, and everything else to
  a stutter.
* **`DnsMessagesProofs!MessagesFit`** - for all values of their fields, the three messages encode to fewer than
  `MAX_MESSAGE_SIZE` bytes, so that no `receive_all` writes behind its buffer for a size that was read whole, although the nameserver's
  puts its zero at `size + 1`; and a message read whole decodes to the name or address it was made of. What remains is
  the size that was not read whole, which `Dns` models.
* `BitrateProofs` and the first lemmas of `MiProxyProofs` - types of the operators, what sorting keeps, the range of the choice.

**Model-checked only.** `Answered`, `LookupsEnd`, `SearchEnds`: liveness under fairness is beyond the prover. `LostOnlyWithServer`, `SteadyAnswers`,
`SteadyBitrates`: not proved yet (section 8). Every other property of the passing runs is a theorem.

## 5. Mutants

Definitions marked "Mistake" are small plausible bugs: each property is violated when one of them replaces the
definition that follows it (`PROJECT.json`, "mutants"). They are used by nothing else.

## 6. Where the code and its documents part

| Run | Documents | Code |
|---|---|---|
| `parallel` | many concurrent connections from browsers (`README.md:55`) | the second connection of an address takes over the entry of the first (`miProxy.cpp:103`), and gets the answers to its requests |
| `reconnect` | the proxy learns the bitrates from the manifest (`README.md:77`) | they are erased with the browser's connection (`miProxy.cpp:138`); the next chunk reads element 0 of an empty vector |
| `nolength` | any data is forwarded to the browser (`README.md:47`) | a response without `Content-Length` never is (`miProxy.cpp:447`) |
| `initial` | a stream starts at the lowest bitrate (`README.md:71`) | at one and a half times it (`miProxy.cpp:435`) |
| `lookups` | one DNS request for each new client (`README.md:57`) | the connection is closed after the first answer; the second request ends the proxy (`miProxy.cpp:246`) |
| `leaving` | connections are served forever (comment at `nameserver.cpp:87`) | a proxy that ends at the wrong moment ends the nameserver (`nameserver.cpp:122`) |

Line numbers are those of the files under `src/`.

## 7. Not modelled, and why

* What comes after the end of a process. A reset by any peer ends miProxy (`length_error`), and so does a send to a browser that has gone; the model has both
  (`ClientReset`, `ServerReset`, `Deaths`), and no property is left to state of it: `StaysUp` is about runs in which nobody resets.
* Time: a measurement may be any throughput of a set; how two clock readings give it is left out.
* The parsing of HTTP and XML below the units of `Traffic`.
* What the beginning of an address, read instead of the whole, may stand for: whose it is, if anybody's, the programs
  do not say (`Shortened`).
* A servers file that ends before the lines it announces: what is loaded is undefined.
* The composition of `Dns` with the steps of `Geography`: `Dns` uses only the result of `findServer`, which runs in
  the nameserver's one thread without a call in between.
* Several values of `Content-Length`, chunked encodings, pipelined requests: a browser waits for its
  answer before it asks again on a connection.
* Start-up and options, the demo, the build files: no state of the running programs.

## 8. Plan

Done: `Traffic`, `Bitrate`, `MiProxy` with its blocking sends, `Forwarder`, `DnsMessages`, `Dns`, `OneAnswer`, `Adaptation`,
`NetworkFile`, `Geography`, their runs, and the theorems above; the descriptors and buffers of the proxy came first because most of the
hazards are there.

Left to prove: `LostOnlyWithServer`, `SteadyAnswers` and `SteadyBitrates`, which are `RequestInOnePlace`, `AnswersGoToAsker` and
`LearntBitratesKept` for a browser that opens one connection while the web server, and other browsers, do what they like. Their invariant is
`Lockstep` with a further state, lost, in which the entry keeps what it had received.

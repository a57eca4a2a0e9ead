# TLA+ models of the SpringDVS root node

SpringDVS names nodes in a "netspace". A *root node* keeps the table of the
nodes of its geosub network (GSN), answers registration and resolution requests
over UDP (55301) and HTTP (55380), and passes queries on to the nodes of its
table. A library of *activity logs* (hash-chained records under a mutex) is kept
beside it for replication; no program uses it yet. This directory models
both, down to the packets, texts and bytes they exchange, checks the models with
TLC and proves what matters most with TLAPS.

## Inventory

| component | state | operations | hard about it |
|---|---|---|---|
| netspace table `shared/infrastructure/netspace_table.cpp` | vector of nodes | find by host, SUID or address, add, erase, iterate | checks nothing itself; several nodes may share an address, and only the first is found |
| protocol handler `nodes/root/protocol_handler.cpp` | none, works on the table | register, unregister, resolve, listings, hostname, query | uniqueness rests on one `if`; queries wait for other nodes inside the only thread |
| resolution service `nodes/root/resolution_service.cpp` | one receive buffer, one endpoint, one outstanding receive | receive, process, reply, receive again | no receive after an error; a short datagram is read together with what an earlier one left in the buffer; what `process_packet` throws ends the process |
| HTTP service and sessions `nodes/root/http_*.cpp` | acceptor, the socket it fills, one socket per session | accept, one request per session; `send_frame` for queries | one read per request; queries block the only thread, without timeouts; an exception ends the process |
| root node process `nodes/root/entry.cpp` | the table, in memory | start, run the io_service, end on an exception | everything is lost when it ends |
| forge client `clients/forge` | one socket | one request, one blocking receive | UDP loses, doubles, reorders; no timeout |
| netspace URL `shared/infrastructure/netspace_url.cpp` | decoded route, geosub query, resource, query | decode, to_string | hand-written parser |
| metaspace database `shared/infrastructure/metaspace_gsn.cpp` | SQLite handle, mutex | geosub of a postcode or county | statements that are never reset, statements that fail, other writers of the file |
| DVSP packet `shared/protocol/dvsp_packet.*` | header and owned content buffer | construct, copy, set content, serialise, destroy | buffer ownership by hand |
| node list `protocol_common.hpp`, `netnode.cpp` | none | write and read listings | encoder and decoder disagree |
| HTTP frame `shared/protocol/http_frame.cpp` | none | a header text before a packet | layout only |
| activity log and transactions `shared/activity` | mutex, flag, records, header | begin, move and end a transaction; generate, verify and write records and segments | handles that move the duty to unlock; drafts that go stale; writes cut short |
| org, trusted and httpgw nodes, crypto, tests | none | stubs, a call of SHA-512, unit tests | not modelled |

Interaction: `main` makes one table and one database handle and gives both by
reference to the UDP and the HTTP service, which each own a `protocol_handler`;
all callbacks run in the one thread that runs the `io_service`. A handler is thus
atomic for everybody else, with one exception: a query connects to other nodes
and waits for them. The activity log is a library class used by many threads;
its only other users are the unit tests.

What makes each part correct: names in the table are unique and a registration
leaves only by its owner's unregistration or with the process; an answer a client
was given is true, and everybody gets one; the process ends for what is known to end it and nothing else; a query speaks of all nodes that were
asked, and harms nothing but its own time; a log has one transaction at a time,
its header never claims what the log has not, and its records stay a chain; a
packet owns its content alone, and what is written can be read again. The
hazards, each at its line, are in `PROJECT.json`.

## Modules

| module | models | in terms of |
|---|---|---|
| `NetspaceTable` | `netspace_table` | a sequence of node records; an iterator is a position, `end()` the one after the last |
| `RootNode` | `protocol_handler::process_packet` and `main` | one action per handler: `RegisterHost`, `UnregisterHost`, `ResolveGsn`, `LocalGsn`, `RootNodes`, `Hostname`, `UnknownType`; `Crash`, `Restart` |
| `Registry` | the promise of a root node | a set of nodes without clashes and the answer to the last request |
| `GsnService` | `resolution_service` and forge clients over UDP | extends `RootNode`; datagrams are sets, a forge process is a port and a flag |
| `RootProcess` | `entry.cpp`, `resolution_service` and `http_service` with its sessions in one thread | extends `RootNode`; one action per completion of the kernel and per handler; `m_recv` with what is left in it behind a header, `m_remote_ep` and `m_socket` are variables |
| `QueryFanout` | `query`, `query_one`, `query_all`, `http_service::send_frame` | extends `RootNode`; a query is a handler name, an iterator and a socket; the other nodes are the environment |
| `ActivityLog` | `activity_log`, `log_transaction`, segments and records | one action per step between which another thread can look: lock, set the flag, push a record, rehash, ... |
| `AppendOnlyLog` | the promise of one activity log | a chain that grows by one record at a time while somebody holds it |
| `LogWire` | `activity`, `log_segment`: serialise, deserialise | extends `ActivityLog`; a header is one cell, a character another; `msg_size` as the constructors set it |
| `DvspPacket` | `dvsp_packet` | packets, pointers and blocks of a heap |
| `NodeList` | `construct_frame_network`, `nodes_from_string`, `netspace_node(std::string)` | extends `RootNode`; names are spelled with any characters, positions as in the code; a loop is a function from its turns |
| `MetaspaceGsn` | `metaspace_gsn::resolve_gsn` | a call is lock, prepare, step; SQLite (external) is what its locks allow |
| `NetspaceUrl` | `netspace_url`: `decode`, `to_string` | texts as sequences of letters and separators; the parser's loop is a function from the characters read to where it is |
| `GsnResolution` | one url going from node to node by `resolve_gsn` | extends `NetspaceUrl`; what each node knows is open |
| `SequenceLemmas` | | that loops run, and what is put together of pieces; used by the next three |
| `RootNodeProofs`, `ActivityLogProofs`, `GsnResolutionProofs` | | theorems on `RootNode`; on `ActivityLog` and `LogWire`; on `NetspaceUrl` and `GsnResolution` |
| `RootServiceProofs`, `RootProcessProofs` | | theorems on `QueryFanout` and `GsnService`, and on `RootProcess`, from those of `RootNodeProofs` |
| `DvspPacketProofs`, `MetaspaceGsnProofs` | | theorems on the modules they are named after |
| `MC*` | | instances for TLC |

Abstractions. Hostnames, SUIDs and addresses are model values. A registration's
text is cut at its first `|`: without a `|` it is one
name, and is hostname and SUID both, because `npos + 1` wraps to 0. What follows the
first `|` is the SUID, whatever marks it holds. A url is its
decoded route and geosub query in `RootNode`; in `NetspaceUrl` a text is what
follows "spring://", which `decode` skips. In `GsnResolution` the client or
gateway that carries a forwarded request on is external. The type byte is signed and keeps its range.
`route.back()` on the empty vector (a url with one element and no geosub query)
is undefined: the model looks up any name there (`RouteBack`). To `RootNode` the
metaspace database is the constant `Geosub`; `MetaspaceGsn` has the call, with
`Outcode` and `Lower` for what its regular expression and `tolower` make of a
query. A reply is its message type, response code and
the nodes it tells of. Hashes are ideal, so a record is modelled by its ancestry,
the contents from the first record of its log to itself, which is exactly what
its salted hash commits to. The answer of a node to a query is the node's SUID.
An answer that `read_some` returned a part of may be decoded into anything, or
throw; a request of which a session read a part may be taken for any packet of
`Garbled`, or end the process.

In `RootProcess` a request for which `process_packet` throws is the packet `Throwing`
(a malformed url, `netspace_url.cpp:22-24`; an empty packet where content is read,
`dvsp_packet.cpp:42-44`; a registration of a negative length,
`protocol_handler.cpp:55`; a geosub query the database fails for): nothing catches
it, whether it came over UDP or HTTP. A `gsn_request` is the packet `Query`: its handler
keeps the only thread (`busy`) until it returns, with a reply or with an exception that
ends the process; its steps are those of `QueryFanout`. `receive` ignores how many bytes
it got, so a datagram that is nothing but the header of a registration is read with
the frame an earlier datagram left in `m_recv` (`leftover`), whoever sent that, or, if
the bytes there are no registration's, with any (`Garbled`) or none (`Throwing`). Two
lengths of a datagram are told apart: whole, and its header. What becomes of a reply after
`async_send_to` (its buffer is freed when `receive` returns, `resolution_service.cpp:39-45`)
and of one written to a session is not modelled.

In `DvspPacket` `emptied` marks that a packet which had a content was given an
empty one. `reset(0)` then deletes the block and keeps the pointer
(`dvsp_packet.hpp:81-87`), after which nothing can be promised; the properties
are about all behaviours up to there. Where the code empties a packet, in a
query without text, `QueryFanout` has the consequence (`DeleteAgain`).

`NodeList` reads a listing back from its text. The two ends disagree: hostname and SUID
change places, and the entries behind the first are cut at the wrong place. The tests say
what a reader is to get, the order of the fields and every address, so
`ListingIsReadBack` is what the tests say, and the run `listing` shows what the
code does instead. It speaks of tables whose nodes all have a hostname and a SUID.

The exceptions of the project inherit `std::exception` privately, so `main` does
not catch them and the process terminates; other exceptions make `main` return.
The table does not tell the two apart: both are `Crash`.

What `ActivityLog` assumes of callers are constants: `MoveValid` (only valid
transactions are moved; moving an invalid one makes a valid one without a
lock), `KeepLog` (assignment only within one log), `Careful` (the caller asks
`head_verification` about the first record before it writes; nothing in
`write_record` or `write_segment` does). `MCActivityMoves.cfg` drops `KeepLog`. No run
drops the others: without `MoveValid` the move constructor makes a
second valid transaction without the lock (`log_transaction.cpp:14` sets
`m_valid` whatever it was), and without `Careful` the chain forks, which is what
the mutants of `ChainIntact` show. Nothing is assumed of the order in which locks are
taken: `begin_transaction` has none, and the tests lock two logs both ways
(`mocks/activity_log_m.hpp:40-41`, `mod_activity_log.cpp:186-187`). So threads may wait for each
other, or for themselves, for ever; that they do not is not claimed anywhere, and no property
says so.

A record made from a header alone keeps the `msg_size` of that header
(`activity.cpp:7-11`), unless it has a salt; `generate_record` makes the first record of a log
that way (`log_transaction.cpp:103`). In `LogWire` the contents `HeaderOnly` are those of such
records, and `GivenSize` is what the header had.

Operators with "a mistake" in their comment are variants of the definition below
them that a plausible bug would produce. They are used by no specification;
replacing the definition by one of them makes the property listed with it in
`PROJECT.json` fail, which shows that the property depends on that code.

## Runs

| run | cfg | what it shows |
|---|---|---|
| `root_node` | `MCRootNode.cfg` | all requests from two addresses, three names (one empty), two type bytes: types, unique keys, per-address queues, refinement of `Registry` |
| `gsn_retries` | `MCGsnService.cfg` | three users, two of them after one hostname, register, unregister and ask over a network with two faults, each retrying what was lost: what they were told holds, and all get through |
| `root_process` | `MCRootProcess.cfg` | two UDP and two HTTP clients that share two addresses, with two faults: registrations are those that were asked for, what ends the process, refinement of `Registry`, and that HTTP clients are answered even if UDP is deaf, as long as queries return |
| `query_fanout` | `MCQueryFanout.cfg` | queries, with and without a text, of all or one of up to two nodes that answer, refuse or keep silent: complete and ordered answers, registrations untouched, every query ends if nobody keeps silent for ever |
| `activity_log` | `MCActivityLog.cfg` | two threads with two handles each on one log of three records, one failed allocation: exclusive transactions, the flag, the header, the chain, refinement of `AppendOnlyLog`; a segment cut behind any record survives being sent, though the first record of the log may have any `msg_size` |
| `activity_two_logs` | `MCTwoLogs.cfg` | two logs and segments copied between them, locks taken in any order: header, chain and refinement |
| `gsn_resolution` | `MCGsnResolution.cfg` | every text of up to seven characters: all nodes on the way of a url handle one and the same url, and a well-formed url survives decoding and writing |
| `packets` | `MCDvspPacket.cfg` | three packets with contents of three lengths in any order of operations: one owner per block, and the right content |
| `metaspace` | `MCMetaspaceGsn.cfg` | two threads ask for a postcode, a county or nothing while others commit: who holds the mutex, and that calls never stop one another for good |
| `re_registration` | `MCReRegistration.cfg` | violation, see below |
| `activity_moves` | `MCActivityMoves.cfg` | violation, see below |
| `listing` | `MCListing.cfg` | violation, see below |

Bounds and why they are enough. The keys of `RootNode` interact in pairs, so two
nodes with either key equal or different, plus one more, meet all branches;
tables grow to three nodes, so erasing in the middle happens. Two addresses are
the least for which one can disturb the other. In `GsnService` a fault is a lost
or doubled datagram, an end of the process, a receive error, or an interrupt
while a datagram is under way (`MaxFaults`); two of them give every pair, such as
a restart after a lost answer. Two ports let an old datagram be in flight
while its client goes on. Each client registers one text, under an address of
its own; one that registered under two names would keep the second after an
unregister (`FifoPerAddress`), so `UnregisterAnswerHolds` says nothing of it. In `RootProcess` a fault is an error, a short
datagram, a split request or a hang-up; two of them put a hang-up after a deaf
UDP service, or two short datagrams behind registrations of others; a query and a
throwing request are among what the clients ask and need none. Three packets and
four blocks let a copy, its source and a third packet meet with a block left
for a leak to be seen. In `MetaspaceGsn` one county has rows of two geosubs, and
a writer may come between any two steps of a call. In `ActivityLog` a log of three records has a first, a
middle and a last one, two handles are what a move needs, and two contents make
two drafts on the same head differ. `activity_two_logs` has one content and
`MaxFaults` 0, to keep two logs in reach: its logs differ in length only, and writes cut
short are those of `activity_log`. Seven characters make a url with a
three-element route, and one with all four components; two letters tell
parts apart that were swapped. `TLC` uses symmetry only in
`activity_two_logs`, over threads and handles, where nothing is about liveness.
Deadlock is checked except in
`gsn_retries` and `root_process`, whose clients finish, in `gsn_resolution`, as a
resolution ends, in the three runs of `ActivityLog`, whose threads may wait for ever, and
in `packets`, where nothing is defined after a block was
deleted twice.

Fairness. `GsnService`: the event loop runs what is ready (`Serve`), the network
delivers what it has not lost (`Deliver`), a user runs forge again and
interrupts one for which nothing is on its way (`StartForge`, `Interrupt`), and
somebody starts a node that went down (`StartProcess`): weak fairness of
each. No fairness lets a receive error heal, as the code has no way back from
it, and `EveryoneAnswered` is stated for behaviours without one.
`RootProcess`: the kernel completes a receive or an accept it can complete and the
thread, when no query keeps it, runs every handler that is ready, each weakly fair;
clients owe nothing, and nothing makes a query return: that every one does is the premise of
`HttpAnswered`, because one that does not stops the node for everybody
(`http_service.hpp:29`).
`MetaspaceGsn`: a thread that has the mutex takes its next step, and a free mutex goes to
one of those who wait, both weakly fair. `std::mutex` does not promise more, so `CallsGoOn`
does not say that every call gets in.
`QueryFanout`: weak fairness of the query's own next step, that is, the thread
runs, and a node that serves answers or breaks off. A silent node is
not bound to speak; `send_frame` has no timeout, so `QueriesEnd` holds only where
no node keeps silent for ever.

### What is not as documented

* `re_registration`: the test section "Register existing IP"
  (`mod_root_protocol.cpp:52-58`) expects `netspace_error`; `register_host` does
  not look at addresses.
* `activity_moves`: assigning a transaction to one of another log leaves the
  first log transacting and locked for ever, and copies its records over
  the other's; `mod_activity_log.cpp:34-41` says a log without a transaction is
  not transacting.
* `listing`: `construct_frame_network` writes hostname, SUID, address
  (`protocol_common.hpp:125`); the test "Single node" (`mod_free_fn.cpp:20-29`) has the SUID
  first, and so does `netspace_node(std::string)`, which reads the names exchanged. Were that
  mended, a listing of two would still break the property: `nodes_from_string` takes
  the position of a semicolon for a length and the next entry begins with it
  (`protocol_common.hpp:160-161`), so the reader mostly throws.

Two more behaviours a reader should know of are in the models but in no run: a geosub query
without a row resolves to the empty name, under which a node may be registered
(`protocol_handler.cpp:98`; forge sends an empty text when it is run without `--content`); and
a lookup whose statement fails is answered with "" like one without a row
(`metaspace_gsn.cpp:71-74`, `96-99`).

## Proofs

For every value of the constants (under the named assumptions in the modules):

* `RootNodeProofs!TypeCorrect`, `KeysUnique`: the table is well formed and its
  keys are unique. `TypeOK` is inductive. `UniqueKeys` is inductive too: the
  lemmas on `FirstOf` say that a search that ends at `end()` has found that no
  node matches (`FindProperties`), on `EraseNode` that what is left has the
  order it had (`EraseProperties`); so adding after both searches
  (`AddKeepsKeys`) and erasing (`EraseKeepsKeys`) keep keys distinct.
* `RootNodeProofs!RegistryImplemented`: every step maps to one of `Registry` or
  to a stutter under `registered <- Range(table)`. It needs `UniqueKeys`: erasing
  one position takes a node out of the *set* only if no other position
  holds the same one (`EraseFromRange`).
* `RootNodeProofs!AddressesQueue`: `FifoPerAddress` speaks of the order of pairs of
  nodes (`Before`) and of the oldest node of an address (`Oldest`), not of
  positions. It follows from the same invariant: adding puts a node behind all
  others (`AddKeepsOrder`), erasing keeps the order of those that stay
  (`EraseKeepsOrder`, which needs `UniqueKeys` too), and `find_addr`, which returns
  the first match, finds the oldest (`FoundIsOldest`).
* `RootServiceProofs!FanoutTypeCorrect`, `FanoutRegistryImplemented`: the same
  refinement for a node whose queries take many steps. A handler that waits
  has a query as its request and, with an open socket, a node it asks (`FanInv`);
  the lemmas `TableStep`, `KeysStep` and `RegistryStep` of `RootNodeProofs` do the
  rest.
* `RootServiceProofs!QueriesCollect`: `AnswersCollected` is inductive together with
  `FanInv` and with whom the iterator stands at (`AtWhomToAsk`): in a query of the
  network at an http node or at the end, in a query of one node at that node, not
  asked yet, or at the end. `InOrder` relates what was collected to the
  positions it came from; extending both by the next node keeps it
  (`InOrderAppend`) because SUIDs are unique and the next http node is the first
  behind the iterator (`NextHttpIsNext`).
* `RootProcessProofs!ProcessIsRootNode`: the process with both services, their
  shared buffers and all errors implements `RootNode`'s specification, so what is
  proved there holds here; `ProcessRegistryImplemented` is a corollary. It needs
  that what is in `m_recv` when the handler runs is a request, and that the
  address in `m_remote_ep` is that of a client.
* `RootProcessProofs!ProcessTypeCorrect`, `EndsForAReason`, `RegistrationsGenuine`: one
  connection at a time is in the acceptor's socket; what was handled for a client stays
  handled, and only a handled registration, or one of a client in `cut`, adds
  to the table. What is in `m_recv` was sent by whoever is in `m_remote_ep`,
  unless that client sent a short datagram.
* `RootServiceProofs!ServiceIsRootNode`, `ServiceTypeCorrect`: the service with its
  clients and its network implements `RootNode`'s specification, and its
  datagrams, counters and views have their types, for any clients and scripts.
* `RootServiceProofs!RegisterHolds`, `UnregisterHolds`, `HostnameHolds`: what a client
  was told holds. They assume `OwnAddresses`, that no two clients share an
  address: who shares one shares its registrations, and may unregister what the
  other registered; the instance of `gsn_retries` satisfies it. None of the three
  is inductive. The invariant says that a client that has not lost track of a
  datagram has one on its way at most, and waits for its answer on the port it
  came from (`NetInv`), that a reply or a view is from this start of the process or
  an earlier one (`EpochInv`, `ReplyTypes`, `ViewTypes`), that only clients are in
  the table, under their own names (`TableFromClients`), and that what is on its
  way to such a client holds just as what it has seen (`TruthInv`).
* `ActivityLogProofs!TypeCorrect`: types, under any policy of the callers.
* `ActivityLogProofs!TransactionsExclusive`, `FlagFollowsTransactions`: with
  `MoveValid` and `KeepLog`. `OneTransaction` says who holds the mutex but not
  that a thread between two steps of a call has nothing else on that log, so the
  inductive invariant `LockInv` adds: the variable a transaction is made in is
  empty (`SlotFree`), a thread locking or unlocking has no transaction on
  that log (`Apart`), a writer still has its own (`WritersHold`), and the flag is
  up exactly while there is a transaction (`FlagExact`). One lemma for each kind
  of step (`LockMutexStep`, `DestroyStep`, `HandOverStep`, ...) and one for all
  steps that neither lock nor hand over (`QuietStep`). `activity_moves` shows
  that `KeepLog` cannot be left out.
* `ActivityLogProofs!ChainUnbroken`: with `MoveValid`, `KeepLog` and `Careful`.
  `ChainInv` adds to `ChainIntact` that drafts are chains that begin anywhere, and
  that the records a segment has still to push go on from where the log
  ends now. The last holds because the thread has a transaction on the log, so
  by `LockInv` nobody else writes to it (`AloneOnLog`).
* `ActivityLogProofs!LogsAreLedgers`: under the same conditions every log
  implements `AppendOnlyLog`, its holder being the thread with the mutex; a write
  of several steps maps to stutters and one append for each record.
* `ActivityLogProofs!HeadersHonest`: with `MoveValid` and `KeepLog`, whether heads
  are verified or not. `HeaderInv` counts exactly: a record that is pushed and not
  yet counted is missing from the header, a segment counts each record as it
  pushes it, and only a failed allocation leaves the difference for good.
* `ActivityLogProofs!WireKeepsSegments`: a segment cut behind any record is read as it
  was written, with `MoveValid`, `KeepLog` and `Careful`. `SegmentLaid` says that in the bytes every
  record stands where those before it end, whatever the lengths of the contents, and
  `LaidPlaces` that the reader gets to the same places. Both need that `msg_size` is the length of
  the content, which the constructor from a header alone does not ensure: a record in a
  segment has a salt because the log is a chain (`ChainUnbroken`), and only
  the first record has none.
* `GsnResolutionProofs!RoundTrip`: of the urls with a route, one is written as a text that `decode`
  throws on (`netspace_url.cpp:22-24`): that of a single empty element and nothing else, which
  is "spring://". For every other `Decode(ToUrl(u)) = u`: the loop
  over a text of two parts is the loop over the second from where the first left
  it (`ScanConcat`), so each component can be followed by itself. `Typed` and `Unfolds`
  need it: their invariant `UnfoldInv` says what is in the text between two nodes,
  the url that the last one has written, so the next decodes just that.
* `GsnResolutionProofs!WellFormedCopy`, `Copies`: the other way round, for texts of the documented
  form. The invariant of the loop (`Copied`) is that what the url so far would be
  written as, the separator behind it and the part being read are the text so far, and
  that components later than the one being read are empty.
* `DvspPacketProofs!TypeCorrect`, `BlocksOwned`, `ContentCarried`: for any packets,
  contents and heap. Ownership and content are inductive only together, and with
  the fact that a packet without a block was last given nothing
  (`NothingWithoutBlock`).
* `MetaspaceGsnProofs!TypeCorrect`: types, and that the mutex is held for the one call
  that is past it, whichever way calls come out.

The loops of the codecs and of the parser are recursive functions. That such
a function exists, that it is what its recurrence says and that a property goes from
one turn to all are proved in `SequenceLemmas` (`Induction`, `LoopRuns`, `PiecesExist`)
from the least number at which they would fail, which well-foundedness of `<` gives
for any set: no induction theorem with an operator as its parameter is used. Hence
lemmas quantify over sets of numbers and state what they are about through
operators defined beside them (`Pieced`, `Fits`).

Every safety invariant, action property and refinement that a passing run checks is
thus stated by a theorem. What stays with TLC is liveness (`EveryoneAnswered`,
`HttpAnswered`, `QueriesEnd`, `CallsGoOn`) and freedom from deadlock: they are about
fairness and `ENABLED`, which TLAPS does not prove.

The assumptions of the proofs are the `ASSUME`s of the modules, which TLC evaluates
in every run, and the named hypotheses of the theorems (`MoveValid`, `KeepLog`,
`Careful`, `OwnAddresses`). `GsnService` assumes that forge's node type is one a
registration may have and that there is a protocol, a port and a natural number of
faults (`RegistrationAssumption`, `PortsAssumption`, `FaultsAssumption`). `NodeList` assumes
that two names are not spelled alike and that neither the empty address nor the
exception is the address of a node (`SpellingAssumption`, `AddressesAssumption`), on which no
theorem rests. `NetspaceUrl` assumes that separators are no letters (`LettersAssumption`),
`LogWire` that a content is a text, empty for a record that is made from a header
(`CharactersAssumption`), and that a size is a natural number (`SizeAssumption`), `ActivityLog` that there
is a log (`LogsAssumption`).

## Not modelled, and the plan

Left for later: a refinement from `MetaspaceGsn` to the constant `Geosub` of `RootNode`,
under which a database that others write to is one whose answer may change; and one
from `DvspPacket` to the packets that the handlers of `RootNode` take and give.

Not modelled:

* the HTTP frame, a header text put before the bytes of a packet: layout, no state;
* forge's operations that list and query: they send one request and print what
  `content_as` makes of the answer, which no other part depends on;
* how requests read in part become packets byte by byte (`http_to_bin`, the
  constructor of `dvsp_packet` from bytes): any packet may come of them;
* what becomes of a UDP reply after `async_send_to`, whose buffer is freed before a send
  that could not complete at once;
* the org, trusted and httpgw stubs, the SHA-512 of OpenSSL and SQLite (external),
  printing, the test tree and the vendored test header;
* replication: no program brings one log up to date from another yet;
  `activity_two_logs` has the two logs, the segments and the locks it would use.

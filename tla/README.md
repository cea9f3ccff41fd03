# A verification development for avrouter

avrouter is an instant-messaging router: clients connect over TCP, register,
log in and exchange packets, which the router forwards by user name. This
directory holds TLA+ models of its own logic, the TLC configurations that check
them on small instances, and TLAPS proofs of the properties that matter most
for every value of the constants. Every definition is translated from the code
under `src/`; `PROJECT.json` names the lines of each one (`map`), the hazards
each property is for (`hazards`), and the places where the code and its own
comments disagree (`findings`).

## Inventory

| Component | State | Operations | What makes it correct |
|---|---|---|---|
| `io_service_pool` | the services, the cursor `next_io_service_` | `get_io_service`, `run`, `stop` | connections are spread evenly; `run()` returns after every thread has left, and always does after the signal |
| `connection`, `connection_manager` | socket, `m_abort`, one read, the write queue, the set `m_connections` under `m_mutex` | `start`, `stop`, `close`, `stop_all`, read handlers, `write_msg`, `do_write`, `handle_write` | a message written is sent, whole, in order, once; nothing is stranded; no socket and no connection leaks |
| `router_server` | acceptor, handler tables, timer | accept, dispatch, close notification, `stop` | a connection is accepted and started before the shutdown or not at all |
| `forward_moudle` | `m_routing_table` (name -> weak connection), the private `username` | `process_packet`, `connection_notify` | a packet reaches a connection of that name, in order; the table holds exactly the live routes |
| `main`, `terminator` | the order in which services are handed out | start, signal, shutdown | the shutdown leaves nothing open |
| `register_moudle` | a coroutine per request | `availability_check`, `user_register`, `async_send_csr` | what the client is told agrees with the table |
| `database` | `avim_user`, with its primary key | SELECT, INSERT, UPDATE, DELETE | one row per name; survives the process |
| `login_moudle` | `m_log_state`, keyed by connection address; the privates `login_check_key`, `user_cert`, `user_name` | `hello_message`, `login_message`, the timer, `quit` | a connection gets a user's name only for that user's signature of a key it was given; the hello decides whether a login is answered |
| `http_server`, `http_connection` | socket, parser, request, response buffer | accept, headers, body, response, keep-alive | one response per request, no leaked connection |
| `http_helper` | parser state | `request_parser`, `http_form`, header parsers | the request that was sent is the one that is handled |
| `serialization` | none | `create_message`, `encode`, `decode` | `decode` inverts `encode` and gives a message only for bytes that hold one |
| `proto/`: the code protoc generated | a message's fields and unknown fields | parsers, serializers, `ByteSize`, `MergeFrom`, `IsInitialized`, registration by name | what is written is read again, unknown fields included |
| `logging` | the open log files | rotation | the current file is kept, the oldest removed |
| `escape_string`, `utf8`, `internal`, `third_party/`, `root_ca` | none | conversions, vendored code, a constant | not modelled |

How they interact. `main()` builds the pool, takes services from it in a fixed
order (router acceptor, HTTP acceptor, database, login timer, the router's first
connection, the HTTP server's first connection, the signal set), registers the
modules and calls `run()`. Each service is run by one thread. A connection's
handlers run on its service's thread; `do_message` calls the module's handler
inside the read handler; `write_msg` may be called from any thread and posts to
the connection's service. `close()` of a connection takes the manager's mutex
and notifies `forward_moudle` under it. The signal's handler runs `terminator`
on its own service: it closes the acceptor, stops all connections and stops the
services, while the other threads go on. A database call blocks its caller (the
future of `std::async` is dropped) and posts its handler to the database's
service; the CSR coroutine runs on a service of its own. Bytes pass through
`connection`'s two reads, `decode()` and the generated parser of the message
they name; `process_packet` and the modules' replies go back through `encode()`.

What is hard about it: handlers of several threads on the unlocked routing table
and cursor; a connection that is ended by its reader, its writer and
`stop_all()` in any order and more than once; the writer's decision who starts
the next write; an iterator used after its entry was erased; an acceptor racing
the shutdown; login entries that outlive the connection whose address they name,
in an unlocked map; a length that is negative where the code adds to it; parsers
and serializers that must agree on what neither knows; two SQL statements with
other requests between them; a process that dies between a row's INSERT and the
answer; a CA that is silent, refuses, or stops in the middle of a message.

## Modules

| Module | Models | Composes |
|---|---|---|
| `IoServicePool` | `io_service_pool`, the threads, the signal | |
| `MessageStream` | abstract: what `write_msg` promises | |
| `Connection` | `connection`, `connection_manager` | implements `MessageStream` |
| `Router` | `router_server`, `forward_moudle`, `terminator` | extends `Connection` |
| `NameRegistry` | abstract: what `user_register` promises about a name | |
| `Registration` | `register_moudle`, `database`, the CA from outside, crash and restart | implements `NameRegistry` |
| `HttpConnection` | `http_server`, `http_connection`, `availability_check_httpd`, the parser's verdict | |
| `HttpParser` | `request_parser` byte by byte | |
| `HttpGrammar` | reference: what a request is and means, by the positions of the whole text | extends `HttpParser` |
| `Login` | `login_moudle` | |
| `Messages` | the message classes: tables of what their generated functions read, write and keep; wire fields and messages | |
| `WireFormat` | the generated functions over these tables | extends `Messages` |
| `Framing` | `serialization`, the reads of `connection`, a packet's way out again, with their data | extends `Messages`; parsers and serializers are parameters |
| `ClientMessages` | what clients put into their messages, and what is to hold of the generated functions for it | extends `WireFormat` and `Framing` |
| `IoServicePool_proofs`, `Connection_proofs`, `Router_proofs`, `Registration_proofs`, `HttpConnection_proofs`, `HttpParser_proofs`, `Login_proofs`, `ClientMessages_proofs` | the theorems | |
| `MC*` | constants for TLC | |

### IoServicePool

A thread is named after its service; `Main` is the thread of `main()`.
`get_io_service()` is three actions, `Pick`, `Load` and `Store`, because nothing
makes its accesses to `next_io_service_` atomic. `Run`, `Spawn` and `Join` are
`run()` with one action per iteration of its loops, `Stop` and `StopEach` are
`stop()` in the signal's handler, `Exit` is a service's `run()` returning. The
pool is called by `main()` before `run()`, and then by `Callers`: the handlers
of the two acceptors, and of the database when a certificate request needs a
service for its coroutine (`register_moudle.cpp:243`). Their services follow
from the order in which `main()` takes them. `overlaps` counts the calls that
began while another was under way. A pool of one has no thread of its own;
`main` then stands for it.

### Connection

Per connection: the socket, the read operation with its handler (`rd`), the
write operation (`wr`), the posted `do_write` calls and the write queue, and
`wire`, the history of what was sent. Completions of operations
(`ReadCompletes`, `WriteFails`, ...) are actions of the system below; each
handler is one action, except that `do_message` is between `Dispatch` and
`Resume`, since `stop_all()` may run meanwhile. `stop_all()` holds `m_mutex`
over several steps; `start` and `close` wait for it (`MutexFree`). `Close` is
`connection_manager::stop`, which also stops a connection it no longer holds.
A failed write leaves the queue as it is, as the code does.

### Router

`Router` extends `Connection` and adds the routing table, the name stored in
the connection, and per thread the place in `process_packet` with its locals.
Every access to `m_routing_table` is a step of its own, so that two threads
interleave in it; a handler of a connection waits until its thread is idle
(`Idle`). `CloseHandler` is any handler that ends in `close()`, together with
the notification.

Undefined behaviour is a choice over its outcomes. Two threads in the table at
once, one of them changing it (`Race`, `CloseRace`), may end the process
(`Crash`), make a lookup miss an entry, or lose any entries, those being made
or erased among them (`Enter`, `Notify`). `lock()` through `end()` comes back
empty (`Miss`) or ends the process. An iterator remembers its node (`node`) and
whether that was erased (`freed`); through an erased one `lock()` may besides
find the connection the memory held last (`Forward`), and that is the old one or,
once an `insert` has been given the memory, another that never had the name.

The packets carry their sender and number so that order and duplication can be
told. `claims` and `sole` are the names a connection has used and the ones it
had for itself when it used them last. `raced`, `astray` and `late` record what
the code cannot prevent: a race in the table, a packet whose iterator's node was
used again, an acceptor closed behind `is_open()`. The properties say exactly
how far these spoil what holds otherwise. The
replies of the other modules, which go through the same `write_msg`, are
left out here: `Connection` covers arbitrary writers.

### Registration

`table` is `avim_user` and outlives the process. `at` follows a request through
`user_register`, the two statements of `register_user`, the coroutine and its
end; `ca` holds the handler calls the coroutine has posted, `answer` the reply
bound to a database call in progress. A statement may always fail. The CA is
external: it accepts, refuses, is silent, or stops. `Crash` is the process
being killed or the exception of a CA that cannot be reached, which nothing
catches. A message with an empty name (`Named`) is dropped by both handlers
without a reply.

`NameRegistry` is what all of that amounts to for a client: a name has one
holder or none, its holder may be told that it is registered (`Promise`, once
pending and once with the certificate), a request that was told nothing may be
refused, and a name is given back only before that. `Registry` in `Registration` maps the holder of a name to its row's
request and what a request was told to the word of the replies it was sent.

### HttpConnection

Per connection: the read and its handler, what the read delivered, the request
in `m_http_request`, whether the parser has accepted one before, and of the
response the calls of `write_response` the database's thread still has to make
(`owed`), the writes in progress and the `handle_write_http` calls to come. A
request is a record of what the handlers look at. `Parses` is the parser's
verdict: fresh, it accepts requests; after one, it is at the final line feed
for ever, where it takes a line feed for a second copy of the request it has.
A `content_length` without its header has no value: every outcome of the
comparisons is a behaviour. `http_server::stop()` has no caller in `src/`, so
nothing stops these connections from outside.

### HttpParser

The state machine of `consume()` is the table `Steps` (from, bytes, to, where
the byte is pushed); `MayTake` adds its one condition on the request. Bytes are
the classes the parser tells apart. `text` is what was consumed since `parse()`
was called; `Arriving` stops where `async_read_until` does and adds the 0 that
`handle_read_headers` puts after the bytes. `ParseAgain` is the next read of a
kept connection. The table has no step into `uri_start`, as in the code, so an
empty URI is accepted.

`HttpGrammar` says the same of whole texts, by their positions and without any
state: where lines begin, what makes one a request line, a header or a
continuation (`IsRequest`), and which positions hold the method, the uri, and
the name and value of each header; `Means` says that the parts of a request
spell what stands there. It has its own sets of bytes; the parser's must turn
out to be the same. `Requests` are texts of the grammar whose beginnings the
parser must not refuse: any set of them in the theorem, 1464 small ones in
the run.

`ReadsTheNextRequest` says that a kept connection's next request is read, too:
behind an accepted request the parser refuses no byte a request goes on with,
but for the line feed at which it would accept. It does not hold, since nothing
resets the parser.

The parser is not put into `HttpConnection`: what that module assumes of it in
`Parses` is `EndsAtBlankLine` (a read is one whole request or none) and the
lemma `SpentParser` (after one, a line feed and nothing else).

### Login

A connection object is allocated at an address, which a later one can have
again; `logState` is `m_log_state` by address, the privates are kept by
connection. A thread's handler is in the map (`Index` for `operator[]`, `Find`
for `find`) or behind it (`Greet`, `Check`), so that two threads meet in it;
a lookup that meets an insertion may find nothing, take what it finds, or end
the process. `replies` tells an answer, a refusal and a login that nothing
answers apart. Diffie-Hellman, X.509 and RSA are external: a certificate is a
name, the holder of the key in it and whether the root CA issued it; a signature
is a signer and a key. What ends the process is named after its cause:
`NullPointer` (a certificate that does not parse, used all the same), `BadCast`
(no `login_check_key` at an address that has an entry), `LengthError`.
`Success` is the conjunction of the code's two verdicts, the certificate's and
the signature's. One of the keys is `EmptyKey`: a client chooses the group, and in
one where the public key is 0 it is written as no bytes. `NothingSigned`, a
proof that decrypts to the empty string, equals it. `Quit` is `terminator` calling `login.quit()`; handlers of other
threads go on until the services stop.

### Messages, WireFormat, Framing

A generated class repeats its fields in independent places: the switch of the
parser, the serializers, and `ByteSize`, `MergeFrom` and `IsInitialized`.
`Messages` has a table for each (`x_reads`, `x_writes`, `x_keeps`), read off
the class, and `WireFormat` has one operator per function over any table. Wire
fields are the tokens: a tag with a number, the fields of a message, or an
opaque string. A parser keeps an unknown field, ends at a group's end, and
fails at a field cut off.

A message holds messages, and a function of its class calls the same function of
theirs. `WireFormat` has these calls as parameters (`EmbeddedRead` and so on),
because a definition that calls itself could not be proved about; `MCWire.cfg`
binds each to the function it stands for, `EmbeddedRead` through `MCRead` to
`MergePartialFromCodedStream`, which ties the knot. What the tables of one class
have to agree on is `TablesAssumption`, checked by TLC: one tag, one reader and one
writer per field, the same field's, counted and merged like it; and classes that
embed others in three levels at most, so that the calls come to an end.

`Framing` does not depend on them: `ParseFromArray`, `MessageIn` and
`SerializeToArray` are parameters, and so is what clients put into messages.
What is said of it holds for any generated code; `ClientMessages` has the
clients' messages (`Minimal`, `Addable`), and the `wire` run binds the
parameters to them and to `WireFormat`. `stream` is everything the client has
sent and `place` how much of it was read; a frame in the history `frames` says
where it begins.

There a client composes a frame of some message, field by field
(`Begin`, `AddField`), takes `MaxOdd` liberties with it (a field left out, an
unknown one, a number no enum has, a length or a name that is false) and sends
it; `HandleReadHeader` and `HandleReadBody` are `connection`'s handlers, whose
end is `decode` and `do_message`; an `avpacket` goes through `Relay`, which is
`process_packet` with the time to live counted down in the message itself.
`packet_length` is signed, as in the code. Lengths count tokens, not bytes.

## Runs

| Run | Instance | Shows |
|---|---|---|
| `pool` | 3 services, each with a caller, the signal on the first acceptor's, each given at most 3 times | `BalancedUpToOverlaps`, `QuietAfterRun`, `StopEndsRun` |
| `pool_race` | the same | `Balanced` is violated: two callers at once get one service |
| `connection` | 2 connections, 2 messages, at most 2 and 1 written | `NoStalledQueue`, `NoSocketLeak`, `ClosedIsReleased`, `WrittenIsSent`, `ImplementsStream` |
| `router` | a pool of 4: 2 connections on 2 threads, the signal on a third; 2 names that either may use, 2 packets, TTL 1 and 2 | `DeliveredToClaimant`, `InOrder`, `ClosedNotRouted`, `SoleClaimantRouted`, `StoppedMeansClosed` |
| `router_second_close` | one thread, 3 packets | `RouteUntilClose` is violated: the second close takes the successor's route |
| `registration` | 3 requests, 2 of one name, 1 without a name | `WorksOnOwnRow`, `ToldMeansStored`, `RowHasClient`, `EndsAnswered`, `ImplementsRegistry` |
| `registration_stall` | 2 requests of one name | `PollingEnds` is violated: the read of the certificate has no limit |
| `http` | 1 connection, 3 headers of every shape | `Attended`, `AnsweredBeforeClose`, `ClosedIsReleased`, `ServedIsAnswered` |
| `parser` | bytes of 12 classes, 3 repetitions or header lines, 2 reads | `BackIsThere`, `EndsAtBlankLine`, `ReadsTheRequest`, `RefusesNoRequest` |
| `parser_next` | bytes of 12 classes, 1 repetition or header line, 2 reads | `ReadsTheNextRequest` is violated: the second request's first byte is refused |
| `wire` | every message class, 2 packets, 2 liberties | `RoundTrip`, `MergeIsConcatenation`, `HandedIsSent`, `RelayedAsSent` |
| `login` | 3 connections at 2 addresses on 2 threads, 2 users, 3 keys, one of them empty, 3 messages | `NameIsProved`, `GreetingDecides` |

The passing runs but `wire` also check their module's type invariant. The runs
with a violated property state what a comment of the code says; `PROJECT.json`
quotes it under `findings`.

Where the code does less than one would wish, the property of the passing run
says how much it does, and names the exception:

- `BalancedUpToOverlaps`: a call of the pool that meets another sets two services
  at most two connections further apart; calls that meet no other keep the turns.
- `DeliveredToClaimant`: a packet reaches only a connection that has used the
  destination's name, except through an iterator whose node was erased and used
  again for another entry.
- `ClosedNotRouted`: what a closed connection leaves in the table is entries under
  names it sent before its last one, which `connection_notify` does not know any
  more, or what a race left there.
- `SoleClaimantRouted`: a client with a name of its own is reachable under it, also
  when it connects again and its old connection is gone, until two threads have met
  in the table. One that sends while the old connection's entry is still there
  is not entered.
- `StoppedMeansClosed`: one connection can be open when the services stop, the one
  whose `handle_accept` had looked at `is_open()` when `stop()`, on another
  thread, closed the acceptor: on pools of 4, 5, 7 and more services, 8 among them.
- `NameIsProved`: a name is given for the user's signature of a key of the
  connection, or for nothing if the key is empty. The comment at
  `login_moudle.cpp:103` takes the comparison for a proof without that case.
- `EndsAnswered`: a registration that ends is answered, unless its name is empty.

In every one of these runs the exception occurs: without it the property fails.
Two more things the code does are in the models and are told apart by no
property: `find()` returning `end()` is dereferenced before it is compared, with
the end of the process as one outcome (`Crash` of `Router`); and a certificate
that comes in time is followed by a second reply that it is pending
(`PollEnds` of `Registration`, which `TypeOK` and `ImplementsRegistry` admit in
that order only).

`wire` reads as follows. `RoundTrip`: a class's parser takes exactly the bytes
that make one of its messages, by the fields its serializer writes, and what a
serializer writes, the parser of the same class reads as the same message, in
`ByteSize` bytes. `HandedIsSent`: as long as lengths are true and within the
reader's limit, `do_message` is given the messages sent, in order, up to the
first frame that holds none and nothing after it; only a negative length can
hang the reader or end the process. `RelayedAsSent`: what `process_packet`
writes for a packet decodes to that packet with its time to live one less,
unknown fields included, and for any other message it writes nothing.
`MergeIsConcatenation`: `MergeFrom` is the parser reading both texts in a row.

Bounds. `MaxGiven` (pool) lets the cursor wrap twice, and three services are
enough for both acceptors and the database to have a thread each. `MaxMsgs` (connection)
bounds what is written on each connection: two messages make a queue with one
in flight and one waiting, with the third state (empty) between; the second
connection is there for `stop_all()` and the mutex. `MaxPackets` (router) is
two: two handlers in the table at once, one client that uses two names, or one
that comes back under its name; whatever entry such a packet is to find can be
its own or the other's, and closes need no packet. The pool of four is the
smallest in which the signal, the acceptor and the second connection have a
thread each. Three requests give two that race for a name and one that has
none; how requests of two names keep apart is left to the theorems, which hold
for any number of either.
`MaxInputs` (http) is three: a request, its successor, and a third with two
responses on their way; HTTP connections share nothing but the acceptor, so one
is enough.
`MaxBudget` (parser) bounds the bytes beyond the shortest request: three are
enough for a header, a byte of its value and a continuation, or for two headers.
`Requests` (parser) has every combination of small methods, uris, versions and
up to two header lines. `MaxFrames` (wire) is two, and only after an `avpacket` or a `csr_pendding`
(`Chained`): a second frame is there to tell whether the first left the reader
at its place, which the class of the first does not change. `MaxOdd` is two, so
that one liberty can hide another. `Nums` holds a number every enum has and one
no enum has; `Word` is 8 for 2^32 and `Limit` 12 tokens for 64 KiB, which a false
length exceeds.
`MaxMessages` (login) is three: a hello and a login on one connection and a
message of another, on the other thread or at the same address later. The run is
symmetric in addresses, users and keys; it checks no liveness.
The names of the router run are symmetric; it checks no liveness.

Deadlock is checked in every passing run: each specification ends in an
explicit stuttering action (`Finished`, `Done`, `Over`) that is enabled only
when the program really is over; `Registration` never is, since the process
can always be started again.

Fairness. Weak fairness of every thread's handlers and of the loops of `run()`
and `stop()`: the operating system runs every thread, and no handler blocks
for ever. Operations on a closed socket complete with an error, which
Boost.Asio guarantees. Nothing is assumed of a peer, except in
`WrittenIsSent`, whose premise `PeerReads` says that the peer of every
connection reads. Nothing is assumed of the signal, of new connections, or of
the CA.

## Theorems

The proofs hold for every number of services, connections, messages, requests,
users, bytes and frames, with the named assumptions of the modules
(`PoolAssumption`, `MaxMsgsAssumption`, `RegistrationAssumption`,
`ParserAssumption`, `GrammarAssumption`, `RouterAssumption`, `HttpAssumption`,
`LoginAssumption`, `CertAssumption`, `FramingAssumption`, `WordAssumption`,
`TablesAssumption`, `NamesAssumption`, `PacketAssumption`), which TLC evaluates
in the runs. Every safety invariant the runs check is proved, and both
refinements.

`IoServicePool_proofs`. `PoolTypeOK` is inductive as it stands: `% PoolSize`
keeps the cursor in range whatever the callers do. `RunReturnsLast`
(`QuietAfterRun`) needs what the loops have established so far
(`LifecycleInvariant`): before index `k` every thread is born, or joined; a
thread that has exited is in no handler; and a service is stopped only by a
`stop()` that still runs on the signal's thread or has ended. `RoundRobin`
(`BalancedUpToOverlaps`) is for any pool and whatever calls it. A service's
`Level` is how often it was given, less one before the cursor. As long as no call
under way has moved the cursor (`Gathered`), all of them were given the service
it points at; once one has (`Scattered`), each of the others may make it jump
once, to wherever it was when that call loaded it.

`Connection_proofs`. `NoStalledQueue` and `NoSocketLeak` are inductive together
with the type invariant and `Fresh` (a connection that was never accepted has
no operation and holds nothing): `IInv`. The lemmas go invariant by invariant,
one step per action. Fairness plays no part.

The same module has the refinement. `ConnectionImplementsStream` maps `pending` to the messages
accepted and not sent, `delivered` to `wire` and `broken` to the connections
that were stopped or have a failed write. A posted message moving to the queue
and a sent one being popped are stutters; the completion of a write is
`Deliver`, for which `IInv` gives the message in front.

`Registration_proofs`. `WorksOnOwnRow` and `ToldMeansStored` are
inductive with what the handlers still have to say: `InOrder` (an answer bound
to a database call comes after the first call the coroutine posted), `Unspoken`
(nothing was told that it would contradict) and `SuccessStored` (a SUCCEED to
come is true). The argument is per request (`Sound`): a step of one request
touches another's row only if it owns the row of the same name, which the
primary key excludes. `RowHasClient` adds `Accounted`: a row's request works for
it, was lost, or has answered.

`RegistrationImplementsRegistry` shows every step to be one of `NameRegistry` or
a stutter: the INSERT is `Claim`, the DELETE `GiveBack`, the answers `Promise` and
`Refuse`, and the coroutine, the CA and a crash change nothing there. The same
invariant has what the abstract guards ask: a success is told to the owner of
the row only, a refusal to a request that was told nothing before, and a DELETE
only meets a row whose request has not been told that it is registered.

`HttpParser_proofs`. `StepShape` reads off the table what the argument needs:
only a line feed leads to `header_line_start`, only a carriage return to the
newline states, and neither byte anywhere else. So the state says where in an
end of line the bytes stop (`Ending`), which decides `AtBlankLine` after every
byte; a byte is pushed to a header only in the states behind a header's first
byte, or behind a blank that `MayTake` checks.

The parser against the grammar is the larger half of that module. The grammar
speaks of whole texts and the parser never looks back, so the invariant has to
say what the state remembers of the text: `Shape` (every line before the last
is a whole one, and the last is, state by state, so much of a request line, a
header or a continuation), `Spaces` (how many spaces the request line has had)
and `Colons` (the last header has its colon, and the space behind it, exactly in
the states behind them). The `Agree` lemmas carry what was true of a text over
to a longer one; what is left of a step is its last byte.
`ParserRefusesNoRequest` follows from `Shape`: whatever byte a request goes on
with behind such a text, the table has a step for it in that state
(`RequestGoesOn`), and where the step asks for a header, for a continuation, the
grammar has asked for one too.
`ParserReadsTheRequest` needs `Means` at every byte: a byte is pushed to the one
part whose positions it joins (`MeansOn`), and it comes last there because its
rank is the number of positions up to it (`RanksGrow`, `SpellsOn`). Deciding the
uri's positions takes `Spaces`, deciding a value's takes `Colons`.

`Router_proofs`. These theorems hold for any pool, any `ThreadOf`, any names the
clients use and every race in the table. The packets are assumed to be messages of `Connection`
(`Packets \subseteq Msgs`). Every step but a `Forward` that writes is a step of
`Connection`, or leaves it alone (`Kernel`), and takes nothing into the streams
(`Traffic`); so `IInv` of `Connection_proofs` holds here too, and each invariant
is argued over the few steps that touch it. `RouterDelivers` needs `Claimed`:
entries, stored names and the targets of handlers in progress belong to
connections that used the name, but for the targets of packets gone `astray`. `RouterKeepsOrder` needs `Served` (a handler's
connection is inside `do_message`, on that thread) and `Sequel` (what was
forwarded comes before the sender's packet in hand). `RouterReaches` needs
`Entered`: of the others that used a name a connection has for itself, nothing is
left that could enter or erase it again, and its own handler has entered it or
is about to. `RouterForgets` needs `Left` (before the shutdown nothing is entered
for a connection that was closed, so its close, which erases the name stored
last, leaves none under that). `RouterShutsDown` needs `Shut`: once the acceptor
is closed, a connection can only be accepted by the handler that was past
`is_open()` then, so that after `stop_all()` it is the only one. What a connection
promises on its own it keeps here: `RouterWriterNeverStalls` and
`RouterSocketsNeverLeak` come from `IInv` of the composition, and
`RouterImplementsStream` shows every step of the router to be a step of
`MessageStream` or a stutter, with `write_msg` called from any thread.

`HttpConnection_proofs`. `Counted` (a request served came with a header that was
read) carries `TypeOK`; `StoppedReading` (an open connection that does not read was
asked not to be kept) carries `Attended`; `AnsweredBeforeClose` rests on `OneRequest` (the
parser accepts one request on a connection) and `Outcomes` (a write that ended
was an answer or broke the connection).

`Login_proofs`. `NameIsProved` is inductive with `NameInvariant`: the key in a
connection was issued to it, and the signature a login carries was made. A key
that is not empty can only be decrypted from such a signature.
`GreetingDecides` needs `GreetingInvariant`: an entry means a hello from
somebody who had the address, a hello leaves its entry unless two threads met in
the map, and a handler's place says what was found there.

`ClientMessages_proofs`, the stream. The invariant is `FInv`. `Laid`: the stream
is the frames sent, one behind the other, at the places the history names.
`Kept`: if every length sent is true, what was handed over is what the first
frames mean and the reader stands at the start of the next one, or one token
behind it when it has the header. `Signed`: a token that holds a negative number
was a length some frame falsified, which leaves nothing else to hang the reader
or to make `decode()` throw. With `Kept` alone the reader's next step could not
be followed: that the tokens at its place are the frame's is `Laid`, and
`DecodeWritten` then says what `decode()` makes of them. `ReaderKeepsItsPlace`
(`HandedIsSent`) assumes nothing of the parsers. `RelayedPacketIsThePacket`
(`RelayedAsSent`) assumes of them `Rereads`: what the serializer writes for a
packet that was parsed and counted down is parsed as that packet.
`GeneratedRelay` discharges that for the generated code.

`ClientMessages_proofs`, the generated code. Its theorems hold for all bytes
there are (`WireFields`: wire fields that hold wire fields, to any depth) and
every class in the tables. They have three hypotheses. `Tied` says that the
functions called for a message inside are those of its class, as `MCWire.cfg`
binds them; it asks nothing of the data and can always be met, since the tables
end after three levels and bytes after as many as they are deep. `Generated`
(for `GeneratedRelay`) says the same of the stream's parser and serializer. And
what clients send is made of wire fields, `Fields \subseteq WireFields`.
There are two inductions, both stated over sets so that the provers can use
them: `SeqInduction` over the fields of an input, and `ByClass`, by which a law
holds of every class if it holds of a class whenever it holds of those it
embeds. The laws are
- `Merges` (`AllMerge`): reading on after a merge is merging what is read on.
  With `ReadOn`, that the loop goes on where it was, it gives `ReadApart`, and
  so `MergedIsReadTogether` (`MergeIsConcatenation`).
- `Steady` (`AllSteady`): whether a field is read does not depend on the message
  it is read into. That is why an embedded message may come in pieces.
- `Writes` (`AllWrite`): what was read is written, read again, and counted right.
  It needs to know what can be in a message that was read (`Shaped`: every value
  is one its reader gives, and of what is kept as unknown, each field is kept
  again wherever it is read), and it is proved for everything of that shape, which
  a packet counted down still has. A serializer's fields are read back one by one
  (`FieldWritten`, `BackMore`), then the unknown ones (`KeptBack`); the sums of
  `ByteSize` go over a set, those of the bytes over a sequence, and `SumOneMore`
  takes either apart at any element.
- `Recognized` (`AllRecognized`): the parser takes what `Makes` says. A field's
  value in what was read is what its tags in the input, in whatever order and
  between whatever others, come to (`Fed`): the last valid one, the pieces
  together, or each of them.

`WhatIsWrittenIsWhatWasRead` (`RoundTrip`) is the last two. The tables are used
through `TablesAssumption` only.

Only model-checked: the liveness properties (`StopEndsRun`, `ClosedIsReleased`,
`WrittenIsSent`, `EndsAnswered`, `ServedIsAnswered`), since fairness and
`ENABLED` are out of the prover's reach; and the named assumptions about
the tables, which are facts about constants that TLC evaluates.

## Not modelled

- Logging: nothing in `src/` opens a log file (`INIT_LOGGER` and `AUTO_LOGGER`
  have no caller), so the rotation never runs; without `DEBUG` the log
  statements are empty.
- The arithmetic of Diffie-Hellman, X.509 and RSA, and the contents of
  certificates: OpenSSL's.
- Of the generated classes, construction, `Swap`, `CopyFrom`, reflection and the
  accessors nothing calls.
- Lengths in bytes: `Framing` counts tokens, `Connection` knows a length that is
  acceptable and one that is not.
- The form parsers of `http_helper` (`availability_check_httpd` takes the form
  as parsed or not); `parse_http_status_line` and `parse_http_headers`, which
  nothing in the router calls.
- Option parsing, CPU affinity, memory exhaustion, vendored code.

## Plan

Done: every module above, with its runs, a theorem for each safety invariant and
for each refinement.

Next, in this order:

1. `http_form` against a reference definition of a form.
2. The hazards no property covers yet: a CA that is silent after it accepts
   (`register_moudle.cpp:62`) or cannot be reached (`register_moudle.cpp:48`),
   two responses that share `m_response` (`http_connection.cpp:166`), an accept
   that fails once (`router_server.cpp:78`). The code states nothing about
   them; `Registration`, `HttpConnection` and `Router` have the steps.

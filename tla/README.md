# TradeSynth: a TLA+ model of the server, the client and the wire format

TradeSynth is a C client/server trading system. This directory holds TLA+
modules translated from its source, TLC configurations that check them on small
instances, and TLAPS proofs of the main safety properties for every instance.
Paths below are relative to the repository root; `PROJECT.json` maps every
definition to the lines it models.

## Inventory

| Component | State | Operations | Interacts with |
|---|---|---|---|
| server lifecycle (`src/server/main.c`, `server_core.c`) | `ServerContext` (state, listening socket, client table), `server_running` | `initialize_server_context`, `start_server`, `stop_server`, `cleanup_server`, `signal_handler` | network, logger, signals |
| listening and accepting (`server_network.c`) | client slots, `client_count` | `setup_socket`, `accept_client` | kernel queue, lifecycle (through `errno` too) |
| client handler threads (`server_network.c`) | the same slots | `handle_client`, `disconnect_client` | handlers; started by nobody in the repository |
| message handlers (`server_handlers.c`) | `sequence_num` | `handle_message`, `process_order`, `broadcast_market_data`, `process_trade_execution`, `send_response_message` | slots (without the mutex), serialization |
| logger (`src/common/logger.c`) | `log_file`, `minimum_level`, `log_mutex` | `init_logger`, `log_message`, `close_logger` | everybody, the signal handler included |
| client library (`src/client/client.c`) | `ClientContext` | `initialize_client`, `connect_to_server`, `disconnect_from_server`, `cleanup_client`, `send_order`, `request_market_data`, `send_data`, `receive_data`, `message_receiver_thread` | application callbacks, kernel, peer |
| client program (`src/client/main.c`) | none of its own | connect, prompt, request, clean up | client library |
| serialization (`src/serialization/serialization.c`) | none | `serialize_message`, `deserialize_message`, checksum, header check | client, handlers |
| prices, utilities, order book types | | arithmetic and string helpers; the order book has types only | |

What is hard here: the server's only thread is also the thread its signal
handler runs on, and the handler logs; `stop_server` runs twice on every path;
`server_socket` is a 0 from `calloc`, a descriptor, an error code or -1; `errno`
outlives the call that set it; the client shares its context between two
threads and reads `running`, `state` and `socket` without the mutex; handler
threads share a table whose entries move under the pointers into it; a
connection can fail at every step of being made; TCP cuts and joins messages.
The full list is `hazards` in `PROJECT.json`.

What makes each part correct: the client table and the descriptors agree and
every descriptor is closed once, by its owner; a signal ends the process in an
orderly way; queued connections are served; the client context outlives its
receiver; at most one receiver reads; messages are delivered in order; what is
decoded is what was encoded.

## Modules

### `Server` (`MCServer`, `ServerProofs`)

The server process as shipped. `pc` is the next thing `main()` does, down
through `start_server`, `accept_client` and `stop_server`; one action per step.
`LOG_xxx` is control too: a call above the minimum level goes through the labels
`log_lock` and `log_held` with the return point in `ret`, and takes `logMutex`.
`frames` is the stack of signal handler frames: a signal is delivered at any
step once the handlers are installed, and `main()` moves only when the stack is
empty. SIGINT and SIGTERM share the handler and do not block each other, so the
stack can be two deep. `fdTable` gives out the lowest free descriptor, as the
kernel does, so a number that is kept too long really is reused. `errno` keeps
its value across calls. `setup_socket` is one action per system call: each
error branch goes through `SetupError` and `AbandonSocket`, which closes what was
opened, and its error code becomes `server_socket`. `accept` fails for want of a
connection or of a descriptor, and with the errors of `AcceptErrors`: ENOBUFS
leaves the connection in the queue, ECONNABORTED drops one whose client has left.
Other errors take the same branch as these. Clients connect through `backlog` and
may leave; nothing else in the shipped server notices that they left.

External: the kernel's descriptor table and listen queue, the clients, and the
delivery of signals.

### `Admission` (`AdmissionProofs`), what the server promises its clients

Clients wait in a queue, are served in order of arrival while there is room,
refused only when there is none, and stay until the server shuts down. Only a
client that has gone away may drop out of the queue. No descriptor, log, error
or signal appears in it. `Server` implements it (`ImplementsAdmission`) under
the mapping `Phase`, `Waiting`, `Served` and the clients that have left: a
client is served when its descriptor is in the table, and the connection that
`accept_client` has in hand still waits, so a failed `accept`, a refusal or a
signal in the middle must leave the order as it was.

### `Handlers` (`MCHandlers`, `HandlersProofs`, `BroadcastProofs`)

The multithreaded server: the accepting thread (`accept_client`, `stop_server`,
`cleanup_server`), one thread in `handle_client` per connection, and an
application thread that calls `handle_message` and the id generators, over one
table of entries. One action per access to shared state. `clients_mutex` is a
variable; the scans of `broadcast_market_data` and `find_client_socket` do not
take it, and visit one entry per step or two: an entry that passes the test
(labels `found` and `matched`) is read again for the `send` or the result, and
may have changed in between; the `memmove` of `disconnect_client` moves
one entry per step, so a scan sees it half done. `slot` is the pointer a handler
was started with: it stays where it is while the entries move. `rcv` is the
connection a blocked `recv` waits on, which a later close of the descriptor does
not change. `EntriesAt` lets a read behind the table find anything.

Two things come from outside `src/server`. Nothing in the repository starts a
handler thread: that `accept_client` starts one on the entry it has filled is
an assumption, taken from `config.client_handler`, which
`examples/trading_communication/example_server.c` sets, and from the join in
`stop_server`. `Tracked` says whether `active` is set then; nothing sets it.
Second, nothing sets an entry's `id`, so all ids are empty and the `strcmp` of
`disconnect_client` matches the first entry.

A message is one unit here, since `Client` and `Wire` are about the stream; a
connection is accepted as it is made, since `Server` is about the queue. An
order is valid or not; the answer to one, MSG_ORDER_STATUS, and the answer to a
heartbeat are refused by `serialize_message`, so they are not sent. What threads
do after `cleanup_server` has freed the context, or SIGPIPE has ended the
process, is not followed.

External: descriptors, clients.

### `Client` (`MCClient`, `ClientProofs`, `ClientCallsProofs`)

The client library with one application thread that calls the API in any order
(the program of `src/client/main.c` is one of these orders) and a receiver
thread per successful `connect_to_server`. Every unlocked read of the context is
a step of its own: the receiver's test of `running`, its load of `socket`, the
`recv` on the number it loaded; the application's test of `state` and the
`send`. `receive_data` is a second reader of the same stream, on the application
thread. `state_mutex` is a variable, held across the steps of
`disconnect_from_server` between the lock and the unlock. A byte stream is a
sequence of half messages, so `recv` can return a part of a message or several
messages. `pthread_create`, `connect`, `socket`, `inet_pton` and the allocation
may fail; after a failed `pthread_create` the handle is undefined: it is
unchanged or `GARBAGE`, and a join of `GARBAGE` returns or ends the process.
`CreateFails` switches these failures off for a run that is about something else.
A connection that fails has an error pending (`failed`), which the first `send` or
`recv` on it, of either thread, takes and reports; after that `recv` finds the end
of the stream and `send` ends the process by SIGPIPE. The application may open
a file of its own between two calls, which is what makes a stale socket number
matter. A chunk that begins in the middle of a message is taken to be refused
by `deserialize_message`.

External: the network, the peer, the descriptor table.

### `Wire` (`MCWire`, `WireProofs`)

`serialize_message`, `deserialize_message`, `validate_message_header` and
`calculate_checksum` as operators under their own names, and one message on its
way: encoded into a buffer of any size, arriving whole, cut, with more behind it
or with one fault, decoded from a buffer that still holds older bytes. A header
field is one unit, a payload byte is one unit. The checksum is computed modulo
2^ChecksumBits; on the build platform `sizeof(Order)` equals
`sizeof(TradeExecution)`, and the instance keeps that. A damaged header field
has any value up to `MaxField`. Nothing compares `payload_size` with the buffer
before `calculate_checksum` runs over it, so `rbuffer` goes on behind the buffer
as far as `MaxField` leads, and where the loop leaves the buffer it either reads
what is there (`Deserialize`) or the process crashes (`ReadsBeyond`). The
receiver's `Message` is uninitialised, so its `sequence_num` is any value.

## Runs

Passing:

| Run | Instance | Shows |
|---|---|---|
| `server_safety` | 3 clients, 2 slots, queue of 2, 4 descriptors, level INFO, ENOBUFS and ECONNABORTED (165,727 states) | table exact, own descriptors closed once, nothing open after the stop or at exit, whichever call of `setup_socket` fails; `Server` implements `Admission` |
| `server_liveness` | the same with 5 descriptors, level WARN, ECONNABORTED (208,909 states) | every signal leads to exit; every queued connection leaves the queue |
| `client_single` | 1 connection, 2 messages, 2 descriptors (475,779 states) | context freed after the receiver, nothing left open, no spurious disconnect, order of delivery and no message delivered twice, by a callback or by `receive_data`, callbacks balanced; the end of a connection is noticed, and `cleanup_client` terminates |
| `client_reconnect` | 2 connections, 1 send, 2 descriptors (299,291 states) | one reader, `context->socket` names the connection, orders counted, `cleanup_client` terminates |
| `handlers_table` | 3 connections, 2 entries, 1 market data message, `active` set (2,299,027 states) | `client_count` exact under all removals and registrations; until a client is removed, a broadcast reaches everyone registered exactly once |
| `handlers_stop` | 2 connections, 1 message of any type, `active` not set (563,931 states) | after a signal the server always gets to its end |
| `wire_format` | alphabet {0,1,3}, payloads of 2 and 3 bytes, buffer of 9 units, `MAX_MESSAGE_SIZE` 12, header fields up to 14 (565,992 states) | what arrives whole is decoded to the type and payload sent, cuts are reported, one fault changes nothing that is accepted, nothing is written past the limit |

Why these bounds: three clients fill two slots and have one refused; four
descriptors (log, listener, two clients) exhaust the table with a client still
waiting, five do not. Each signal comes at most once, enough for a nested
handler; a third would find `server_running` already 0. Two messages are what it
takes to join, cut and reorder; one send is enough for every outcome of `send`,
since the peer may reset at any time. Two connections are what a reconnect is.
The two client runs divide these bounds between them; the safety properties are
proved for all of them at once. Header fields up to 14 are below and above every
size they are compared with (5, 9 and 12), and lead a read out of the buffer.
Two entries and three connections are the least with a `memmove`, a refusal and
a descriptor that is reused; one message is enough for a broadcast to meet a
registration, and a trade with both parties the same sends twice, which is what
SIGPIPE takes. `MAX_CLIENTS` equals `max_clients`, as with the default
configuration; where they differ the scans read behind the table or stop short
of its end, and `BroadcastExact` does not hold. `Types` bounds the kinds of
message a run has.
Symmetry is used for the server's connections in safety runs only.
`ChecksumBits` is 16 because TLC's integers are 32 bits wide and the factor 33
needs more than 5 bits to matter.

Deadlock checking is off in all runs, because server, client and message all end.

Each property has a mutant in `PROJECT.json`: a variant of one definition, such
as a dropped guard or an unlock left out, under which the run fails.

Fairness: weak fairness of the server's thread and of its handler (the scheduler
runs a thread that can run), and of the client's library calls and receiver
threads, and of the accepting thread and each handler thread in `Handlers`. No
fairness is assumed of signals, clients, the network or the calls an
application makes. A receiver takes `state_mutex` once and a handler takes
`clients_mutex` once, so weak fairness is enough for whoever waits for them.
`server_liveness` leaves ENOBUFS out: an `accept` that fails so for ever leaves
its connection in the queue for ever, which is the machine's doing.
`CleanupCompletes` promises nothing once `receiver_thread` is `GARBAGE`, whose
join may end the process.

Runs that show a disagreement between the code and what a test, a message or a
comment says (details in `findings`):

| Run | Shows |
|---|---|
| `server_signal_deadlock` | the handler's LOG_INFO waits for the `log_mutex` its own thread holds, and the shutdown never completes |
| `client_stale_socket` | a failed connect closes the socket and keeps its number, which the next disconnect closes again |
| `client_reconnect_freed` | a reconnect overwrites the handle of a receiver that is still ending, and `cleanup_client`, which joins the second thread only, frees the context under the first (no `pthread_create` fails in this run) |
| `handlers_close` | a handler that ends removes the first entry of the table, whoever it belongs to, and closes the socket that has moved into its own |
| `wire_test` | for a whole message `deserialize_message` returns 0 and leaves `sequence_num` as it was; `tests/unit/test_serialization.c` expects the size and the number that was sent |

Behaviour of the code that the models reproduce and that no run asserts either
way: with `Tracked = TRUE`, `stop_server` joins the handlers while it holds the
`clients_mutex` they need to end, and `StopCompletes` fails (set it in
`MCHandlers_stop.cfg`); without it the context is freed under running handlers;
after a removal a handler may read another client's connection, and a broadcast
may reach a client twice or not at all; a trade never reaches a client by its
name; after a refusal the accept loop tests an `errno` left by an earlier
`accept` and may sleep nine seconds with connections pending; `running` is set
once, so after `disconnect_from_server` a new connection is reported as made and
its receiver ends at once, although `tests/integration/test_client_server.c`
takes SUCCESS to mean connected; a signal between `fclose` and `log_file = NULL`
makes the handler write to a closed file; the slots of clients that have left
are never freed, so the table fills up for good; `start_server` returns SUCCESS
only after it has stopped the server again; a connect still in progress counts
as connected; a send after a reset ends the process by SIGPIPE;
`request_market_data` counts a message cut short; a damaged `payload_size` makes
`calculate_checksum` read behind the buffer; `serialize_message` refuses
MSG_ORDER_STATUS, the type `process_order` answers with.

`server_liveness` runs at level WARN on purpose: there the handler's LOG_INFO is
filtered before the mutex. At INFO the same property is the finding
`server_signal_deadlock`.

## Proofs

Every safety property of the passing runs is also proved by TLAPS for every
value of the constants, with the assumptions named below. The constants are
constrained only by the `ASSUME`s of the modules: descriptors are numbers above
2, sizes and bounds are naturals, and a message fits its buffers. Counters do
not wrap in the proofs; `sequence_num` and `orders_sent` have 64 bits. The table
names the inductive invariant of each proof. TLC found them true on the instances
of the runs before they were proved (those of `BroadcastProofs` while nobody is
removed); they serve the proofs and are not among the properties of the runs.

| Module | Theorem | Property | Invariant | Assumes |
|---|---|---|---|---|
| `ServerProofs` | `TypeCorrect`, `RegistryAlwaysExact`, `StopClosesEverything`, `ClosesOnlyItsOwn`, `NothingLeaksAtExit` | `TypeOK`, `RegistryExact`, `StoppedMeansClosed`, `ClosesOwnDescriptors`, `ExitLeaksNothing` | `ServerInv` | |
| `AdmissionProofs` | `ServerImplementsAdmission` | `ImplementsAdmission` | `ServerInv`, `ServiceInv` | |
| `HandlersProofs` | `HandlersTypeCorrect` | `TypeOK` | `TypedInv` | |
| | `CountAlwaysExact` | `CountExact` | `CountInv` | |
| `BroadcastProofs` | `MarketDataReachesOnce` | `BroadcastExact` | `NumberInv`, `TableInv`, `FoundInv`, `ProgressInv` | `MaxClients = MAX_CLIENTS` |
| `ClientProofs` | `ClientTypeCorrect` | `TypeOK` | `TypedInv` | |
| | `OneAttachedAlways`, `OneReaderAlways` | `OneAttached`, `OneReader` | `ReaderInv` | |
| | `SocketAlwaysNamesConnection` | `SocketNamesConnection` | `SocketInv` | |
| | `AlwaysStaysConnected` | `StaysConnected` | `ConnectedInv` | |
| | `SingleUseFreedAfterThreads` | `FreedAfterThreads` | `OnlyThreadInv` | `MaxConnects <= 1` |
| | `SingleUseNothingLeftOpen` | `NothingLeftOpen` | `OpenedInv` | `MaxConnects <= 1` |
| `ClientCallsProofs` | `OrdersAlwaysCounted` | `OrdersCounted` | itself | |
| | `BalanceUnlessThreadRuns` | `FreedAfterThreads => CallbacksBalance` | `CountingInv` | |
| | `SingleUseCallbacksBalance` | `CallbacksBalance` | `CountingInv` | `MaxConnects <= 1` |
| | `AlwaysDeliveredInOrder` | `DeliveredInOrder` | `DeliveryInv` | |
| `WireProofs` | `RoundTripAlways`, `CutAlwaysIncomplete`, `NeverWritesBeyond` | `RoundTrip`, `CutIsIncomplete`, `WritesWithinLimit` | `WireInv` | |
| | `DamageAlwaysConfined` | `DamageConfined` | `WireInv`, `DamageInv` | `ChecksumBits = 32`, `Bytes` within 0..255 |

The assumptions are what the code has, or what the property needs. A context
connected once is how `src/client/main.c` uses the library; connected twice,
`FreedAfterThreads` is false (`client_reconnect_freed`), and what is left is
`BalanceUnlessThreadRuns`: the callbacks balance unless a thread was left
running. `max_clients` is DEFAULT_MAX_CLIENTS unless the command line says
otherwise, and that is 100 as MAX_CLIENTS is; with another size the scan of
`broadcast_market_data` and the table do not cover each other. The checksum is a
`uint32_t` over bytes.

The arguments:

- *Server.* The properties are about places where a descriptor is closed, and
  are not inductive. `ServerInv` adds `Lifecycle`, which ties the state of the
  context and the value of `server_socket` to the place in the program, and
  `OwnedDescriptors`, which ties the listening socket and the log file to the
  variables that name them. Both speak of `Dest`, the place the thread is
  heading for, so that a log call or a handler frame changes nothing in them.
  One lemma per action or group of like actions; `QuietStep` covers the steps
  that only move the thread.
- *Refinement.* Under `Phase`, `Waiting` and `Served` an initial state maps to
  one of `Admission`, and each step to a step of it or a stutter. `ServiceInv`
  supplies what an abstract guard needs: a server in service listens, without a
  listening socket there is no queue, and only a full table refuses. `Served`
  is read off the table, so `RegistryExact` carries the steps that fill it.
- *Handlers.* `TypedInv` adds that a handler was started on an entry of the
  table. `CountInv` adds that a connection is accepted once and has no handler
  before it is registered; the count follows because a removal takes one entry,
  whichever it is.
- *Broadcast.* `NumberInv`: the atomic increment gives a sequence number to one
  thread and one broadcast. `TableInv`: before the first removal the table is
  the list of started handlers with the sockets of their connections.
  `FoundInv`: an entry that has passed the test of a scan lies in the table, so
  its second reading is of an entry too.
  `ProgressInv`: of one scan, every entry it has passed has had the message
  once and no other has. Entries are only added behind the scan's audience, so
  a scan of all entries reaches it.
- *Client threads.* `OneAttached` says that a receiver that has not given up
  the connection is the last one started, is the one `disconnect_from_server`
  would join, and keeps the state CONNECTED, so `connect_to_server` cannot get
  past its check. `SocketInv` follows the number of the socket through
  `connect_to_server`. `ConnectedInv` then shows that the thread of a connection
  that is up stays in its loop, and that no older thread resets the state.
  `OpenedInv` says that an open socket is the one `context->socket` names.
- *Client calls.* `CountingInv` counts threads against callbacks; the counting
  lemmas are in `SequenceCounts`. `StreamInv` fixes the place of each half
  message in the stream; `DeliveryInv` adds that a message decoded and not yet
  handed over is newer than all the callbacks have had, which is what two
  readers of one stream could break.
- *Wire.* `WireInv` says that at each stage the units that count are those of
  the message; nothing is used of the checksum but that both sides compute the
  same. For damage to the payload its arithmetic is needed: a turn of
  `calculate_checksum`, `(33 * a + x) % 2^32`, is injective in `a` because 33 has
  an inverse modulo 2^32 (`TimesInjective`) and in `x` because bytes are smaller
  than 2^32, and exchanging two bytes changes it by 32 times their difference.
  So two runs of the checksum that part at the damage stay apart to the end
  (`CoursesApart`), for payloads of any length. The inductions over the payload
  look at the least place where the claim would fail (`LeastNumber`).

Only model-checked: the liveness properties `ShutdownCompletes`,
`PendingServed`, `CleanupCompletes`, `EndNoticed` and `StopCompletes`, because
reasoning from fairness is outside the prover, and the violations, which are
single behaviours.

## Not modelled

Option parsing, the prompt and the text of log lines. Prices are floating point,
which neither tool has; the one use of them in the control of the server, the
price improvement in `process_order`, changes only an answer that is not sent.
The utilities (`src/common/utils.c`) are called by neither client nor server and
keep no state. The order book and the positions are types without code;
`get_client_position` and `get_market_data` are placeholders. The examples are
users of the library: their calls are among those `Client` allows. Callbacks
that call back into the client library are left out; those in the repository
only log.

In `Server`, the mutexes that only its one thread takes are left out, and so is
the lock inside stdio: it is recursive, so a `printf` in the handler does not
wait for its own thread, but may find the stream's buffer half updated. In
`Handlers` the logger and the message counters of an entry are left out. A
cleanly closed or reset connection is modelled; lost packets are TCP's business.

## Plan

Done: `Server`, `Client`, `Wire`, `Handlers`, `Admission`, their runs, and the
proofs of all safety properties. To come:

1. The parts of the liveness properties that are safety: no thread waits for a
   mutex that its own thread holds (`Server` at level WARN, `Client`), and
   whoever holds `clients_mutex` or `state_mutex` has a step to take.
2. What holds of `FreedAfterThreads` and `NothingLeftOpen` when a context is
   connected again: which reconnects are harmless.
3. An abstract specification of delivery that `Client` implements.

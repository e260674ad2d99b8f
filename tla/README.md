# ShadowTalk: TLA+ models and proofs

This directory specifies ShadowTalk (its own README calls it *Whisper*) in TLA+:
its protocols, its servers, its clients' threads and what they store. TLC
model-checks the modules on small instances; TLAPS proves, for instances of every
size, the safety properties of the stream, the peer, the gRPC client and server,
the relay, the rendezvous service and the websocket server. `PROJECT.json` is the
index: which definition models which lines of `src/`, which run checks which
property, which fault (mutant) each property detects, which hazards of the code
the properties are for, and which theorems there are.

## The system

ShadowTalk is several programs that grew beside each other.

| Component | State | Operations | Interacts with |
|---|---|---|---|
| stream (`client/sml/stream`) | send and receive offsets, two maps of segments, a timer | `send`, `feed`, `retransmit` | calls `peer::send_datagram`; puts received data into `output_ring` |
| peer (`client/sml/peer`, `datagram`) | flags, current handler, timer, keys, streams | one handler per phase of the handshake, `reset`, `add_stream`, `del_stream`, `send_datagram` | another peer over UDP; feeds streams |
| udp_layer, service, ring, message | map of peers; queues of commands and of results | `add_peer`, `del_peer`, `handle_receive`; `post`, `msg_handler`, `query_server` | the application's thread; the rendezvous server |
| gRPC client (`client/GRPCClient`, `MainWindow`) | queue of messages, `running_`, `sender_` | login, list peers, message stream, `Enqueue`, `Dequeue` | two threads; the gRPC server |
| gRPC server (`grpc-server`) | peers by name and token, message streams, waiting calls | `HandleLogin`, `HandleListPeers`, `HandleSwitchMessages`, `PeerMessageWriter` | clients, one completion queue |
| TLS relay (`server/server.cpp`) | table of sessions by address, a write queue each | accept, handshake, read, write | clients |
| websocket server (`ws`) | table of sessions under a mutex | accept, request loop, destructor of a session | clients, several threads |
| rendezvous UDP service (`server/sml.cpp`, `udp_service.cpp`, `peer.cpp`) | known endpoints, live peers, their last beat | receive, expire, answer | `service::query_server` of the clients; its own `main` is compiled out |
| byte strings (`client/sml/byte_string`) | a buffer, a length, a position | constructors, `write`, `read`, `seek`, `append`, `=` | `datagram` turns itself into bytes and back with them |
| preferences (`client/MainWindow`, `PreferencesDialog`) | the configuration, the table of the dialog, a file | load, edit, accept and save | the file outlives the process |
| configuration, cryptography, logging | none over time | | |

What is hard to test, and what the properties aim at: datagrams that are lost,
duplicated and reordered; a timer that fires while the answer is on its way, or
whose handler escapes its cancellation; acknowledgements that do not say what
they acknowledge; a restart in the middle of a handshake; two threads that share
a queue without a lock; objects that delete themselves while others hold their
address; a table keyed by address whose entries outlive or precede their
sessions; a client that vanishes; a list that is replaced as a whole from answers
that get lost; a file that is overwritten by a shorter one. `hazards` in `PROJECT.json` lists them at their lines.

For each component, what makes it correct:

- stream: the receiver is given a growing prefix of what the sender sent, all of
  it in the end;
- peer: both sides end up established with the same key, whatever is lost, and
  a peer that is called as established really is;
- gRPC client: one Write at a time, messages in order, none forgotten, a login
  that is followed by the peer list;
- gRPC server: a message goes to the current stream of its receiver, in the order
  in which its sender sent it, and no deleted writer is used;
- relay: who is connected can be found, and is written to one message at a time;
- rendezvous: clients that run find each other and forget those that do not;
- websocket server: the table names the sessions there are and stands still while
  it is walked, and entries do not stay behind;
- byte strings: what is written is read back, and nothing else;
- preferences: what was saved can be loaded.

## Modules

| Module | Models |
|---|---|
| `BytePipe` | abstract: what a stream promises its two applications |
| `Stream` | `stream.cpp`, both ends, over a UDP network |
| `Peer`, `MCPeer` | `peer.cpp` and `udp_layer.cpp`, two services; the MC module adds a symmetry set |
| `GrpcClient` | `GRPCClient.cpp` and `MainWindow.cpp`, two threads |
| `GrpcServer` | `GRPCServer.cpp`, one thread of completion events |
| `Relay`, `MCRelay` | `server.cpp`, one thread of handlers; the MC module adds a symmetry set |
| `Rendezvous` | `server/sml.cpp`, `udp_service.cpp`, `peer.cpp` and `client/sml/service.cpp`, over UDP |
| `WsServer` | `ws/WebSocket.cpp`, coroutines on several threads |
| `ByteFile` | abstract: what byte strings promise |
| `ByteString`, `MCByteString` | `byte_string.cpp` and the bytes of a `datagram`; the MC module gives the widths of the fields |
| `Preferences` | the configuration file of `MainWindow.cpp` and `PreferencesDialog.cpp` |
| `StreamProofs`, `PeerProofs`, `GrpcClientProofs`, `GrpcServerProofs`, `RelayProofs`, `RendezvousProofs`, `WsServerProofs`, `ByteStringProofs` | theorems about the module of that name, for all values of its constants |

In every module an action is one handler with everything it calls. Definitions
whose comment says *mutant* or *faulty variant* are not part of the model: each
is a plausible bug that replaces a definition to show that a property detects it.

**Stream.** `sendOffset`, `recvOffset`, `sendQueue` and `recvQueue` are the
members of the same names; `timer` says whether a wait is pending. Payloads are
abstracted to `pos`, the position of a segment's first byte in all that its
application sent, so that a delivered segment is right exactly when its `pos` is
its offset. `sentBytes`, `queued` and `delivered` are history. The loops of
`stream::send` and `stream::feed` are given as sets: `Cuts`/`Fresh` for the
segments that are cut, `InSequence` for the keys that are drained.
`Offset(i)` is the conversion to the 32 bits of `offset_type`.

**Peer.** `peers[s]` is the entry of `peer_map_` at site `s`, a set of at most one
object; the object is a record with the flags, the current handler, the datagram
the timer repeats, and the keys. Member functions map an object and a datagram to
the object afterwards and what it sent. `fired` holds retransmissions whose wait
is over: asio has queued their handler, and `timer_.cancel()` no longer stops it.
A shared key is the set of the two ephemeral keys it is computed from. The key
agreement throws if the static key is empty (an id that is not in the
configuration) or what arrived is no key; nothing catches it and the process ends
(`AgreeFails`, allowed by the command `"fail"`). In
`Peer`, `data` is any datagram of a stream; what streams do with it is `Stream`.

**GrpcClient.** `HandleEvent` takes a mutex that `SendMessage` does not, so the
threads are interleaved access by access, with a program counter each. The worker
runs before `MainWindow` has connected its slots (`Connect`), and a signal that
is emitted before is lost. `ListPeers` runs in the window's thread without the
mutex, and sets `state_ = FIN` only after it has called `Finish` (`OnLogin`, then
`SetFin`): a completion that the worker takes in between starts the same call
again, and gRPC aborts the process (`ListPeersTwice`).

**GrpcServer.** Streams are numbered as they are opened, so that a pointer to a
writer is a number and `writer_[n] = i` can be compared with the streams of `n`.
An access token is a hash of the name and stands for it.

**Relay.** A session lives while a handler that captured it is pending
(`reading`, `writes`, or its handshake); `Released` is the end of the last one
together with the destructor. An exception that leaves a handler leaves
`io_context.run()` and ends the process (`terminated`): `remote_endpoint()` of a
connection that was reset, bytes that `Feed` does not accept, a certificate without
a common name. Requests that arrive in one read are handled one by one, so that
handlers of others may come in between, which is more than the code can do.

**Rendezvous.** Time is cut into the 5 s periods of the clients' timers. `age`
counts the period boundaries since `last_beat_`, so a peer with `age > Timeout` is
surely dead and one with `age = Timeout` may be, depending on when in their
periods the beat and the look at it fell: `FoundDead` leaves that open. `Tick` waits
until the event loops have done what is due and no request is in flight; answers
may be late by any time. `peer_endpoint_bm_` and `live_peers_` are modelled as two
sets, since the code keeps them in two places. The request handler stands in
`server.cpp` under `#if 0`, while the service itself is compiled; it is modelled as
it stands there, because it says what the clients' code is written against.

**WsServer.** A step is what a coroutine does between two points where it waits.
`link` is what the client and TCP have made of a connection. The destructor of a
session and the release of its last `shared_ptr` are one step, under the mutex `m`
like the constructor. `LIST_PEERS` takes the mutex, walks the table entry by entry
(`peer_list` holds what it has listed, `ahead` what its iterator has not reached) and
gives the mutex back, while the other threads go on. An exception that leaves a
coroutine ends the process (`terminated`): from `remote_endpoint()` after a reset,
from `Feed` for bytes that are no message; the handlers without a return statement
may or may not. If the server was given an IPv6 address (`v6`), so does the first
session: the hash of its endpoint throws in a `noexcept` constructor (`AcceptV6`). The weak pointers in the table are left out: they are
made by `weak_from_this()` in the constructor and are empty.

**ByteString.** An object is a record of the four members; memory fresh from `new`
holds `Junk`, which no refinement to `ByteFile` can explain as a byte. A datagram is
a sequence of fields of given widths and a payload; `Serialized` and `Parsed` do
what its conversion operator and its constructor do, through the operations of
the byte string.

**Preferences.** A value is its length; the file is the document written last and
the number of bytes of earlier ones that are left behind it.

## Runs

Deadlock checking is off where the applications have a bounded amount to do and
then really stop, and on in `rendezvous`, where timers go on for ever.

| Run | Checks | Bounds |
|---|---|---|
| `stream_safety` | `TypeOK`, `AckSound`, `NothingDropped`, `Contiguous`, `Authentic` under every fault and with overlapping sends | strings of 1 and 3 bytes, 5 in all, segments of 2: full and partial segments, several per send, up to 3 datagrams in flight |
| `stream_pipe` | `IsBytePipe`: refinement of `BytePipe`, data in both directions; `ArrivesOrWedged` | 3 bytes each way, in segments of 2; data and acks lost, timers at any time; one send at a time |
| `peer_faults` | `TypeOK`, `NeverThrows`, `EncryptorReady` | one command a site (add, add again, delete, restart, a key agreement that throws), two keys a site, so that a session is reset and agreed anew; timers at any time |
| `peer_session` | `EchoProvesKey`, `NeverSilent`, `HandshakeCompletes` | any datagram lost, answers never late, no restarts, no streams |
| `peer_rekey` | `KeyAgreement`, `NoPhantomStream` | three commands a site, restarts in any state among them, and two keys a site, so that an established peer is reset and both keys are replaced; any datagram lost, data duplicated, answers never late, no datagram outlives a restart |
| `grpcclient` | `OneWrite`, `InOrder`, `SenderExists`, `SentOrAsleep`, `LoginNoticed` | 4 messages; the stream may break |
| `grpcserver` | `WriterValid`, `Busy`, `Switched`, `Reachable`, `AllWritten` | 2 peers, 2 streams (of one peer or of two), 2 messages each |
| `relay` | `Findable`, `NoExpiredEntry`, `OneWrite`, `KeepsWriting`, `InOrder` | 2 addresses, 2 sessions (of one address after another, or of two), 2 requests each |
| `rendezvous` | `TablesAgree`, `StaysListed`, `Discovery`, `Forgets` | 2 clients, one of them with its list; a timeout of 3 periods, one request lost in a row; a receive of the client may fail |
| `wsserver` | `TableAccurate`, `WalkValid`, `Forgotten` | 2 endpoints, 2 connections, of two endpoints or of one that comes back, also during a walk; `LIST_PEERS` and a message without a reply |
| `bytes` | `RoundTrip`, `IsByteFile` | strings of up to 3 bytes of 2 values, buffers aligned to 2: a write that fits, one that needs a new buffer; two fields of one byte and a payload |
| `preferences` | `Restartable`, violated: two documents are saved, the second shorter | 2 entries of up to 4 bytes |

The bounds are the smallest at which the cases the properties are about occur: a
send that finds segments queued, a drain of more than one segment, a second
handshake in the same object, a second stream of the same peer, a message queued
behind a Write, a peer that expires and returns, a session that meets an older one
from its port. Each mutant confirms it: with the same bounds, TLC finds the
property violated.

### Assumptions on the environment

They are constants where they can be lifted:

- `Pipelined` (Stream): may `send` be called before everything is acknowledged?
  `TRUE` in `stream_safety`; `FALSE` in `stream_pipe`, because bytes are misplaced
  otherwise (below).
- `Lossy`, `Duplicating`, `EarlyTimeout` (Stream, Peer): what UDP and the timer
  may do. Reordering is always possible. `stream_safety` has all of it,
  `stream_pipe` no duplicates, `peer_session` and `peer_rekey` no late answers.
- `OffsetSpan` (Stream): larger than `MaxBytes` in all runs. With 4,
  `MaxBytes = 6`, segments of 1 byte and no faults, `IsBytePipe` is violated: the ack
  of the segment before the wrap is 0 and erases nothing, so that the sender
  repeats that segment for ever.
- `Commands` (Peer): with `"restart"` or `"add_again"`, `NeverSilent` is
  violated: a peer in `public_key_exchange_handler` acks the hello of a restarted
  site, does not start over, and both may wait for ever.
- `Lingering` (Peer): may a datagram be on its way longer than a restart takes?
  `TRUE` in `peer_faults`; with `TRUE` in `peer_rekey`, both properties are
  violated (below).
- `Early` (GrpcClient): may the user send before the message stream is ready?
  With `TRUE`, `OneWrite` is violated: the sender's constructor starts a Write with
  `running_` still false.
- `Garbage` (Relay): what `writing_started_`, which is not initialized, may hold.
  Both values in the run. A session that starts with `TRUE` never writes, which is
  why `KeepsWriting` speaks of sessions that have begun to.
- `Reused` (Relay): may a client return from the same address while its old
  session is being torn down? With `TRUE`, `Findable` is violated: the old
  session's destructor erases the entry the new one relies on. (`WsServer` lets
  it happen, and `TableAccurate` names the exception.)
- `MaxLost`, `Timeout` (Rendezvous): `StaysListed` holds while
  `MaxLost + 1 < Timeout`. The code's timeout is 6 periods: four requests in a row
  may be lost, five may not.
- `Failing` (Rendezvous): whose receives may fail. `Discovery` and `Forgets` are
  about the time after which none has, since nothing starts a receive again.
- `Inside` (ByteString): reads and writes happen with the position inside the
  string, which is less than the buffer that `can_read` and `can_write` check. It
  may be outside: `seek` assigns `offset_` before it throws, accepts a negative
  offset, and `operator=` keeps the position in the old string. The abstract
  position is `Lost` then, until it is set again; a read from there would leave the
  buffer. A string is not appended to itself, which reads freed memory when the
  buffer grows. Sizes stay far below the 2^30 at which `adjust_buffer_size` would
  overflow.

### Fairness

- Stream: strong fairness of the timer of each end, which asio runs whenever it
  has expired, however often it was cancelled and armed before; strong fairness of
  the delivery of each type of datagram to each end: a network that is given
  datagrams again and again delivers one in the end. Nothing makes an application
  send.
- Peer: strong fairness of each timer's expiry (it is disabled while something is
  in flight), weak of the queued handler, strong of the delivery of each type of
  datagram to each site.
- GrpcClient: weak fairness of the worker, of each thread inside `Proceed`, of the
  window's constructor, of the queued signals and of the window's thread in the
  middle of `ListPeers` or `Enqueue` (`SetFin`, `SetRunning`). None of sending, typing
  or breaking.
- GrpcServer: every Write that gRPC was given completes or fails.
- Rendezvous: timers expire and requests are received or lost; of answers of the
  same content that come again and again one arrives. Nothing makes a client
  start or stop.
- WsServer: weak fairness of what a coroutine is due to do, strong of what needs the
  mutex: a thread that waits for it gets it in the end, however often others do.
  `std::mutex` does not promise that in so many words; with finitely many requests
  in hand at a time the implementations deliver it. Strong, too, of the end of a read
  from a client that has gone. The timeouts that `do_session` sets justify
  it: without them (the mutant `ReadEndsUntimed`) `Forgotten` is violated.

### What the runs found

Each is in `findings` of `PROJECT.json`.

- `preferences`: `saveConf` does not truncate the file. TLC's trace is a start, an
  accept, which writes the first document, an edit that shortens a value, a second
  accept, whose shorter document is written over the first, the end of the program
  and the next start, which ends with `qFatal("Invalid configuration")`.
- A `send` while earlier data is unacknowledged starts at the last queued segment,
  not at its end: `Stream_pipe.cfg` with `Senders = {near}`, `MaxBytes = 4`,
  `Pipelined = TRUE`, `Lossy = {}`, `EarlyTimeout = FALSE` violates `IsBytePipe`.
- A lost `data_ack` wedges the stream: with `Lossy = {"data_ack"}` and
  `EarlyTimeout = FALSE` a state with `Wedged` is reached in five steps.
- A duplicated old `data_ack` makes the next `send` reuse offsets: with
  `Senders = {near}`, `MaxBytes = 5`, `Duplicating = TRUE`, `Lossy = {}`,
  `EarlyTimeout = FALSE`, `MaxInFlight = 3`, `IsBytePipe` is violated.
- A second ack of a hello is taken for the ack of the public key:
  `Peer_session.cfg` with `MaxInFlight = 3`, `Lossy = {"public_key"}`,
  `EarlyTimeout = TRUE` violates `NeverSilent`.
- A public key and an ack that were sent before a restart are taken for those of the
  new process: both sides end up established with different keys. `Peer_rekey.cfg`
  with `Lingering = TRUE` violates `KeyAgreement` (and, earlier, `NoPhantomStream`).
- The completion of `ListPeers` may overtake `state_ = FIN`, which aborts the client:
  `ListPeersTwice` of `GrpcClient`, which `LoginNoticed` admits.
- A websocket server that listens on an IPv6 address ends with its first client:
  `AcceptV6` of `WsServer`.
- Visible as conditions of properties that hold: a message that is queued between
  the worker's finding the queue empty and clearing `running_` waits for the next
  message (`SentOrAsleep`); a login that ends before the window is connected goes
  unnoticed (`LoginNoticed`); a failed Write on an old stream disconnects the new
  one of the same peer (`Reachable`); an old session unlists a new one from the same port
  (`TableAccurate`). Visible as actions: a connection that is reset at the wrong
  moment, or bytes that are no message, end the websocket server and the relay
  (`terminated`).
- `LIST_PEERS` over websockets is answered with a PONG; integers in datagrams are
  in the byte order of the machine, where the comment promises big endian.

## Proofs

Every safety invariant that a passing run checks is a theorem; so are the
refinements `IsBytePipe` and `IsByteFile`. A theorem
holds for every value of the constants: any number of peers, sessions, messages, keys
and bytes, any bound on what is in flight, and every fault the constants can
switch on, except where a hypothesis says otherwise.

| Theorems | Hypothesis | State |
|---|---|---|
| `StreamInvariant`, `StreamTypeOK`, `StreamAckSound`, `StreamNothingDropped`, `StreamContiguous`, `StreamAuthentic` | `NoWrap` | the properties of `stream_safety` |
| `StreamPipeInvariant`, `StreamIsBytePipe` | `NoWrap`, `OneByOne` | a stream implements `BytePipe` |
| `PeerInvariant`, `PeerTypeOK`, `PeerNeverThrows`, `PeerEncryptorReady` | none | the properties of `peer_faults` |
| `PeerArmed` | none | who waits for an answer has a timer, or a retransmission queued |
| `PeerSessionInvariant`, `PeerEchoProvesKey`, `PeerNeverSilent` | `Undisturbed` | an answered echo means that the other has the key; somebody always acts |
| `PeerRekeyInvariant`, `PeerKeyAgreement`, `PeerNoPhantomStream` | `Orderly` | through restarts and new keys on both sides, two established peers have one key, and no datagram of a handshake is taken for data |
| `GrpcClientInOrder` | none | messages leave in the order in which they were sent |
| `GrpcClientInvariant`, `GrpcClientOneWrite`, `GrpcClientSenderExists` | `~Early` | one Write at a time, on a sender that exists |
| `GrpcServerInvariant`, `GrpcServerTypeOK`, `GrpcServerWriterValid`, `GrpcServerBusy`, `GrpcServerSwitched`, `GrpcServerReachable` | none | the safety properties of `grpcserver` |
| `RelayInvariant`, `RelayTypeOK`, `RelayNoExpiredEntry`, `RelayOneWrite`, `RelayKeepsWriting`, `RelayInOrder` | none | those of `relay` but one |
| `RelayFindable` | `~Reused` | who is connected is found |
| `RendezvousInvariant`, `RendezvousTypeOK`, `RendezvousTablesAgree` | none | the two tables agree |
| `RendezvousStaysListed` | `LossBound` | who keeps asking stays listed |
| `WsServerInvariant`, `WsServerTableAccurate`, `WsServerWalkValid` | none | the safety properties of `wsserver` |
| `ByteStringTypeCorrect`, `ByteStringIsByteFile`, `ByteStringRoundTrip` | none | the data stays within the buffer; byte strings implement `ByteFile`; a datagram is read back as it was written |

### Hypotheses

Besides the assumptions of the modules on their constants (sizes are natural
numbers, the two ends differ), the proofs use these. Each is needed: "Assumptions
on the environment" says how the property fails without it.

- `NoWrap`, `MaxBytes < OffsetSpan`: less is sent than a 32-bit offset can count.
- `OneByOne`, `~Pipelined /\ ~Duplicating`: `send` is called when nothing is queued,
  and UDP delivers no datagram twice. The code enforces neither.
- `Prompt`, `~EarlyTimeout`, `Duplicating \subseteq {"data"}`: answers come within the
  second the timer waits, and UDP repeats no datagram of the handshake. Any datagram
  may be lost or overtaken. The code does not ensure it: an ack names no datagram.
- `Undisturbed`, `Prompt` and `Commands \subseteq {"add", "stream"}`: no site starts over.
- `Orderly`, `Prompt`, `Commands \subseteq {"add", "stream", "restart"}`, and `~Lingering`
  if there are restarts: sites start over as often as they like and in any state of
  the other, but take longer for it than a datagram for its way.
- `~Early`: the user sends only once the message stream is ready. The window does
  not prevent it.
- `~Reused`: a client does not come back from the same address and port while its
  broken session is still there. Usual for ephemeral ports, not certain.
- `LossBound`, `MaxLost + 1 < Timeout`: with the code's constants, 5 s between
  requests and 30 s until a peer is dead, up to four requests lost in a row.

### Arguments

**Stream.** None of the properties is inductive alone. That an ack is sound needs
that acks *in flight* are, however old; that deliveries have no gap needs to know
what is in the receive queue; so `Provenance` says of every datagram and queue that
it holds only segments that were queued at that offset and end within the bytes
sent, and that acks in flight never exceed the receiver's offset, which only grows.
`Inv` is the conjunction, and each handler has a lemma (`SendInv`, `FeedDataInv`,
`FeedAckInv`, `RetransmitInv`, `NetworkInv`). The core is `DrainStep`: the keys
`InSequence` selects start at `recv_offset_` (`Predecessor`), do not overlap
(`RunDisjoint`) and leave no gap (`RunCovers`), the latter two by taking a least
counterexample (`LeastExists`), so that adding them to what was delivered keeps
`Contiguous`.

**Stream as a pipe.** `BytePipe` fails as soon as a segment is queued at an offset
that is not its place. `DirectionOK` rules that out for each direction: the send
queue covers without a gap what lies between `send_offset_` and the bytes sent
(`FreshTiles`, `TrimmedAtMark`), so that an empty queue means that both offsets are
at the end of what was sent (`NothingQueued`) and the next string is put there. To
keep it, no ack may move `send_offset_` back: nothing beyond `send_offset_` has been
sent, so the receiver drains one segment at a time and only when both offsets
agree (`DrainDirection`); then no ack is on the way, and the new one is the only one
until it arrives or is lost. `Send` is a `Write` of the pipe, a drain a `Read`,
everything else a stutter.

**Peer.** Whatever happens, the flags match the current handler (`PhaseOK`) and
each flag of the exchange has its key (`KeysOK`): `PeerOK`, together with the fact
that public keys in flight are their sender's. For a session between two sites
that is not enough, since an ack does not say what it acknowledges.
`StopAndWait` supplies that: a site has at most one datagram of its current
exchange, or one answer to it, on the way. So an ack that arrives is for what the
peer sends now (`DatagramOK`, `Awaits`), and what one peer's flags say of the other
is true (`Knows`); `Linked` is their conjunction. `NeverSilent` follows with `Armed`.
A restart breaks that: the survivor goes on with a session whose other side is
gone, while the new peer greets it. `RekeyInv` says that the two are linked, or one
of them is an `Orphan`: of what it sends the new peer heeds nothing but an ack, and
so gets no further, until the survivor has been reset and both are linked again.
The new peer is not established until then, so that `KeyAgreement` holds in both
cases.

**GrpcClient.** `running_` is a token: whichever thread is between taking it and
giving it back holds it, and so does a Write that has not completed (`Token`). The
order of messages needs no lock and no token: each access moves one message from
one sequence to the next (`MovedOn`, `AddedLast`).

**GrpcServer.** A writer has a Write outstanding exactly when its queue is not empty,
and what a stream carries is for its peer, ordered, and numbered below what has
been read so far, which is what makes the next message fit (`StreamOK`).

**Relay.** `WriterOK` relates `writing_started_`, the writes pending and the queue,
for either initial value of the flag; a session is open exactly while a handler
holds it (`Held`), and every entry is that of an open session (`EntryOpen`). `Findable`
needs in addition that no two sessions that exist have one address
(`OnePerAddress`). A step that ends the process leaves all of it as it is
(`terminated` alone changes), so that each theorem holds of the last state too.

**Rendezvous.** The age of an entry is paid for by requests that were lost since
the last beat, but for one that is on its way (`AgeBound`).

**WsServer.** Sessions with the same endpoint are in `shared` (`SharedSound`), so that
the destructor of one does not unlist another that is not. Who walks the table
holds the mutex (`WalkerLocks`), so that no constructor and no destructor can run
and what is listed and what is ahead stay the table.

**ByteString.** A step of the code maps to a step of `ByteFile` only if the data
lies within the buffer and holds none of the uninitialised bytes that `new`
returns: otherwise a copy would read past the end, or a reader see `Junk`. `Sound`
says so, and that the size of a buffer is an aligned one: then a copy, which asks
for the size of the buffer it copies from, gets just that, and however often strings
are copied their buffers do not grow. `Inv` says it of every object.
That the new buffer is large enough is `DoubledIs`: the power of two it picks is
at least what is needed and less than twice that. Then each operation has one lemma
on its result (`ResizedIs`, `WrittenIs`, `AppendStep` ...), and one that its step is
that of a file. `Power`, `Begins` and `WithFields` are recursive functions, whose
defining equation has to be proved before it can be used: `Recursion` does it once,
and `Induction` gives the induction over the fields, both for sets instead of
operators and by taking a least counterexample (`LeastExists`). `RoundTrip` follows
from two facts: what is serialized holds each field at the place where it begins
(`Holds`, by induction over the fields), and bytes that are enough for the fields are
read field by field from those places (`Reading`).

The invariants were checked with TLC, on the bounds of the runs or somewhat larger
ones, before they were proved.

### Only model-checked

- Liveness (`ArrivesOrWedged`, `HandshakeCompletes`, `SentOrAsleep`, `LoginNoticed`,
  `AllWritten`, `Discovery`, `Forgets`, `Forgotten`): out of the prover's reach.
- `Restartable`, which is violated.

## Not modelled

Ciphers, which are calls of a library; widgets and logging; the configuration of
`client/sml`, a map that is read once; the rings between an application and the
event loop, queues under a lock whose commands `Peer` executes in one step;
comparison of byte strings (`operator<` compares only the common length, so that
a string and its prefix are each `>` the other; nothing sorts them);
`client/Client.cpp`, which is compiled out; `HandlePing`, which is never
instantiated; the `abort` and `keep_alive` datagrams, which are handled or created
but never sent; parse errors, which throw out of the event loop of `peer` (that
they occur exactly for short input is part of `RoundTrip`); failures to open the
websocket server's acceptor or to resolve the host's name, which end the program
at its start; use of freed memory (a peer deleted with a queued handler, the
local buffer of `session::do_write`), which has no meaningful next state.

## Plan

1. Done: `BytePipe`, `Stream`, `StreamProofs`, `Peer`, `GrpcClient`, `GrpcServer`,
   `Relay`.
2. Done: `Rendezvous`, `WsServer`, `ByteFile`, `ByteString`, `Preferences`; delivery
   of the stream under all losses (`ArrivesOrWedged`); the start of the chat client.
   A composition of `Peer` and `Stream`, a stream across a reset, was left out:
   `reset` destroys the streams, and what arrives for them afterwards makes new
   ones, which `NoPhantomStream` is about.
3. Done: the proofs of `Rendezvous`, `WsServer`, `GrpcClient`, `GrpcServer`, `Relay` and
   `Peer`, and `IsBytePipe`.
4. Done: the proofs of `ByteString`: `IsByteFile` and `RoundTrip`. What is left is
   liveness, which stays with TLC.

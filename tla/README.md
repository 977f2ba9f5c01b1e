# Volex in TLA+

Volex is a schema language with a compiler (`volexc`, Rust) that generates code
for Rust, Go and TypeScript, and one runtime library per language: a wire codec
and an RPC stack.  This directory models the parts of it that keep state over
time, model-checks them with TLC and proves theorems about them with TLAPS.

    tlc -workers 2 -config RustClient.cfg MCRustClient      # any row of "Runs"
    tlapm RustClientProofs.tla

`PROJECT.json` maps every definition to the source lines it models, and lists
the runs, the mutants that show each property can fail, the findings, the
hazards and the theorems.

## 1. Inventory

| Component | State it keeps | Operations | Hard behaviour |
|---|---|---|---|
| Rust `PacketClient` (`runtime-rust/src/rpc.rs` 355-662) | pending map, id counter, outgoing queue (64), one oneshot or one queue (16) per call | `call_unary`, `call_stream`, `StreamReceiver::recv`, drop of any of these, `run` (two loops and an exit guard), a cancel task per stream | futures dropped at any await, bounded queues, a map borrowed across an await, an exit at any await |
| Rust `PacketServer` (`rpc.rs` 40-50, 180-360, 664-776) | map of cancel senders, outgoing queue (64), a queue (16) per stream | `run`, one handler future per call, `StreamSenderBase::{send,error,drop}`, one forwarder per stream | CANCEL racing with a handler, destructors that may not wait, exit with tasks in flight |
| Generated Rust dispatch (`volexc/src/codegen_rust.rs` 718-840) | none | `handle_call` | error replies compete with CANCEL |
| Go `PacketClient` (`runtime-go/rpc.go` 140-405) | pending map and id under a mutex, `recvErr` under another, channels of 1 and 16 | `Run`, `CallUnary`, `CallStream`, `Recv`, `Cancel` | preemptive threads, check-then-act across two locks, sends that give up |
| Go `PacketServer` (`rpc.go` 407-555) | `activeCalls` under a mutex | `Run`, a goroutine per call, `Send*` | contexts, handlers that outlive the loop |
| TypeScript `PacketClient` (`runtime-typescript/rpc.ts` 311-620) | pending map, waiters and queues per stream, abort controllers | as above, on one event loop | abort listeners installed after an await, events queued twice |
| Packet transports: TCP and WebSocket (`rpc.rs` 785-848 and 1376-1456, `rpc.go` 556-730, `rpc.ts` 60-292) | what is read of a packet, queues of 64 or 100 packets, waiters | `send`, `recv`, a reading and a writing task, listeners of socket events | packets in pieces, several in one piece, cut anywhere; what is queued when a connection closes |
| HTTP clients (`rpc.rs` 865-1112, `rpc.go` 744-904, `rpc.ts` 620-) | a buffer of the body, a queue (16) of events | `call_unary`, `call_stream`, a task that reads the body of a stream | bodies in chunks, bodies cut short, callers that stop reading or leave |
| HTTP servers (`rpc.rs` 1116-1366, `rpc.go` 911-1064) | the handler's future inside the response's body; a context | `handle_request`, `StreamBody::poll_frame`, `serveHTTP`, `Send*` | a method that is polled only while its body is; disconnects |
| Wire codecs (`runtime-rust/src/lib.rs`, `runtime-go/volex.go`, `runtime-typescript/volex.ts`, and the encoders and decoders `volexc/src/codegen_*.rs` generate) | none | LEB128, zigzag, presence bits, tags, skipping of unknown fields, structs, messages, enums, unions, arrays, maps | three hand-written copies of each rule, two versions of a schema, messages cut short |
| Parser (`volexc/src/parser.rs`) | none | a schema and errors from a text | recovery after syntax errors |
| Checker (`volexc/src/checker.rs`, `schema.rs`) | symbol tables | names, indices, types, map keys by language | recursion through a type graph |
| Derived traits (`volexc/src/codegen_rust.rs` 20-206) | the items being looked at | `can_derive` | has to agree with the checker on map keys |
| Language server (`volexc/src/bin/volex-lsp`) | the text of each document and what `compile` made of it | open, change, close, definition, hover, references, rename, code action, shutdown | requests on broken texts; messages that cross; a checker that does not return |
| Compiler driver, declarations in generated code, editor extension, testers | - | text in, text out | see section 6 |

How they interact: a generated client calls `ClientTransport::call_unary` or
`call_stream`; `PacketClient` gives the call an id, puts it into the pending map
and queues a REQUEST; `run` writes the queue to the transport and sorts what the
transport delivers into the calls' channels.  `PacketServer::run` reads REQUEST
and CANCEL, spawns the generated `handle_call` for each request, and writes what
handlers and stream forwarders queue.  Messages are RESPONSE, STREAM_ITEM,
STREAM_END, ERROR one way and REQUEST, CANCEL the other
(`doc/rpc_transport.md`).  Below them a `PacketTransport` carries packets over
TCP or WebSocket; over HTTP there are no packets, and each call is a request
with a connection of its own.  Generated code encodes requests and outcomes.
`volexc` and `volex-lsp` both call `compile`, which parses and checks a text;
only a text without errors gets to the generators.

What makes the RPC stack correct: a caller gets the outcome of its own call, the
items of a stream arrive in order, once, and none is skipped; a caller is never
left waiting when its connection is gone; a call that is cancelled stops and is
forgotten on both sides; the end of one call does no harm to another one.  A
transport delivers packets whole, once and in order, as soon as they are there,
and says when it cannot.  A codec writes what the documents say, the same bytes
in every language; a reader takes these bytes and no others, keeps what both
versions of a schema know, and does not take half a message for a whole one.
The checker accepts what the generated code can be compiled from, and an editor
sees the errors of its text, and edits that keep a schema's meaning.

## 2. Plan

| Order | Module | What | Status |
|---|---|---|---|
| 1 | `RustClient` | `PacketClient` against any peer | done |
| 2 | `RustServer` | `PacketServer`, dispatch, stream senders against any peer | done |
| 3 | `CallContract`, `RustRpc` | what a call promises; both ends over a connection implement it | done |
| 4 | `RustClientProofs` | types, answers, exit of the client, CANCEL behind REQUEST, forgotten calls, for all constants | done |
| 5 | `GoClient`, `GoServer` | goroutines, two mutexes, contexts, dropped channel sends, against any peer that keeps to the protocol | done |
| 6 | `GoRpc` | both Go ends over a connection implement `CallContract` | done |
| 7 | `TsClient` | one event loop: aborts around awaits, waiters and queues (there is no TypeScript server) | done |
| 8 | `PacketChannel`, `PacketLink`, `TcpTransport`, `WebSocketTransport`, `TsTransports`, `PacketTransports` | what the RPC layer asks of a transport; every receiving end implements it | done |
| 9 | `HttpCall`, `HttpClient`, `RustHttpServer`, `GoHttpServer`, `HttpRpc` | every client and server implement `CallContract` | done |
| 10 | `Leb128`, `Schema`, `WireBytes`, `WireRust`, `WireGo`, `WireTs`, `Exchange`, `Wire` | the codecs, and what the documents promise of an exchange | done |
| 11 | `SchemaParser`, `Checker`, `LanguageServer` | texts, type graphs, and an editor at work | done |
| 12 | `GoClientProofs`, `GoServerProofs` | types, answers, the pending map, order of messages, cancellation | done |
| 13 | `RustServerProofs` | order and completeness of what the server writes | done |
| 14 | `TsClientProofs` | types, order of items, endings, waiters, the pending map | done |
| 15 | `RustRpcProofs` | both Rust ends over a connection implement `CallContract`, for all constants | done |
| 16 | `GoRpcProofs` | both Go ends over a connection implement `CallContract`, for all constants | done |
| 17 | `TransportsProofs` | every packet transport implements `PacketChannel`, calls over HTTP `CallContract`, for all constants | done |

What the Go and TypeScript modules share with the Rust ones is the contract, not
the code: each runtime is translated from its own source, and the compositions
are checked against the same `CallContract`.

## 3. Modules

**`RustClient`** models `PacketClient`.  The client is single-threaded (`Rc`,
`RefCell`, `spawn_local`), so a step is what one future does between two
`.await`s, and steps of different futures interleave in any order.  Any await
may suspend, also one that could complete at once: tokio does so when a task's
budget is used up.

| TLA+ | code |
|---|---|
| `pending`, `kind` | `pending: RefCell<HashMap<..>>` and the variant of an entry |
| `phase`, `result` | the caller's future: waiting for a queue slot (`sending`), for the response (`waiting`), holding a `StreamReceiver` (`open`), finished, dropped, panicked; and what its last await returned |
| `resp`, `events` | the oneshot of a unary call, the event queue of a stream |
| `cancel` | the cancel task of a stream, from armed to done |
| `rx` | the event the receive loop holds while it awaits room in a stream's queue; not idle = the map is borrowed |
| `tx`, `c2s` | the outgoing queue, and what was written |
| `Begin`, `SendRequest`, `SendFailed`, `DropSending` | `call_unary` / `call_stream` up to the completed `tx_send.send`, its failure, a drop at this await |
| `UnaryResult`, `DropUnary` | the response await and the guard |
| `StreamRecv`, `DropStream`, `CancelTask` | `StreamReceiver::recv`, its drop, the spawned task |
| `RunStart`, `Receive`, `Deliver`, `TxLoop`, `RunExit` | the two loops and the exit guard |

The peer is any program that speaks the message layer: it may send any message
for any id at any time.  `TxLoop` takes a packet and writes it in one step; the
packet it holds while it writes is one more slot of the queue, which the
capacity bound stands for.

**`RustServer`** models `PacketServer::run`, `spawn_cancellable`, the generated
`handle_call`, `StreamSenderBase` and the forwarder of `into_stream_sender`.
`cancel_txs` and `signal` are the map of cancel senders and what a handler's
receiver would yield; `handler` is how far a handler's future has got; `sq`,
`held`, `fwd` are a stream's queue, the message its forwarder holds and the
forwarder itself; `outq` and `s2c` are the outgoing queue and what was written.
The application's service method is external: it takes any time, yields any
items, returns or fails at will; it does not panic and does not hand its
`StreamSender` to another task.  A call id is requested once per connection, as
`PacketClient` does.

`CallsEndOnce` speaks of pairs of messages, so that it says of any two of them
what may follow what: nothing of a call behind its reply or its ending, items
counted up, and before each item the one it follows.

**`CallContract`** is the abstract specification: a service method produces
outcomes, its caller gets a prefix of them, each once and in order, and as long
as the caller's end of the connection is up it is told that a stream is over
only when every item was read and the method returned.

**`RustRpc`** joins a client (`C!`) and a server (`S!`) by a reliable FIFO
connection, adds history variables for what methods produced and callers were
told, and is shown to implement `CallContract`.  Either end may leave `run` at
any time; what was written and not read may be lost.

**`GoClient`** models `PacketClient` of the Go runtime.  Goroutines are
preempted anywhere, so a step is one critical section, one channel operation or
one `Send` of the transport.  The locks `mu` and `recvErrMu` are never held
together, and the code's check-then-act pairs come apart: `CheckErr` reads
`recvErr`, `Register` takes an id and lists the call, and `Fail` and `NotifyAll`
of the loop fit between the two.

| TLA+ | code |
|---|---|
| `next_id`, `pending`, `kind` | `nextID`, the pending map and whether an entry is a stream |
| `entering` | callers that passed `getRecvError` and hold no id yet |
| `phase` | the caller's goroutine: in `Send` (`sending`), about to undo a failed one, in the select of `CallUnary` (`waiting`), holding a `StreamReceiver` (`open`), in `sendCancel`, about to take its entry out of the map (`leaving`) |
| `resp`, `errc`, `events` | `respChan`, `errChan`, `streamChan` |
| `stopped` | receivers whose `cancelFunc` was taken |
| `recvErr`, `loop`, `hand` | `recvErr`, where `Run` is, the message it handles |
| `asked`, `given_up`, `over` | what the peer knows: REQUESTs and CANCELs sent, calls it has sent the last message for |
| `CheckErr`, `Register`, `WriteRequest`, `SendRequest`, `SendFailed` | `CallUnary` and `CallStream` up to the return of `Send` |
| `UnaryDone`, `UnaryResponse`, `UnaryError` | the three cases of the select |
| `RecvItem`, `RecvDone`, `CancelStream` | `StreamReceiver` |
| `SendCancel`, `Leave` | `sendCancel` and the deletion of the entry |
| `Receive`, `Handle`, `Unlist`, `Fail`, `NotifyAll` | `Run`: look an entry up, offer the outcome to its channel, delete it; `setRecvError` |

`WriteRequest` is a step before `SendRequest` because the peer may answer a
request before the `Send` that wrote it returns.  `Offer` is the select with a
default case: what does not fit is lost.

**`GoServer`** models `PacketServer.Run` and the generated `HandleCall`: one
goroutine per call, a context per call derived from that of `Run`, `activeCalls`
under its mutex, and messages made whole by the transport's `writeMu`.  Nothing
waits for a call's goroutine: it may write after `Run` returned.

**`GoRpc`** joins the two (`C!`, `S!`) and implements `CallContract`, under the
named assumption `MaxItems < StreamCap` that a stream fits into its channel.
Without it the code drops items and the contract does not hold; `GoClient` has
the small channel.  Contexts are left to `GoClient` and `GoServer`: in `GoRpc` a
stream is given up by `Cancel`.

**`TsClient`** models `PacketClient` of the TypeScript runtime.  There is one
event loop, so a step is what a function does between two awaits, and checking
`recvError` and registering a call is one step.  What may come between are the
awaits of `send`, of `responsePromise` and of `recv()`.

| TLA+ | code |
|---|---|
| `pending`, `kind`, `next_id` | the map, the type of an entry, `nextId` |
| `promise` | what `responsePromise` is settled with |
| `queue`, `waiters` | the fields of `PendingStream`; waiters are alike and only counted |
| `told` | history: what a call, or its calls of `recv()`, returned or threw |
| `signal`, `listening` | the `AbortSignal` of a call, and whether its listener was there before the abort |
| `loop` | `run()`; `failed` is `recvError` too |
| `Call`, `Sent`, `SendFailed`, `Return` | `callUnary` and `callStream` up to `await send`, its two outcomes, the await of `responsePromise` |
| `Recv`, `Push`, `WakeAll` | `recv()`, and how events get to it |
| `HandleMessage`, `RunFail`, `Abort` | `handleMessage`, the catch of `run`, `onAbort` with `sendCancel` |

Nothing keeps a caller from calling `recv()` again while one call waits, or
after the stream is over, and the model lets it.

**`PacketChannel`** is the abstract transport of `doc/rpc_transport.md`: packets
are received whole, once, in order; `recv` fails when the connection broke, or
when its sender closed it and everything was received.

**`PacketLink`** is one direction of a connection, external to the repository:
nothing is reordered or duplicated, and when it breaks (`Cut`) the end of what
is under way is lost.  On it run **`TcpTransport`** (Rust; the algorithm of Go
is the same), **`WebSocketTransport`** (Rust, and `GoWsRecv` for the `Recv` of
Go) and **`TsTransports`** (the receiving ends of TypeScript).

| TLA+ | code |
|---|---|
| `writing`, `reading` | the buffers `write_all` has left; the length, shift and bytes of the packet that `recv` has got so far |
| `TcpSend`, `TcpWrite`, `TcpReadPrefix`, `TcpReadData`, `TcpReadFails` | `send` and its pieces; the loop over the length; `read_exact`; its error |
| `write_q`, `read_q`, `write_loop`, `read_loop` | the two channels and the two tasks of `WebSocketTransport::new` |
| `buffer`, `queue`, `waiting`, `closed` | the fields of the TypeScript classes |
| `TsTcpData`, `TsWsMessage`, `TsTcpRecv`, `TsWsRecv` | listeners with `processBuffer`; `recv` |

**`PacketTransports`** has one behaviour per transport and shows that each is a
`PacketChannel`.  Two of them are so only if a close is taken for a break
(`LossyAtClose`): `Recv` of Go's `WebSocketTransport` selects at random between
its error and what is queued, and `recv` of TypeScript's `TcpTransport` looks at
`closed` before it looks at its buffer.  Without the exception TLC finds the
lost packet at once.

**`HttpCall`** is one call and its connection: head, body under way, whether the
body's end follows.  **`HttpClient`** is the client of all three languages, which
make the same requests and read alike; `client` tells them apart where they
differ: Go takes `io.ErrUnexpectedEOF` between two messages for the end of a
stream (`CutEvents`), Rust drops its body while Go and TypeScript have it closed
under them, and TypeScript's queue has no bound.  **`RustHttpServer`** has the
future of the generated `handle_call` (`handler`), the oneshot of its response
and the channel of its stream: `handle_request` polls the future until there is
a response, and `StreamBody::poll_frame` polls it from then on, so that the
method stands still while nothing is taken from the body (`Polled`), and is
dropped with it.  **`GoHttpServer`** has the goroutine of a request and its
context.  **`HttpRpc`** joins each client to each server and is shown to
implement the same `CallContract` as the packet stacks.  **`Transports`** checks
the packet transports and the calls over HTTP side by side: a behaviour is of one
of them.

**`Leb128`** has the numbers of the wire format, **`Schema`** what
`schema.rs` says of sizes and wire types, **`WireBytes`** what the runtimes have in
common, and **`WireRust`**, **`WireGo`**, **`WireTs`** what each language does
of its own: the code its generator emits for structs, messages, enums and unions,
and its runtime's helpers.  A value is a record, a sequence or a number; a map is
the sequence of its entries; a decoder yields a value and the rest of the buffer,
or an error.  **`Exchange`** says what `doc/wire_format.md` and
`doc/reference.md` promise without bytes and languages: what both versions of a
schema know arrives, other fields are dropped or have their defaults, an unknown
variant is an error.  **`Wire`** passes a message on between programs of three
languages and two versions of a schema, and implements `Exchange`.

**`SchemaParser`** is the grammar of `parser.rs` with its two recoveries (skip to
the next item, skip within a block) over texts of tokens; **`Checker`** has
every rule of `checker.rs`, `compile`, and the derived traits of
`codegen_rust.rs`, whose recursion must agree with the checker's;
**`LanguageServer`** has the message loop and requests of `volex-lsp`, and an
editor (external) that goes on typing while messages are on their way.

| TLA+ | code |
|---|---|
| `documents`, `running` | `VolexLsp.documents`; `main_loop`, which ends at a shutdown or with the recursion of `validate_map_key_type` |
| `update_document`, `did_close`, `handle_request`, `handle_shutdown` | `handle_notification`, `handle_request` |
| `find_item_at_position`, `goto_definition`, `hover`, `references`, `rename`, `code_action` | the functions of `lsp.rs` |
| `inbox`, `outbox`, `text`, `shown`, `asked`, `last` | the two directions of the connection, and what the editor shows and awaits |

**`MCRustClient`**, **`MCRustRpc`**, **`MCGoRpc`**, **`MCWire`**,
**`MCLanguageServer`** and **`MCTransports`** give constants their values for
TLC.  **`RustClientProofs`**, **`RustServerProofs`**, **`RustRpcProofs`**,
**`GoClientProofs`**, **`GoServerProofs`**, **`GoRpcProofs`**,
**`TsClientProofs`** and **`TransportsProofs`** hold the theorems.  Each module of the RPC stack states the types of its variables as
`TypeOK`; where it is proved (section 5) the runs leave it to the proof.

## 4. Runs

| Run | Question | Bounds |
|---|---|---|
| `rust_client` | Are answers lost, does the end of `run` release and wake every call, can CANCEL overtake REQUEST, do abandoned calls leave the map? | 2 calls of any kind, queue of 2, stream queue of 1, one payload |
| `rust_server` | Is what is written for a call well formed, ordered, complete? Do the handlers of a dropped server, and forwarders, end? | 2 calls of up to 2 items, queues of 1 |
| `rust_rpc` | Do both ends implement `CallContract` while calls are dropped, or either end leaves `run`; does a written answer reach its caller, a written CANCEL its handler? | one stream and one unary call, 1 item, queues of 1 |
| `go_client` | Does the answer of a unary call find its caller, do finished calls leave the map, does a context end its call? | 2 calls, stream channel of 1, items that are not told apart |
| `go_server` | Does a call end once on the wire, can every live call be cancelled as long as `Run` receives? | 2 calls of up to 2 items |
| `go_rpc` | Do both Go ends implement `CallContract`, while streams are cancelled and either end exits? | one stream and one unary call, 1 item, stream channel of 2 |
| `ts_client` | Are items told in order and never after an ending, does every way a call can end leave its caller an ending, does a `recv()` wait for what cannot come? | 2 calls, 2 items, 3 calls of `recv()` per stream |
| `transports` | Is every packet transport a `PacketChannel`, and does a connection that stays up deliver? Does every HTTP client and server implement `CallContract`, are endings true, do outcomes arrive, do dropped calls stop? | 3 packets of 1 or 2 bytes, 2 items, queues and channels of 1, 4 bytes under way before a writer waits |
| `wire` | Do values arrive as `Exchange` says, do all languages write the same bytes, does a reader stop where the message ends, is a cut noticed? | one message with every type of a corpus, any number of hops, any cut |
| `language_server` | Do diagnostics settle, are look-ups exact, are edits accepted, is an accepted map key comparable, are derived traits those a type allows, is every request answered? | 11 texts, sound and broken, typed into three of them, any request at any token; 441 texts for the ways a key can be made of types |

Two calls are enough for what one call can do to another, which needs one of
each; queues of one or two are full and empty in every order; two items through
a queue of one and a forwarder that holds one show loss and reordering.  Larger
queues and more calls only lengthen the same interleavings.  The ids stop at
`MaxCalls` and the numbers of a stream's items at `MaxItems`; nothing else is bounded
besides the queues, whose bounds are the code's own.

`transports`: a byte carries one bit and whether another follows (`Group` = 1),
so that a packet of two bytes has a prefix of two; the socket takes and yields
pieces of every size, and the connection is cut at every byte.  With queues of
one, two items and an ending fill each of them.  A peer that does not keep to
the format, a request that is no POST, or one that is cut short gets no call and
is left out.  The sending ends of Rust stand for those of Go and TypeScript,
which hand a packet to the socket without a queue.

`wire`: a byte has 2 + 1 bits, and `u16`, `u32`, `u64` have 4, 7 and 11, so that
numbers take one to six bytes and the widths differ; each type has values at the
ends of its range.  7 bits for the numbers TypeScript shifts make index 7 the
largest it can read, as 2^29 is with 32.  The corpus leaves out what the code
does not support or the documents do not define: `u64` and `i64` values that a
JavaScript number cannot hold; two required arrays or maps in one Go struct
(does not compile), fixed-size structs in a map of a Go message (the generator
panics); elements of size zero; new required fields of named types, which have no
documented default.  TypeScript is given no cut message, as its reader takes
missing bytes for zeros.  Maps keep their order: no order of entries is promised.

`go_server`: once `Run` has returned nobody reads CANCEL, and `Run` does not
cancel the contexts of its calls, although `doc/rpc_transport.md:235` promises
implicit cancellation when a connection is closed.  `LiveCallsCanBeCancelled`
states this as its exception: such a call ends only with the context of `Run`.

`language_server`: one document, one request at a time under way, three messages;
references are asked for with and without the definition.  An item whose body
does not parse is recovered only if brackets of all three kinds match in it: one
text has such an item, another one without a match, of which nothing is kept.
Positions are tokens; where exactly the parser reports a syntax error is
abstracted.  The parts of a response type are left out of `AnswersAreExact` and
`EditsAreAccepted` (`HiddenUse`): the server looks at it one level deep, and
takes `stream T` for one name.

Two runs end in a counterexample, where a document promises what the code does
not do:

* `rust_client_panic`: while the receive loop waits for room in one stream's
  queue, any other call on the client panics (`RefCell` borrowed across an
  await);
* `wire_unknown`: a TypeScript program refuses a message with a field it does not
  know, which Rust and Go skip.

The models also reproduce what no run is spent on, as one step shows it: a
streaming method that returns with its queue full sends no STREAM_END
(`RustServer!ReturnStream`); a Go call that passed the check of `recvErr` and
registers after `setRecvError` went through the map is not told
(`GoClient!CheckErr`, `Register`, `NotifyAll`); the end of a Go stream is dropped
when its channel is full (`GoClient!Offer`).  `PROJECT.json` has them as hazards.

Liveness assumes of Rust that a woken future is polled (weak fairness of the
loops, the callers and the cancel branch), that the connection takes what is
written, and that tokio hands the slots of a full queue to its waiters in FIFO
order (strong fairness of `ForwardSend`).  In `RustRpc` the application also
keeps reading its streams: a stream nobody reads holds up its connection by
design.  Of Go it assumes that a runnable goroutine runs and that the
transport's `Send` returns, be it with an error (weak fairness of `Run` and of a
unary call's steps).  Of the transports it assumes that tasks which can move are
polled, that a connection carries what is written, that `run` calls `recv` for as
long as it does not fail, that hyper and `net/http` notice a closed connection,
and, for `OutcomesArrive`, that the application keeps reading its stream.  Of the
language server it assumes that the loop takes the next message unless the
checker does not return, and that the editor reads what it is sent.  Nothing
obliges an application to make, read or drop a
call, a peer to answer, nor a service method to return.

Deadlock is not checked: an ended client with no call left has nothing to do.

## 5. Proofs

For every number of calls, of items, and every capacity, TLAPS checks:

| Theorem | Property | Assumptions |
|---|---|---|
| `RustClientProofs!Typed` | `TypeOK`, with the bounds of the queues | `ClientAssumption`: capacities of at least one, payloads that differ from "no payload" |
| `RustClientProofs!AnswersAreNotLost` | `NoLostAnswer` | the same |
| `RustClientProofs!ExitReleases` | `ExitReleasesCalls` | the same |
| `RustClientProofs!CancelsFollow` | `CancelFollowsRequest` | the same |
| `RustClientProofs!AbandonedAreForgotten` | `AbandonedCallsForgotten` | the same |
| `RustServerProofs!Typed` | `TypeOK`, with the bounds of the queues | `ServerAssumption`: capacities of at least one, bounds that are numbers |
| `RustServerProofs!EndsOnce` | `CallsEndOnce` | the same |
| `RustServerProofs!RepliesKept` | `RepliesAreKept` | the same |
| `GoClientProofs!Typed` | `TypeOK`, with the bounds of the channels | `GoClientAssumption`: a stream's channel holds at least one |
| `GoClientProofs!AnswersReachCallers` | `AnswersAreKept` | the same |
| `GoClientProofs!CallsLeaveTheMap` | `CallsAreForgotten` | the same |
| `GoServerProofs!Typed` | `TypeOK` | `GoServerAssumption`: the bounds are numbers |
| `GoServerProofs!EndsOnce` | `CallsEndOnce` | the same |
| `GoServerProofs!Cancellable` | `LiveCallsCanBeCancelled` | the same |
| `TsClientProofs!Typed` | `TypeOK` | `TsClientAssumption`: the bounds are numbers |
| `TsClientProofs!ItemsOrdered` | `ItemsInOrder` | the same |
| `TsClientProofs!RecvsServed` | `RecvsAreServed` | the same |
| `TsClientProofs!CallsEnd` | `EveryCallEnds` | the same |
| `TsClientProofs!CallsForgotten` | `CallsAreForgotten` | the same |
| `RustRpcProofs!Typed`, `Inductive` | `TypeOK`, `IInv` | `RpcAssumption`: a script of calls, capacities of at least one, sets of faults |
| `RustRpcProofs!CallsAreHonest` | `ImplementsContract` | the same |
| `GoRpcProofs!Typed`, `Inductive` | `TypeOK`, `IInv` | `GoRpcAssumption`: a script of calls, a set of faults, and `MaxItems < StreamCap` |
| `GoRpcProofs!CallsAreHonest` | `ImplementsContract` | the same |
| `TransportsProofs!WsInductive` | `WsIInv` | none but what the modules say of their constants |
| `TransportsProofs!WebSocketsAreChannels` | `ImplementsChannel`, for the three WebSocket transports | the same |
| `TransportsProofs!LebRoundTrip` | that `decode_leb128_u64` reads every u64 as `encode_leb128_u64` wrote it, and leaves what follows | `LebAssumption`, and those of the next |
| `TransportsProofs!HttpInductive` | `HttpIInv` | `HttpAssumption`: the bodies of items fit one byte, a u64 has more than two bits; `PowersAssumption`: arithmetic of 2^n |
| `TransportsProofs!EndsHonest` | `EndsAreHonest` | the same |
| `TransportsProofs!CallsOverHttp` | `HttpImplementsContract` | the same |
| `TransportsProofs!TcpInductive` | `TcpIInv` | `PacketAssumption`: a packet has at least one byte and its length is a u64; `PowersAssumption` |
| `TransportsProofs!TcpAreChannels` | `ImplementsChannel`, for TCP in Rust and Go and in TypeScript | the same |
| `TransportsProofs!TransportsAreChannels` | `ImplementsChannel`, outright | the same |

Each module proves one inductive invariant, `IInv` (in `RustClientProofs` also
`PInv`, on top of it; `WsIInv`, `HttpIInv` and `TcpIInv` in `TransportsProofs`), one
conjunct at a time.
TLC checked each on its run's constants before it was proved (of those in
`TransportsProofs`, which quantify over infinite sets, only what they imply), that of `RustRpc`
also with two items per stream and every set of faults, that of `GoRpc` also with
three items in a stream's channel of four.  The `TypeOK` of the Rust client is checked by its run
too; the other runs leave theirs to the proof.

* Rust client.  `NoLostAnswer` alone is not inductive: a response may arrive, or
  `run` end, before the caller got its queue slot, so `Registered` already speaks
  of callers that are still sending; `KindsMatch` keeps a stream's cancel task
  from taking out a unary call's entry; `Fresh` keeps a new call from meeting an
  old cancel task; `RunOver` says what may be left in the map and that no event
  is in hand once `run` has ended.
* What the Rust client writes.  That CANCEL comes behind REQUEST depends on which
  futures can still queue a packet: `PacketsHaveCalls` ties each packet to the
  phase of its call, `CancelIsLast` says that neither guard nor cancel task is
  left behind a CANCEL, and `RequestQueued` that as long as one is left, the
  REQUEST is there.  `TasksFollowDrops` says when the cancel task of a stream is
  done, which is what keeps an abandoned call out of the map.
* Rust server.  A message passes four stations (handler, its reply or its
  stream's queue, forwarder, outgoing queue), and what the peer reads is in order
  only because each of them is.  `Forwarded` counts what is past the forwarder;
  `QueueOK` says that a stream's queue goes on from there and that an ending is
  the last thing a handler puts into it; `Accounted` reads off each written
  message how far its call has got, so that a call that may still write has
  written nothing but lesser items; `OutComplete` is the converse, that what is
  past the forwarder and every reply was written.  `EndsOnce` needs the account in
  both directions, `RepliesKept` the second one.
* Go client.  `Listed` speaks of callers that are still in `Send`, because the
  answer may be handled before it returns; `InHand` says that the message in the
  loop's hand is one for a call of the right kind, so that an answer goes into a
  channel its caller selects on; `InProgress` bridges the gap between the
  critical section that hands an error over and the one that deletes the entry:
  an error in `errChan` of a listed call means that the loop is about to delete
  it; `Fresh` needs the sum of ids taken and of callers about to take one.
* Go server.  `WrittenByTask` ties every written message to how far its call's
  goroutine has got, which is what keeps a second ending out.
* TypeScript client.  What a stream's callers were told and what is queued for
  them are one sequence, `Events`, which only grows.  `StreamOK` says that as long
  as the stream is in the map `Events` is as long as what the peer has sent, so
  that the next item goes to its place; `MapOK` says which calls are in the map,
  and that they have no ending yet; `KindOK` bounds what a unary call and a stream
  may have, and keeps a waiter and a queued event apart; `FreshOK` keeps a new id
  from meeting anything old.
* Both Rust ends.  The composition needs the invariants of both ends (`Ends`), and
  that a step of one end leaves the other's alone: `SameServer` and `SameClient`
  take the actions of the instances for those the earlier proofs are about.  On
  top of it `ServerHalf` follows an outcome on its way out: `MadeOK` ties what a
  method has produced to its handler, `EndingOK` says of each queued ending that
  the method ended so, or that its caller is gone, and `WellWritten` says the same
  of each packet and that an ending has the last item in front of it.
  `ClientHalf` follows it in: what a caller was told, its queue and the event in
  the receive loop's hand number the events without a gap (`Due`), and a call in
  the map has read just these (`ReadOK`), so that the next packet for it is the
  next outcome.  `OverOK` says that a stream which left the map has its ending in
  sight.  Then each step produces, gets, breaks or fails in `CallContract`, or
  stutters.  What may go wrong is a variable, `faults`: the theorem is about every
  set of faults at once.
* Both Go ends.  The plan is that of the Rust ends: `Ends` has the invariants of
  both, `MadeOK` and `WellWritten` follow an outcome out of its method.  What is
  different is the way in.  An outcome sits in a channel, in the hand of the loop
  or with the caller, and any critical section of the loop and of callers may lie
  between two of these places: `DueFrom` numbers what a channel holds from what
  the caller was told, and `Count` says how many outcomes have passed the lookup,
  the one in hand with them.  `OpenOK` is the heart of it: as long as a listed
  stream has not ended, its channel holds items only and the client has read just
  `Count` of them, so that the next message is the next outcome, and a client that
  fails puts its error behind them.  With `MaxItems < StreamCap` a channel of
  items always has room for one value more (`HasRoom`): this, and nothing else, is
  what the assumption is needed for.  The contract's connection is up until
  `recvErr` is set or a `Send` has failed; that it stays down (`StaysDown`) needs
  that the caller which was told so is done, and that it is not down while outcomes
  of methods are told (`StaysUp`) that these are never that error.
* WebSocket transports.  `Flow` says that there is a number for each place
  between the frames on the link, namely how many packets are in front of it; it
  starts with what was received or waits for `recv`, each binary frame adds one and
  carries just that packet, and on an intact connection the packets that wait to
  be written go on from the last number.  `Closing` says that the closing handshake
  is the last frame, sent when nothing waits any more, so that a receiving end which
  stops on an intact connection has everything.  Pings, a cut of any number of
  frames and the three receiving ends are steps like any other.
* Calls over HTTP.  First, numbers: that `encode_leb128_u64` does what its
  recursive definition says (`Encoded`) is not given but proved, from the least
  number at which two encoders would differ, and `LebRoundTrip` that
  `decode_leb128_u64` reads every number of a word as it was written, whatever
  follows it.  The argument is about a number of which some bytes were read: `Left`
  says that these have a value l, and that the others encode a number u with
  v = l + u * 2^shift; `PrefixByte` that the next byte keeps this, or is the last
  one and makes v.  On this rests `FrameRead`: a buffer that begins with a part of
  a frame holds no message, and one that begins with all of it just its message.
  `Framed` says of bytes that they begin the frames of the outcomes from one number
  to another, each where the one before it ends, and are all of them if nothing was
  cut; a frame more, a frame read and bytes lost at the end keep it.  `Streamed` is
  the heart of `HttpIInv`: what the client has not parsed, with what is under way
  behind it, is `Framed` from the first outcome of which the caller has no event to
  the last one written, `Queues` continues it with the messages in the channel, and
  a body that is complete ends the stream.  `Replied` says the same of responses that are
  no stream, `Queued` of each event that waits that it is the next outcome, or that the
  connection was cut and no Rust or TypeScript caller is told an end.  `RustServing`,
  `GoServing` and `CallerOK` say how far each side is.
* TCP transports.  The bytes `recv` has taken and not returned, those on the link
  and those `send` has still to write are joined to one sequence (`Bytes`), and
  `Carried` says, as `Framed` does above, that it is the frames from the first
  packet that was not returned to the last one sent, or, once the connection broke,
  begins so.  What
  Rust's `recv` took from the socket it does not keep: it has a length and a shift.
  `Left`, as above, says of these that the bytes they stand for begin the length of
  the next packet.  TypeScript keeps its bytes and decodes them anew
  each time: `Decoded` proves that `decodeVarint` gives the length once its last
  byte is there, whatever is behind it, and else a header longer than what came;
  hence a buffer that `recv` takes for a whole packet begins with the next one
  (`BufferHolds`).  Where the connection breaks, bytes are lost at the end only
  (`CarriedCut`), so that no part of a packet is returned for a whole one; and when
  `recv` of Rust or Go fails on a connection that did not break, everything was
  returned (`AllReturned`).  With the three WebSocket transports this makes
  `PacketChannel` a theorem of `Spec` itself.

`PowersAssumption` says of the powers of two, up to the width of a word, what the
provers cannot work out from the recursive definition of `^`: they are positive,
2^(m+n) is 2^m times 2^n, and 2^n is at least 2n.  TLC evaluates it, like each
assumption, on the run's constants.

Out of the prover's reach is liveness: `ExitWakesCallers`, `DropStopsHandlers`,
`ForwardersEnd`, `AnswersArrive`, `PacketsArrive` and the like are only
model-checked.  So are the codecs, parser, checker and language server, which
recurse over types and values with RECURSIVE operators, of which no theorem can be
proved here.

## 6. What is not modelled

* Text that the generators emit and that holds no decision a model could check:
  declarations, accessors, generated clients, indentation and names.  What the
  generated codecs and dispatchers do is modelled.
* Reading arguments and files, and writing the output (`volexc`); the VS Code
  extension, which starts `volex-lsp`; the conformance testers.
* The lexer, and with it escapes, comments and columns: positions are tokens.
  That `lsp.rs` takes a UTF-16 column for a number of characters (line 579) is
  below that.  The wording of hovers and messages.
* Send and Close of Go's `WebSocketTransport`, which write without a queue, the
  contexts of its Send and Recv, and the sending ends of the TypeScript
  transports, which hand a packet to the socket.
* Peers that do not keep to the packet format, HTTP requests that are no POST or
  are cut short.
* Ids are never reused (the counter is 64 bits wide), memory is not exhausted, and
  a Rust `PacketClient` outlives its calls, which borrow it.  One goroutine at a
  time uses a `StreamReceiver`, and Go's `Run` is called once.  A TypeScript
  promise that is rejected before anybody awaits it (the connection ends while
  `callUnary` awaits `send`) is not taken for the end of the process, as Node.js
  does by default.
* Below `RustRpc` and `GoRpc` is a reliable FIFO connection, which
  `PacketTransports` shows the transports to be (`TransportsAreChannels`).

# Formal models of xyhttpd

xyhttpd is a small HTTP server library in C++ over libuv. Its code looks
blocking: every connection is served by a fiber, and a fiber that has to wait
switches to the libuv loop, whose callbacks switch back. This directory models
the parts whose correctness depends on the order of such steps, checks them
with TLC and proves the central invariants with TLAPS.

## Inventory

Paths are relative to the repository.

| Component | State it keeps | Operations | Talks to |
|---|---|---|---|
| `fiber` (src/httpcore/xyfiber.cpp) | `_current`, and for each fiber `_prev`, `self`, `_terminated`, a stack; the stack pool | `launch`, `resume`, `raise`, `yield`, `preserve`, the end in `wrapper` | resumed by the libuv callbacks of streams |
| `stream` (xystream.cpp) | `reading_fiber`, `_decoder`, `buffer`, `_timeout`, the timer, the libuv handle | `read`, `write`, `shutdown`, `connect`, `set_timeout`, `accept`; callbacks for data, timeout and completions | `fiber` (yield/resume), decoders, libuv |
| `http_transaction` (xyhttpapi.cpp) | `_transfer_mode`, `_headerSent`, `_finished`, `_gzip`, `_noGzip`, `_tx_buffer`, `_response` | `write`, `finish`, `display_error`, `redirect_to`, `serve_file`, `forward_to`, `upgrade`, `accept_websocket` | the connection's stream; files; upstream streams; FastCGI |
| `http_connection`, `http_server` (xyhttp.cpp) | `_keep_alive`, `_upgraded`, `_strm`, the request decoder | `service_loop`, `next_request`, `invoke_service`, `keep_alive`, `upgrade` | a service; transactions |
| `websocket` (xyhttpapi.cpp) | `_reassembled`, `_done`, `_alive`, `_strm`, zlib streams | `poll`, `read`, `send`, `cleanup` | the upgraded stream |
| decoders (xyhttp.cpp, xyfcgi.cpp, xyhttpapi.cpp) | bytes still expected | `decode` | `stream_buffer` |
| `http_client` (xyhttp.cpp) | `_reusable`, the transfer decoder | `send`, `read` | a stream |
| `tls_stream`, `https_server` (xyhttptls.cpp) | `_ssl`, two BIOs, `_handshake_ok` | `read`, `write`, `handle_want` | the plain stream below |
| FastCGI client (xyfcgi.cpp) | `_env`, `_env_sent` | `set_env`, `write`, `read` | a stream |
| services (xyhttpsvc.cpp) | lists and maps of services, `_cur` | `serve` | transactions |
| base64, tinyhttpd, tls_context, `chunk`, formatting | - | pure code, wiring | - |

What is hard about them, and what makes them correct:

* **fiber.** `swapcontext()` saves the running context into whatever slot the
  code names, and the code names it from `_current`. Fibers are launched and
  resumed from inside other fibers, end while others wait on them, and may be
  destroyed by the last pointer that goes. Correct: `_current` is the running
  context; control goes back to whoever resumed; a stack with frames is never
  pooled, unmapped or shared.
* **stream.** Callbacks dereference `reading_fiber` and `_decoder` without a
  check, so whenever one can run they must be set. One reader at a time, any
  number of writers; partial data, timeouts, decoding errors, end of file and
  requests completing while other fibers run. Correct: no reader or writer is
  lost, none is woken by what it does not wait for, no byte is lost, and a
  reader is woken when it should be.
* **transactions and connections.** Framing is decided as late as possible, in
  three modes and with optional compression; any write may fail, services call
  methods in any order, and errors are handled at two levels. Correct: a
  connection is reused only when the client knows where the response ended.
* **websocket.** Messages come in fragments, control frames come between them,
  answering one yields in the middle of a message, and the connection may end
  anywhere. Correct: `read` returns exactly the peer's messages.
* **decoders.** Messages are cut out of one buffer, into which the peer's bytes
  come in any pieces; a decoder that has too little must be tried again from the
  start. Correct: what is decoded does not depend on the pieces.
* **tls_stream.** Readers and writers share one engine, which may want to read
  when it is asked to write; a connection may turn out not to be TLS at all.
  Correct: one reader, no message lost on the way through three buffers, and a
  handshake in which neither side waits for the other.
* **http_client.** Requests are given up, by an error or a timeout, and answered
  late. Correct: no answer is taken for another one's.
* **FastCGI.** A request of many records is written before an application that
  may log, end or die at any point is read. Correct: the order of the records,
  and no response passed off as whole that is not.
* **services.** A chain asks after each member whether the header was sent;
  connections share the list of backends. Correct: what was answered stays
  answered, and backends take turns.

There are no threads and nothing is persisted: the hazards are interleavings at
the points where a fiber yields, callbacks in any order, errors half way, and
long sequences of legal calls. `PROJECT.json` lists them line by line.

## Modules

| Module | Models |
|---|---|
| `Fiber` | xyfiber.cpp, POSIX branch |
| `Coroutine` | abstract specification: asymmetric coroutines, a stack of entered fibers and a set of parked ones |
| `FiberRefinement`, `FiberProofs` | the mapping from `Fiber` to `Coroutine`; theorems about `Fiber`, that it implements `Coroutine` among them |
| `ByteChannel` | abstract specification: a channel with one reader at a time, whose reads return messages and whose requests end in order |
| `Stream`, `StreamProofs` | one plain stream of xystream.cpp, its fibers, libuv and the peer; implements `ByteChannel`; theorems, the implementation among them |
| `HttpTransaction` | the methods of `http_transaction` as set-valued functions on a record |
| `HttpConnection`, `HttpConnectionProofs` | `service_loop` and `invoke_service` around any service (extends `HttpTransaction`); theorems, with what each method makes of a transaction |
| `Services`, `ServicesProofs` | the services of xyhttpsvc.cpp on several connections (extends `HttpTransaction`, implements `HttpConnection`); theorems, the implementation among them |
| `FcgiRelay`, `FcgiRelayProofs` | `fcgi_connection` and `forward_to` record by record (extends `HttpTransaction`, covered by its `forward_to_fcgi`); theorems |
| `WebSocket`, `WebSocketEcho`, `WebSocketEchoProofs` | receiving on a websocket; both directions, with the compressor and other senders; theorems about both, and about `FrameCodec` |
| `TlsStream`, `TlsStreamProofs` | `tls_stream`: reads and writes of several fibers over one engine; theorems |
| `HttpHead`, `TransferDecoder`, `HttpMessages`, `HttpMessagesProofs` | heads; bodies; a connection read message by message out of one buffer; theorems |
| `HttpClient` | `http_client` against a server that answers late; theorems, in `HttpMessagesProofs` |
| `FrameCodec` | headers of WebSocket frames and FastCGI records |
| `MC*` | instances for TLC |

### Fiber

Variables carry the names of the members. Two more say what the code does not
store: `running`, the context that has the processor, and `at`, where each
context would go on. `Launch`, `Resume` and `Yield` are the functions of those
names (`raise` is a `resume` whose woken `yield` throws at once). `Finish` is
the end of `wrapper` together with the end of the `resume` it returns to,
because no other code runs between. `Release` is the loss of the last pointer
outside the class: `~preserve`, or the `move(self->_fiber)` of a callback.

`resume` refuses a terminated or the current fiber, and nothing more. The model
resumes only fibers parked in `yield`, because all callers in the repository
do; resuming a fiber that is itself inside `resume` is outside the model.

### Stream

Everything from a callback to the next wait runs without interruption, so one
action is one such stretch. `ReadNow`, `ReadFails` and `ReadWaits` are the
ways through `read`; `Write` and `Shutdown` queue a `write_request`; `OnData`
is `on_data` with `_commit_rx` and, when the reader is resumed, the end of
`_do_read` and `read`. `Enter` and `Leave` are a fiber's other business.
Bytes are numbered tokens; a token continues a message, ends it or makes it
malformed. The two decoders, one that wants a whole message and one that takes
anything, are the two ways in which the decoders of the repository behave.

`ByteChannel` is what is left when the socket, the timer and the handle are
hidden: `Coming` joins buffer and socket, `Wants` is the decoder while somebody
reads, and `Waiting` the fibers inside a call. A read of a message returns the
tokens up to the first end, of all that is coming and not of what has arrived,
so that where the bytes were cut cannot be seen.

Assumed of the callers: `connect` is called before a stream is shared, and the
last pointer to a stream is not dropped while a fiber reads it, since readers
hold one. Assumed of libuv: requests complete in order, a callback is not
called after `uv_read_stop` or `uv_timer_stop`, end of file is reported once.

### HttpTransaction and HttpConnection

A transaction is used by one fiber, so its methods need no interleaving; what
branches is which write fails, how long the file or the upstream body is and
how much output the compressor gives. Each method is therefore an operator from
a state to the set of states in which it can end, and `Then` sequences two of
them unless the first has thrown. The record also has the connection's members
and `wire`, what the client has received. Contents are sizes: 0x200 bytes are
`GzipMin` units, 0x20000 bytes `ChunkMin`. The mapping of the code's five
writers of the header to `start_transfer`, and its assertion, are kept. An
upstream answers with one of `UpstreamCodes`; one without a description ends
the method in the exception `"null"`, which stands for the `strlen()` of a null
pointer.

A service is any sequence of at most `MaxCalls` calls, with exceptions leaving
it. It is assumed to choose a code, a file or an upstream before it writes body
bytes, and to write none for a 204, neither by `write` nor by `serve_file`. The
guards of `Next` say so, and `OneHeaderFirst` holds under them: a service that
calls `get_response(204)` and then `serve_file` can have the header written with
the file and again by `finish`, where the assertion of `start_transfer`
(xyhttpapi.cpp:311) fails, and one that writes too early can compress half a
page and then turn into a 304 sent in chunks.

### Services

The stack of tinyhttpd (TLS filter, logger, routes, a nested chain of file and
proxy services) serves several connections, one fiber each. A chain asks for
`header_sent()` after each member and so does every chain around it with
nothing in between, so what is left to serve is one sequence, `pending`. The
actions are one for each kind of service: `ServeTlsFilter`, `ServeRoute`,
`ServeFiles` (the walk along the path, default documents, the redirection of a
directory), `ServeProxy` with its wait for the connection (`Connected`,
`ConnectFails`), and external ones for a page and a websocket handler.
`AppendBackend` may come between any two steps. `Stack` names the services there
are, so that the members of a chain and the target of a route are services again
(`IsStack`); a TLS filter answers with a redirection, 403 or 502, which is what
`HttpConnection` lets a service display. `MaxCalls` bounds the calls for one
request as it does there. Backends have distinct names. `Implements` says that to each
connection this is `HttpConnection`: what holds of any service holds of these.

### FcgiRelay

`HttpTransaction` has `forward_to` of a FastCGI connection as one step. Here it
is taken apart: `Connect` with BEGIN_REQUEST, `flush_env` and `EndParams`, a
`WriteBody` for each STDIN record, then one action for each kind of record that
`fcgi_connection::read` can meet, while the application logs, ends or dies. The
application answers when it has as much body as CONTENT_LENGTH says, because no
empty STDIN record is ever sent. `MethodCovers` ties the two levels: whatever
the records do, the transaction ends in a state of the one-step method.

### WebSocket and WebSocketEcho

One fiber polls and reads, as the services of the repository do. A frame is one
step (`TakeClose`, `TakePing`, `TakeData`): the switch of `poll` with what
follows it. `TakePing` ends where the write of the PONG yields, and `Ponged` is
what its completion does. `_done` is null when it is empty, as a `chunk` is, and
so an empty message makes `poll` return true with nothing for `read` to take.
The peer keeps the order of fragments and sends no PONG; it may set the
compression bit without having negotiated it.

`WebSocketEcho` adds the loop `while(ws->poll()) ws->send(ws->read())` of
test-io.cpp and other fibers that send. `send` compresses, then writes: its
`Submit` ends at the yield, after the context of the compressor has moved on.
`Deflate` gives out what fits into the pages that `send` offers, and `pending`
is what zlib holds back. The stream is a plain one or a `tls_stream`, which
refuses to write while the handler reads.

### TlsStream

OpenSSL is external and reduced to what the code sees: flights of the handshake,
records, and how many of our own records wait in `_txbio`. A fiber is in
`do_handshake` or in the loop of `read` or `write` (`stage`); it runs, waits in
`stream::write` (`"flush"`) or in `_do_read` (`"rx"`). `HandleWant` is the
function of that name with its callers' reaction, cut at both waits. `Feed` and
`Fallback` are the two ways through `_commit_rx`; the latter is a client that
does not speak TLS, whose connection goes on as `Stream`. Two outcomes are left open:
libuv refuses a second `uv_read_start` from version 1.42 on (`WaitForData`), and
`SSL_read` may return 0 not only after close_notify but after a fatal alert as
well, so that `read` waits where it would throw (`ReadResult`).

Assumed of the engine: after its handshake it has nothing to send but what
`write` gives it. An answer to a KeyUpdate, a renegotiation, or an alert of its
own about a record that cannot be decrypted would put bytes into `_txbio` in
`SSL_read`; `handle_want` would then write them, and a reader could lose its
place during that write as it can during the handshake. `NoLostReader` in the
`tls` run and `TlsNoLostReader` rest on this as they do on `HandshakeFirst`.

### HttpHead, TransferDecoder and HttpMessages

The automata of both head decoders are tables from state and character kind to
state, run by one function, `DecodeHead`; serializers give the heads to decode.
`TransferDecoder` has the three framings of a body. A chunk's size line that is
not whole is read beyond the buffer (`Overread`): its outcome is any of those
that memory can give. In `HttpMessages` the characters of whole conversations
reach the buffer in any pieces and `TryHead` and `TryBody` are tried on it as
`stream::read` tries them.

What the peer sends is fixed by `MessagesAssumption`: a good message is one that
`serialize` can write or a CGI program may send (`IsRequest`, `IsResponse`,
`IsCgi`; a header is a name of at most `MaxKey` + 1 characters and a value) with
the body that it announces (`HasBody`, `IsChunked`); a malformed one is such that
nothing that follows would make it a head. Names are therefore short: the first
state of the response decoder (xyhttp.cpp:454) puts no limit on what it stores
in `headerKey`, unlike the states for the names after it, and no property speaks
of a response whose first word exceeds it. Nor of chunk sizes that are
negative or exceed an `int`, which `strtol` accepts.

### HttpClient

`send` and `read` are cut at their waits. The server answers in order, with
interim responses, announced bodies that do not come (HEAD), and bodies that
end with the connection. Every item carries the request it was sent for.

### FrameCodec

Both headers byte by byte, with the 24 bits of length that the WebSocket decoder
looks at. State is only how much of the frame has arrived.

## Runs

Twelve runs, of which two are counterexamples.

| Run | Instance | Distinct states | Shows |
|---|---|---|---|
| `fiber` | 3 fibers, 5 stacks, pool of 2 | 13 thousand | `ControlIsCurrent`, `ResumeChain`, `StackOwnership`; `RefinesCoroutine` |
| `stream` | 2 fibers, 3 tokens, with fairness | 158 thousand | `NoLostReader`, `CallbacksHaveReader`, `RequestsMatchWaiters`; `ImplementsChannel`; `TimedReadsReturn`, `ReadersWake`; no deadlock |
| `http_connection` | 4 calls a request, thresholds 2 and 3, files of up to 4 units, upstream codes 200 and 307 | 27 thousand | `FramingExact`, `OneHeaderFirst`, `AnsweredBeforeNext`, `ErrorsAnswered`, `SilentWhenFinished` |
| `websocket` | 4 frames, 1 ahead of the poller, one other sender, pages of 4 units, with fairness | 1.5 million | `MessagesWhole`, `PeerInflates`, `EchoesOnce`, `NullOnlyAfterEmpty`; `PollReturns` |
| `tls` | 2 fibers, 3 records, with fairness | 134 thousand | `NoLostReader`, `SslPresent`, `MessagesConserved`; `HandshakeEnds`, `ReadersServed`; no deadlock |
| `messages` | 2 messages of either kind, chunk sizes of up to 4 digits | 84 thousand | `MessagesAsSent`, `RejectsOnlyMalformed`, `NothingLeftWaiting` |
| `client` | 3 requests | 6.5 thousand | `OwnResponse`, `NothingOutstanding` |
| `frames` | 17 lengths around every boundary | 1.3 thousand | `FramesDecoded` |
| `fcgi` | a body of up to 5 units in records of 2, up to 7 units of answer | 62 thousand | `RequestInOrder`, `NothingCut`, `MethodCovers` |
| `services` | 2 connections with 2 requests and 1, two backends and a third one later | 231 thousand | `RoundRobin`, `FinishedIsFinal`, `Implements` |
| `head_errors` | 2 calls a request | - | a counterexample to `RuntimeErrorsGet500` |
| `tls_shared` | 2 fibers that share the stream before the handshake | - | a counterexample to `NoLostReader` |

**Bounds.** Three fibers are the least with a chain of two pending resumes under
a third context; two pooled stacks let the pool be empty, partly filled and
full, and five stacks leave a fresh one in every state. Two fibers on a stream
are a reader and a competitor, which is all a stream can tell apart (the proofs
cover more); three tokens make a complete message followed by part of another
arrive at once. Thresholds of 2 and 3 units let a body stay under both, cross
one, or cross both in one call, and a file of 4 crosses both by itself; four
calls are enough to start, finish and misuse a transaction and go on. Four
frames are a message of two fragments with a control frame between and something
after it, and every other order; the poller looks at one frame at a time, so
that one ahead of it lets a call find its frame in the buffer or wait for it,
and a page of four units is filled by a message of two tokens and its empty
block, and overflows with three. Three TLS records fill the buffer, the engine
and the socket at once. Two messages are the least in which one can take from
the other, and the limit on the size of a head (`MaxSize`) lies between one
message and two. Three requests of a client are one given up, one whose answer
is late, and one that could be mistaken. A body of 5 units is two full STDIN
records and a short one, one of 4 has none. Two requests of one connection show
its reuse; a second connection picks backends in between. Where a run has
`CHECK_DEADLOCK FALSE`, a closed connection, a finished transfer or an exhausted
bound ends the behaviour; `fiber`, `stream` and `tls` check deadlock.

**Fairness.** `Stream!LiveSpec` has weak fairness of `Leave`: a fiber does not
compute for ever. It has strong fairness of data, end of file and timer
callbacks: an iteration of the libuv loop fires every timer that is due and
polls every descriptor, so a callback whose condition keeps coming back is
called eventually, whatever other callbacks did between. Nothing is assumed of
the peer or of the completion of writes. `TimedReadsReturn` needs the timeout to
stay on, and is about a peer that sends finitely often: each piece of data,
however small, starts the timer anew. `TlsStream!LiveSpec` has the same, with
strong fairness of finished writes (a handshake writes) and weak fairness of a
peer's flights: a TLS peer answers; no timeout is assumed to fire.
`WebSocketEcho!LiveEchoSpec` assumes that a frame that has arrived is read,
which is `ReadersWake` of `Stream`, and that the writes of PONGs end.

## Findings

* `head_errors`: a HEAD request puts its transaction into a mode in which
  `finish` writes no header unless the code is 204 or 304, so a HEAD request
  normally gets no response at all; the run shows it for a service that throws,
  of which test-io.cpp:327 says that it is answered with a 500.
  `AnsweredBeforeNext` and `ErrorsAnswered` are stated of the other methods.
* `tls_shared`: `read` and `write` of a `tls_stream` check `reading_fiber` when
  they begin, but may wait in the write of `handle_want` before they wait for
  data; a second caller that passes the check meanwhile takes the place of the
  first, which nobody resumes again. src/README.md:9 says that a `tls_stream`
  can be used as a `tcp_stream`. The counterexample is one of libuv before 1.42;
  from 1.42 on the second `uv_read_start` fails with `EALREADY` before
  `reading_fiber` is touched, so the first fiber is resumed and the call of the
  second one throws, which a write on a `tcp_stream` would not. The `tls` run has the premise under which it
  can: the stream is shared after its handshake (`HandshakeFirst`), and its
  engine has nothing of its own to send from then on.

Other properties hold only under a premise or with an exception, which is in
their statement. Each of these shows when the premise is dropped:

| Premise or exception | Code | Without it |
|---|---|---|
| headers have values (`IsHeader` in `MessagesAssumption`, for `MessagesAsSent`) | xyhttp.cpp:258, 501 | the first character after the spaces is not looked at, so after `Key:` CR LF the value is the CR, and after `Key:` LF the next line becomes the value |
| a chunk's size line arrives whole (third disjunct of `RejectsOnlyMalformed`) | xyhttp.cpp:552 | with more than three bytes there but not the line end, `strtol` and the tests look behind the buffer and may refuse a good chunk |
| a message fits its page with the empty block (`PeerInflates`) | xyhttpapi.cpp:606 | `deflate` is not called again for the output it holds back, and the four bytes cut off are data |
| the stream does not refuse to write (`~over_tls` in `PeerInflates`) | xyhttpapi.cpp:606, xyhttptls.cpp:110 | the compressor has taken in a message the peer never gets |
| no empty message (`NullOnlyAfterEmpty`) | xyhttpapi.cpp:581, 613 | `poll` returns true, `read` waits again, and after a CLOSE `send` goes through a null stream |
| codes with a description (`exc = "null"` in `HttpConnection!TypeOK`) | xyhttpapi.cpp:74, 134; xyhttp.cpp:386 | `serialize_size` takes the length of a null string |
| not HEAD (`FinishedIsFinal`) | xyhttpsvc.cpp:13 | a finished HEAD response counts as unsent, and the request passes the TLS filter to the next service |

## Proofs

All theorems hold for every value of the constants under the named assumptions
of the modules. They ask for: bounds that are natural numbers; a set of fibers
that is finite and holds no `Nil` (`FiberAssumption`, `TlsAssumption`,
`StreamAssumption`); thresholds with 0 < `GzipMin` <= `ChunkMin` and upstreams
whose codes for responses with a body are not 204 or 304
(`TransactionAssumption`); a record and a page that hold something
(`RelayAssumption`, `EchoAssumption`); lengths below 2^31 (`CodecAssumption`); a
stack whose chains and routes lead to services of the stack, and distinct
backends (`ServicesAssumption`); messages as `HttpMessages` describes them above
(`HeadAssumption`, `MessagesAssumption`). Those about the readers of a `tls_stream` are
also under `HandshakeFirst`, without which they are false.

* `FiberInvariant`: `FiberInv` is the conjunction of `TypeOK`,
  `ControlIsCurrent`, `ResumeChain`, `StackOwnership` and `Existence`, which
  says that exactly the objects that exist have a stack. None of the four is
  inductive alone: a yield writes `current` from `prev`, so control needs the
  chain; the chain needs the stacks, so that a fiber in it is not destroyed; and
  the stacks need control, so that a destroyed fiber is not running. One lemma
  for pushing on the chain (`SwitchExtendsChain`), one for popping
  (`ReturnShrinksChain`) and one each for the pool's two ends carry the argument,
  with one lemma for each action.
* `FiberImplementsCoroutine`: the refinement mapping reads the stack of entered
  fibers off `prev`. `ChainInv` says that there is a sequence that starts at
  `current`, follows `prev` and holds each entered fiber once, and that it is
  the only one; each action of `Fiber` then pushes on it, pops from it or leaves
  it, which is what `Coroutine` may do.
* `StreamWaitInvariant`: `WaitInv` adds to the stated properties that only the
  running fiber is in user code and that `reading_fiber` waits in `read`
  (`OneRuns`). `StreamNoLostReader`, `StreamCallbacksHaveReader` and
  `StreamRequestsMatchWaiters` follow.
* `StreamDataInvariant`: `StreamIntegrity`, the conservation of tokens (what was
  taken, what is buffered and what is in the socket are what was sent, in order),
  with the types of the data path. It rests on lemmas about sequences: a split and concatenated sequence is
  itself, and a decoder takes no more than there is. `StreamKeepsBytes` and
  `StreamTypeCorrect` follow, the latter with a lemma that bounds the requests
  by the fibers.
* `StreamImplementsChannel`: from both invariants, each step of a stream is a
  step of `ByteChannel` or none. A decoder takes from what has arrived what it
  would take from all that is coming (`TakesAnAnswer`), because the first stop of
  a part is the first stop of the whole; a pull from a part leaves the rest of the
  whole (`RestOfConcat`); and a callback that resumes the reader finds it waiting,
  which is what the waiting invariant says (`ResumeEndsRead`). The `stream` run
  checks the implementation instead of `StreamIntegrity`, which it implies.
* `ConnectionInvariant`: for any service. `Sound` relates what the client has
  received to the members of a transaction (`Sent`, `Untold`, `Bodyless`), and
  `Ready` says in which of those states a method may be called. For each method
  one lemma says that from a ready transaction it ends in a sound one, ready
  again unless it has thrown (`Ends`), and that a finished transaction sends
  nothing more; the loops over pieces of a body are by induction on their
  number. `ConnInv` says that a transaction being served is ready, and that
  after it the transaction is `Over`, and `Complete` if the connection takes
  another request: finished, with all of the body it announced. An error page needs in
  addition that a connection which broke before the header keeps it unsent
  (`Stays`). `ConnectionTypeOK`, `ResponsesHaveOneHeader`,
  `ReusedBehindExactFraming`, `AnsweredBeforeReuse`, `ErrorsGetAnswers` and
  `FinishedSendsNothing` are all the invariants and the action property of the
  `http_connection` run.
* `ServicesInvariant`: for any stack of services on any connections. `ServInv`
  says that the transaction of a connection that is being served is ready; that
  as long as anybody is still to serve it, it is `Unanswered`, with no header and
  no body collected; and that a page being written is not finished. It is
  inductive because every method that a service calls finishes the response it
  does not throw from (`Finishes`), and a finished response without a header is
  one to HEAD. From it `AnsweredIsFinal`, and `ServicesImplement`: each step of
  a fiber is a step of `HttpConnection` for its own connection and a stutter for
  the others, so that every theorem about `HttpConnection` holds of what
  tinyhttpd runs. The lemmas about methods are those of `HttpConnectionProofs`,
  instantiated as `Con`.
* `BackendsTakeTurns`: `TurnInv` says of each choice that since then `_cur` has
  moved on by one with every choice, or was taken back to the first behind all
  the backends there were (`MovedOn`). That keeps two choices of one backend
  apart, and appending a backend does not change it.
* `RelayOrderInvariant`: `OrderInv` gives the records written so far as a
  function of how far `forward_to` is (`Begins`, `Stage`), with as many STDIN
  records as the body takes pieces (`Count`). `RelayRequestInOrder` follows.
* `RelayInvariant`: `RelayInv` adds that what the application has sent is what
  the transaction has taken and what is still on its way, unless the application
  has gone without its end record, and that the transaction is a state of the
  method of `HttpTransaction` after as many units (`ForwardWrites`).
  `RelayNothingCut` and `RelayMethodCovers` follow: no answer that was cut off is
  passed off as whole, and the records refine the one-step method.
* `EchoLoopInvariant`, `EchoReadInvariant`: the places of the loop and the
  pointers that are null there (`LoopInv`, kept by seven moves); the tokens the
  peer sent are those taken, being collected and on their way (`TokenInv`), and
  they are grouped into messages as the peer grouped them (`GroupInv`).
  `EchoNullOnlyAfterEmpty` and `EchoMessagesWhole` follow.
* `EchoInvariant`: `HandInv` accounts for the message that the handler holds
  between `read` and the completion of `send`. `EchoEchoesOnce` follows. For
  `EchoPeerInflates` it is `InflateInv`: as long as all messages fit, the
  compressor holds nothing back between two of them, and the peer's context has
  seen what is on the wire.
* `EveryFrame`: `FramesDecoded` for every length below 2^31. `WsLengthRead` and
  `FcgiLengthRead` say that the bytes of a header, written with `div` and `%`,
  give back the length; `DecodedInTime` and `NoGiants` split by the form of the
  header, and the invariant is only the type of the state, because what decodes
  is a function of it.
* `TlsReaderInvariant`, under `HandshakeFirst`: `ReaderInv` adds to
  `NoLostReader` that a fiber which waits in `stream::write` is known as its
  writer (`WritersWait`), that one fiber runs (`OneRuns`), that nobody else uses
  the stream during the handshake (`HandshakeAlone`), and that outside it a fiber
  in `handle_want` has nothing to flush, so that between the check of
  `reading_fiber` and its assignment nobody runs (`NothingHeldBack`). The last
  two are what `tls_shared` lacks. `TlsNoLostReader` follows. `TlsSslPresent` has
  an invariant of its own, `SslInv`: no handshake is over before the first
  record of the peer is there, and `_ssl` is given up at that record or never.
* `TlsMessagesConserved`: the count itself with the types of what is counted
  (`CountInv`). It rests on a lemma about the number of messages in two
  sequences of records put together, which is by induction on their length.
* `RequestRoundTrip`, `ResponseRoundTrip`: the decoders undo the serializers.
  `Reads` says what a scan makes of a sequence of characters from a state of the
  automaton on. A lemma for each part of a head says that it is read into one
  field, by induction over its length; scans of parts put together compose
  (`ScanConcat`), and so the first line, the header lines by induction over
  their number, and the empty line make a head.
* `MessagesReadAsSent`, `OnlyMalformedRejected`, `NothingIsLeftWaiting`: all the
  invariants of the `messages` run, from one inductive invariant, `ReadsAsSent`.
  It says where the reader is (`Place`): what is in the buffer and on its way is
  the rest of the body being read, followed by the messages that have not been
  begun (`Ahead`), and that rest makes the body whole. To it belong that all
  messages read so far are those sent (`Agree`), that a decoder which waits has
  looked at all there is (`LookedInVain`) and that one which has thrown had a
  reason (`MayThrow`). A step of a decoder looks at some first part of what
  lies ahead. `HeadRead` says that of such a part of a head it makes neither an
  end nor an error, and of a longer one the head, whatever follows: a scan that
  has ended does not go on, and it counts no more characters than it has read.
  `MalformedRead` and `ChunkRead` say the like of a malformed head and of a
  chunk, where `Overread` is the one exception.
* `ClientInvariant`: `OwnResponse` is not inductive, because it says nothing of
  what is on its way. `ClientInv` adds that all of that belongs to the request
  asked last (`AllOfLast`), and why that stays so when a request is sent: on a
  connection that is still reusable, what is left of a body is what was
  announced or nothing (`BodyAsAnnounced`), and before its head there is nothing
  else (`HeadFirst`). `ClientOwnResponse` and `ClientNothingOutstanding` follow.

Induction over data is by `SetInduction`: a set of natural numbers with 0 and
the successors of its members is all of them, which follows from the
well-foundedness of `<` in the library. The pieces of a body, the chain of
fibers, the grouping of fragments, scans over characters and sequences flattened
from others are proved with it.

Only model-checked: liveness and the absence of deadlock, which TLAPS does not
reach. Every invariant and every action property of the passing runs is proved.

## Plan

1. Done: all the modules above.
2. Done: proofs of all their invariants and action properties.
3. `ProxyRelay`: `forward_to` of an upstream stream step by step, as `FcgiRelay`.
4. A second poller of a websocket; a client shared by fibers.

## Known hazards without a property

`resume` of a fiber that is itself inside `resume`, and `write` outside a fiber,
are left to the callers, and no caller in the repository does either. Writes
and connects have no timeout. A timer that runs keeps its timeout when
`set_timeout` changes it, and each byte restarts it. The constructor of a
transaction answers 413 before `_noGzip` is set (modelled as a choice; the page
is too short for it to matter). `read()` of a file may return -1, which is
taken for a length. `forward_to` presents a stream upstream's partial body as
complete, by design, and compresses again what was compressed before. A second
poller of a websocket, and two fibers on one `http_client`, pass checks made
before a wait. A response to HEAD, or with code 204 or 304, may announce a body
that never comes; `data_available()` then stays true, and `NothingOutstanding`
is only about clients without it. Three cases are excluded by the premises in
the table above, so that the properties named there do not watch them: a split
size line, a message that fills its page exactly, and a write refused after the
compressor has taken it in. A FastCGI parameter block longer than 65535 bytes is announced
modulo 65536, and no empty STDIN record ends a body. A request body in chunks is
not read. `_fcgi_providers` and `_mimetypes` get an entry for every suffix asked
for. A chain is iterated while another fiber may append to it, and a server that
is destroyed leaves its connections a dangling pointer; neither happens once
tinyhttpd listens.

## Not modelled

The Windows branch of `fiber`; `tls_context` and what OpenSSL, zlib and libuv
do inside; accepting, binding and destroying servers (each accept launches a
fiber with a new connection, and that is `Init` of the modules above);
`host_dispatch_service`, whose constructor is declared and not defined; PONG
frames of the peer; base64 and `url_decode`, pure functions on one buffer; the
options and MIME types of tinyhttpd; logging, time labels, formatting and stack
traces; memory and descriptors that leak when an exception skips a `delete` or a
`close`.

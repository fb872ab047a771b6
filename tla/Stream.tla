------------------------------- MODULE Stream -------------------------------
(***************************************************************************)
(* One plain stream (class stream and tcp_stream::connect of               *)
(* src/src/httpcore/xystream.cpp) shared by several fibers, over libuv.    *)
(*                                                                         *)
(* Everything runs on one thread.  A callback of the libuv loop resumes a  *)
(* fiber, which runs alone (`running') until it waits again, either in one *)
(* of the calls below or somewhere else ("out").                           *)
(*                                                                         *)
(* The peer's bytes are tokens, numbered in the order they were sent: "d"  *)
(* is part of a message, "e" ends one, "x" is malformed.  Two decoders     *)
(* stand for all of them: "frame" waits for a whole message, as the HTTP   *)
(* decoders do, and "any" is string_decoder(-1).                           *)
(***************************************************************************)
EXTENDS Naturals, Sequences, FiniteSets

CONSTANTS Fibers,   \* the fibers that share the stream
          Nil,      \* the null P<fiber> or P<decoder>, and the event loop
          MaxSent   \* bound on the tokens the peer sends

Kinds == {"d", "e", "x"}
Decoders == {"frame", "any"}

ASSUME StreamAssumption ==
  /\ Nil \notin Fibers
  /\ Nil \notin Decoders
  /\ IsFiniteSet(Fibers)
  /\ MaxSent \in Nat

VARIABLES
  running,        \* the fiber in control, Nil for the event loop
  fib,            \* what each fiber does: see Doings
  reading_fiber,  \* stream::reading_fiber
  _decoder,       \* stream::_decoder
  buffer,         \* stream::buffer, a sequence of token numbers
  got,            \* the tokens decoders have taken out of it
  _timeout,       \* whether stream::_timeout > 0
  timer,          \* whether _timeOuter is active
  reading,        \* libuv: between uv_read_start and uv_read_stop
  conn,           \* libuv: the state of the handle, see Conns
  shut,           \* libuv: uv_shutdown was accepted
  queue,          \* libuv: the pending write and shutdown requests
  sent,           \* the kinds of the tokens the peer has sent
  net,            \* the tokens that have not been read from the socket
  eof             \* the peer has closed its side

fiberVars == <<running, fib>>
readVars  == <<reading_fiber, _decoder, reading>>
dataVars  == <<buffer, got>>
uvVars    == <<conn, shut, queue>>
peerVars  == <<sent, net, eof>>
vars == <<fiberVars, readVars, dataVars, _timeout, timer, uvVars, peerVars>>

\* "user" is code outside the stream class; the others are the calls that
\* yield, and "out" any other reason for not running.
Doings == {"user", "read", "write", "shutdown", "connect", "out"}
Waits == {"write", "shutdown"}

\* A stream::write_request: the fiber to resume and the call it serves.
Requests == [fiber : Fibers, op : Waits]

\* "broken": an error was reported; "closed": ~stream closed the handle.
Conns == {"new", "connecting", "open", "broken", "closed"}

Init ==
  /\ running = Nil
  /\ fib = [f \in Fibers |-> "out"]
  /\ reading_fiber = Nil
  /\ _decoder = Nil
  /\ buffer = <<>> /\ got = <<>>
  /\ _timeout = TRUE /\ timer = FALSE
  /\ reading = FALSE
  /\ conn \in {"new", "open"}     \* a client's stream, or an accepted one
  /\ shut = FALSE
  /\ queue = <<>>
  /\ sent = <<>> /\ net = <<>> /\ eof = FALSE

-----------------------------------------------------------------------------
(* Fibers and the event loop.                                              *)

Park(f, why) == running' = Nil /\ fib' = [fib EXCEPT ![f] = why]

Wake(f) == running' = f /\ fib' = [fib EXCEPT ![f] = "user"]

\* The running fiber waits for something else, or ends.
Leave(f) ==
  /\ running = f
  /\ Park(f, "out")
  /\ UNCHANGED <<readVars, dataVars, _timeout, timer, uvVars, peerVars>>

\* A fiber that waited elsewhere goes on, or a new one starts.
Enter(f) ==
  /\ running = Nil /\ fib[f] = "out"
  /\ Wake(f)
  /\ UNCHANGED <<readVars, dataVars, _timeout, timer, uvVars, peerVars>>

\* The running fiber uses a stream that is neither closed nor being connected:
\* connect() is called before a stream is shared.
Calls(f) == running = f /\ conn \notin {"connecting", "closed"}

-----------------------------------------------------------------------------
(* Decoders.                                                               *)

\* Where a "frame" decoder stops: at the first end or malformed token.
Stops(b) == {i \in 1..Len(b) : sent[b[i]] # "d"}
FirstStop(b) == CHOOSE i \in Stops(b) : \A j \in Stops(b) : i <= j

Fails(d, b) == d = "frame" /\ Stops(b) # {} /\ sent[b[FirstStop(b)]] = "x"

\* How many tokens decoder::decode takes when it returns true, else 0.
Takes(d, b) ==
  IF d = "any" THEN Len(b)
  ELSE IF Stops(b) = {} \/ Fails(d, b) THEN 0 ELSE FirstStop(b)

\* decode() on b returns true.
Done(d, b) == Takes(d, b) > 0

\* stream_buffer::pull, by a decoder that takes what it needs from b.
Pull(d, b) ==
  /\ got' = got \o SubSeq(b, 1, Takes(d, b))
  /\ buffer' = SubSeq(b, Takes(d, b) + 1, Len(b))

-----------------------------------------------------------------------------
(* Calls of the running fiber.                                             *)

\* Mutant of Busy: no check for another reader.
NeverBusy == FALSE

Busy == reading_fiber # Nil

\* Mutant of Buffered: the buffer is not tried before the socket.
IgnoresBuffer(d) == FALSE

\* `buffer.size() > 0 && decoder->decode(buffer)' is true, or throws.
Buffered(d) == Done(d, buffer) \/ Fails(d, buffer)

\* A read that throws "read-busy" changes nothing; one that the buffer
\* satisfies, or whose decoder throws, does not wait.
ReadNow(f) ==
  /\ Calls(f) /\ ~Busy
  /\ \E d \in Decoders : Buffered(d) /\ Pull(d, buffer)
  /\ UNCHANGED <<fiberVars, readVars, _timeout, timer, uvVars, peerVars>>

\* uv_read_start fails: IOERR, with _decoder left set.
ReadFails(f) ==
  /\ Calls(f) /\ ~Busy
  /\ conn \in {"new", "broken"}
  /\ \E d \in Decoders : ~Buffered(d) /\ _decoder' = d
  /\ UNCHANGED <<fiberVars, reading_fiber, reading, dataVars, _timeout,
                 timer, uvVars, peerVars>>

\* _do_read() up to its yield().
ReadWaits(f) ==
  /\ Calls(f) /\ ~Busy
  /\ conn \in {"open", "broken"}
  /\ \E d \in Decoders : ~Buffered(d) /\ _decoder' = d
  /\ reading' = TRUE
  /\ timer' = (_timeout \/ timer)
  /\ reading_fiber' = f
  /\ Park(f, "read")
  /\ UNCHANGED <<dataVars, _timeout, uvVars, peerVars>>

\* Mutant of Submit: the fiber does not wait for its request.
SubmitAndGoOn(f, what) ==
  /\ queue' = Append(queue, [fiber |-> f, op |-> what])
  /\ UNCHANGED fiberVars

\* A write_request is queued and its fiber yields.  A request that libuv
\* refuses is deleted, and IOERR changes nothing.
Submit(f, what) ==
  /\ queue' = Append(queue, [fiber |-> f, op |-> what])
  /\ Park(f, what)

Write(f) ==
  /\ Calls(f)
  /\ conn \in {"open", "broken"} /\ ~shut
  /\ Submit(f, "write")
  /\ UNCHANGED <<readVars, dataVars, _timeout, timer, conn, shut, peerVars>>

Shutdown(f) ==
  /\ Calls(f)
  /\ conn \in {"open", "broken"} /\ ~shut
  /\ shut' = TRUE
  /\ Submit(f, "shutdown")
  /\ UNCHANGED <<readVars, dataVars, _timeout, timer, conn, peerVars>>

Connect(f) ==
  /\ Calls(f)
  /\ conn = "new"
  /\ conn' = "connecting"
  /\ Park(f, "connect")
  /\ UNCHANGED <<readVars, dataVars, _timeout, timer, shut, queue, peerVars>>

SetTimeout(f) ==
  /\ Calls(f)
  /\ _timeout' \in BOOLEAN
  /\ UNCHANGED <<fiberVars, readVars, dataVars, timer, uvVars, peerVars>>

\* The last P<stream> goes, while nobody is in read(): its callers in src/
\* hold one.  libuv then cancels the requests that are still queued.
Close(f) ==
  /\ Calls(f)
  /\ reading_fiber = Nil
  /\ conn' = "closed"
  /\ reading' = FALSE
  /\ timer' = FALSE
  /\ UNCHANGED <<fiberVars, reading_fiber, _decoder, dataVars, _timeout,
                 shut, queue, peerVars>>

-----------------------------------------------------------------------------
(* Callbacks of the event loop.                                            *)

\* reading_fiber is resumed in _do_read(), stops reading and drops _decoder.
ResumeReader ==
  /\ Wake(reading_fiber)
  /\ reading_fiber' = Nil
  /\ _decoder' = Nil
  /\ reading' = FALSE

\* Mutant of RaiseReader: the catch block does not stop reading.
RaiseKeepsReading ==
  /\ Wake(reading_fiber)
  /\ reading_fiber' = Nil
  /\ _decoder' = Nil
  /\ UNCHANGED reading

\* The catch block of _commit_rx: the error leaves _do_read() and read()
\* without their last lines, so it stops reading and drops _decoder itself.
RaiseReader ==
  /\ reading' = FALSE
  /\ _decoder' = Nil
  /\ Wake(reading_fiber)
  /\ reading_fiber' = Nil

\* Mutant of Commit: new data overwrites the old.
CommitOverwrites(k) == SubSeq(net, 1, k)

\* on_alloc and stream_buffer::commit: the buffer with k more tokens.
Commit(k) == buffer \o SubSeq(net, 1, k)

\* Mutant of Rearm: partial data leaves the timer stopped.
NoRearm == FALSE

\* The timer after on_data has stopped it and decode() has returned false.
Rearm == _timeout

\* on_data with data: _commit_rx.
OnData ==
  /\ running = Nil /\ reading
  /\ \E k \in 1..Len(net) :
       LET b == Commit(k) IN
       /\ net' = SubSeq(net, k + 1, Len(net))
       /\ Pull(_decoder, b)
       /\ \/ /\ Done(_decoder, b)
             /\ ResumeReader
             /\ timer' = FALSE
          \/ /\ Fails(_decoder, b)
             /\ RaiseReader
             /\ timer' = FALSE
          \/ /\ ~Done(_decoder, b) /\ ~Fails(_decoder, b)
             /\ timer' = Rearm
             /\ UNCHANGED <<fiberVars, readVars>>
  /\ conn # "broken"
  /\ UNCHANGED <<_timeout, uvVars, sent, eof>>

\* on_data with UV_EOF, which libuv reports once per uv_read_start; also what
\* reading gives after an error has been reported.
OnEof ==
  /\ running = Nil /\ reading
  /\ conn = "broken" \/ (eof /\ net = <<>>)
  /\ timer' = FALSE
  /\ ResumeReader
  /\ UNCHANGED <<dataVars, _timeout, uvVars, peerVars>>

\* on_data with another error.
OnError ==
  /\ running = Nil /\ reading
  /\ timer' = FALSE
  /\ ResumeReader
  /\ conn' = "broken"
  /\ UNCHANGED <<dataVars, _timeout, shut, queue, peerVars>>

OnTimeout ==
  /\ running = Nil /\ timer
  /\ timer' = FALSE
  /\ ResumeReader
  /\ UNCHANGED <<dataVars, _timeout, uvVars, peerVars>>

\* stream_on_write and stream_on_shutdown, in the order of the requests and
\* whatever the status: an error, or UV_ECANCELED, is thrown by the call.
OnRequestDone ==
  /\ running = Nil
  /\ queue # <<>>
  /\ queue' = Tail(queue)
  /\ Wake(Head(queue).fiber)
  /\ UNCHANGED <<readVars, dataVars, _timeout, timer, conn, shut, peerVars>>

\* stream_on_connect; a failed connect() leaves a handle of no use.
OnConnect(f) ==
  /\ running = Nil /\ fib[f] = "connect"
  /\ conn' \in {"open", "broken"}
  /\ Wake(f)
  /\ UNCHANGED <<readVars, dataVars, _timeout, timer, shut, queue, peerVars>>

-----------------------------------------------------------------------------
(* The peer.                                                               *)

PeerSend(kind) ==
  /\ conn = "open" /\ ~eof
  /\ Len(sent) < MaxSent
  /\ sent' = Append(sent, kind)
  /\ net' = Append(net, Len(sent) + 1)
  /\ UNCHANGED <<fiberVars, readVars, dataVars, _timeout, timer, uvVars, eof>>

PeerClose ==
  /\ conn = "open" /\ ~eof
  /\ eof' = TRUE
  /\ UNCHANGED <<fiberVars, readVars, dataVars, _timeout, timer, uvVars,
                 sent, net>>

-----------------------------------------------------------------------------
Call(f) ==
  \/ ReadNow(f) \/ ReadFails(f) \/ ReadWaits(f)
  \/ Write(f) \/ Shutdown(f) \/ Connect(f)
  \/ SetTimeout(f) \/ Close(f)

Next ==
  \/ \E f \in Fibers : Enter(f) \/ Leave(f) \/ Call(f) \/ OnConnect(f)
  \/ OnData \/ OnEof \/ OnError \/ OnTimeout \/ OnRequestDone
  \/ \E kind \in Kinds : PeerSend(kind)
  \/ PeerClose

Spec == Init /\ [][Next]_vars

\* A fiber sooner or later gives control back.  An iteration of the libuv
\* loop fires every due timer and serves every ready socket, however often
\* other callbacks ran in between: hence strong fairness of the callbacks.
Fairness ==
  /\ \A f \in Fibers : WF_vars(Leave(f))
  /\ SF_vars(OnData)
  /\ SF_vars(OnEof)
  /\ SF_vars(OnTimeout)

LiveSpec == Spec /\ Fairness

-----------------------------------------------------------------------------
(* Properties.                                                             *)

FiberTypes ==
  /\ running \in Fibers \cup {Nil}
  /\ fib \in [Fibers -> Doings]
  /\ reading_fiber \in Fibers \cup {Nil}
  /\ _decoder \in Decoders \cup {Nil}
  /\ _timeout \in BOOLEAN /\ timer \in BOOLEAN /\ reading \in BOOLEAN
  /\ conn \in Conns /\ shut \in BOOLEAN
  /\ queue \in Seq(Requests)

DataTypes ==
  /\ buffer \in Seq(1..MaxSent) /\ got \in Seq(1..MaxSent)
  /\ net \in Seq(1..MaxSent)
  /\ sent \in Seq(Kinds) /\ Len(sent) <= MaxSent
  /\ eof \in BOOLEAN

\* Every variable has its type, and libuv never holds more requests of this
\* stream than there are fibers to wait for them.
TypeOK ==
  /\ FiberTypes
  /\ DataTypes
  /\ Len(queue) <= Cardinality(Fibers)

\* A fiber waiting in read() is the one reading_fiber names, so a callback
\* can still find it; libuv is reading for it, and _commit_rx has its decoder.
NoLostReader ==
  \A f \in Fibers : fib[f] = "read" =>
    reading_fiber = f /\ reading /\ _decoder # Nil

\* on_data, on_read_timeout and _commit_rx dereference reading_fiber and
\* _decoder unchecked: whenever one of them can be called, both are set and
\* the fiber is one that waits in read() and not somewhere else.
CallbacksHaveReader ==
  reading \/ timer =>
    /\ reading_fiber # Nil
    /\ fib[reading_fiber] = "read"
    /\ _decoder # Nil

\* A fiber waits in write() or shutdown() for exactly one request, so that
\* no request resumes it when it waits for something else.
RequestsMatchWaiters ==
  /\ \A i \in 1..Len(queue) : fib[queue[i].fiber] = queue[i].op
  /\ \A i, j \in 1..Len(queue) : queue[i].fiber = queue[j].fiber => i = j
  /\ \A f \in Fibers : fib[f] \in Waits =>
       \E i \in 1..Len(queue) : queue[i].fiber = f

\* What the decoders took, what is buffered and what is still in the socket
\* are together what the peer sent, in order: no timeout, decoding error,
\* EOF or change of reader loses, repeats or reorders a byte.
StreamIntegrity == got \o buffer \o net = [i \in 1..Len(sent) |-> i]

\* The stream as a ByteChannel: buffer and socket are one, and what reads the
\* socket, the timer and the state of the handle are hidden.
Coming == buffer \o net
Wants == IF reading_fiber = Nil THEN Nil ELSE _decoder
Waiting == {f \in Fibers : fib[f] \in {"read"} \cup Waits}

Channel == INSTANCE ByteChannel WITH
  coming <- Coming, taken <- got, reader <- reading_fiber, wants <- Wants,
  requests <- queue, waiting <- Waiting

\* Whatever libuv and the peer do: one fiber reads at a time, a read returns the
\* next message, or what has come, however its bytes arrive and whether or not it
\* waits, or throws and takes nothing, and a callback ends the call of exactly
\* the fiber it belongs to, requests in their order.
ImplementsChannel == Channel!ChSpec

\* A read under a timeout ends, whatever the peer does (it sends at most
\* MaxSent tokens: each one, however slow, buys it another timeout).
TimedReadsReturn ==
  [](\A f \in Fibers : fib[f] = "read" => _timeout)
    => \A f \in Fibers : fib[f] = "read" ~> fib[f] # "read"

\* A reader whose decoder has what it needs, in the buffer or in the socket,
\* or whose peer has closed the connection, is woken even without a timeout.
ReadersWake ==
  \A f \in Fibers :
    /\ fib[f] = "read"
    /\ eof \/ Done(_decoder, buffer \o net) \/ Fails(_decoder, buffer \o net)
    ~> fib[f] # "read"
=============================================================================

----------------------------- MODULE TlsStream -----------------------------
(***************************************************************************)
(* class tls_stream of src/src/httpcore/xyhttptls.cpp: read() and write()  *)
(* of several fibers over one SSL engine with memory BIOs.                 *)
(*                                                                         *)
(* The engine is external: it is modelled by how the code uses it.  What   *)
(* the peer sends are records: a flight of the handshake "h", application  *)
(* data "d" in which n messages end, close_notify "c", a fatal alert "a",  *)
(* or, from a peer that does not speak TLS, plain bytes "p".               *)
(* After its handshake the engine has nothing to send but what write()     *)
(* gives it: no answer to a KeyUpdate, no renegotiation.                   *)
(*                                                                         *)
(* One fiber runs at a time, until it waits in stream::write ("flush") or  *)
(* in _do_read ("rx"); an action of a running fiber is one of its steps.   *)
(* A connection that has turned out to be plain is left to module Stream.  *)
(***************************************************************************)
EXTENDS Naturals, Sequences, FiniteSets, FiniteSetsExt

CONSTANTS Fibers,          \* the fibers that share the stream
          Nil,             \* the null P<fiber>
          HandshakeFirst,  \* whether they share it only after the handshake
          MaxRecords       \* bound on the records the peer sends

ASSUME TlsAssumption ==
  /\ Nil \notin Fibers /\ IsFiniteSet(Fibers)
  /\ HandshakeFirst \in BOOLEAN
  /\ MaxRecords \in Nat

VARIABLES
  fib,            \* the call of each fiber: its operation, its stage, where it
                  \* is, and the argument of handle_want while it waits
  reading_fiber,  \* stream::reading_fiber
  reading,        \* libuv: between uv_read_start and uv_read_stop
  queue,          \* libuv: the fibers whose writes are pending
  broken,         \* libuv: an error was reported
  ssl,            \* whether _ssl is not null
  engine,         \* what _ssl, _rxbio and _txbio hold: the flights of the
                  \* peer to come, its records, and how many of ours
  _handshake_ok,
  _chelo_recv,
  buffer,         \* the messages in stream::buffer
  got,            \* the messages decoders have taken out of it
  side,           \* "server": after accept(); "client": after connect()
  net,            \* the records that have not been read from the socket
  peer            \* what it has sent, how many of our records it has got (up
                  \* to two), whether it speaks TLS at all, and is gone

sslVars  == <<ssl, engine, _handshake_ok, _chelo_recv>>
dataVars == <<buffer, got>>
vars == <<fib, reading_fiber, reading, queue, broken, sslVars, dataVars,
          side, net, peer>>

\* A call is in its handshake or in its loop; it runs, waits, or is over.
NoCall == [op |-> "read", stage |-> "handshake", at |-> "out", want |-> "ok"]

\* _chelo_recv after the constructor and accept() or connect().
CheloAfterInit(s) == s = "client"

\* connect() and accept() come before the stream is shared.  A client has its
\* ClientHello to send.
Init ==
  /\ side \in {"server", "client"}
  /\ fib = [f \in Fibers |-> NoCall]
  /\ reading_fiber = Nil /\ reading = FALSE /\ queue = <<>> /\ broken = FALSE
  /\ ssl = TRUE /\ _handshake_ok = FALSE /\ _chelo_recv = CheloAfterInit(side)
  /\ engine = IF side = "server" THEN [need |-> 2, rx |-> <<>>, tx |-> 0]
                                 ELSE [need |-> 1, rx |-> <<>>, tx |-> 1]
  /\ buffer = 0 /\ got = 0 /\ net = <<>>
  /\ \E p \in {FALSE, side = "server"} :
       peer = [flights |-> 0, sent |-> 0, msgs |-> 0, wire |-> 0, plain |-> p,
               gone |-> FALSE]

-----------------------------------------------------------------------------
(* Control.                                                                *)

Idle == \A f \in Fibers : fib[f].at # "run"

Runs(f, stage) == fib[f].at = "run" /\ fib[f].stage = stage

\* The call of f ends, normally or by an exception.
Return(f) == fib' = [fib EXCEPT ![f] = NoCall]

\* Mutant of Busy: no check for another reader.
NeverBusy == FALSE

Busy == reading_fiber # Nil

\* read() or write() up to do_handshake(); when it is refused, nothing changes.
Begin(f, op) ==
  /\ Idle /\ fib[f].at = "out" /\ ~Busy
  /\ HandshakeFirst => _handshake_ok \/ \A g \in Fibers : fib[g].at = "out"
  /\ fib' = [fib EXCEPT ![f] = [NoCall EXCEPT !.op = op, !.at = "run"]]
  /\ UNCHANGED <<reading_fiber, reading, queue, broken, sslVars, dataVars,
                 side, net, peer>>

-----------------------------------------------------------------------------
(* handle_want.                                                            *)

\* _do_read() up to its yield().  uv_read_start on a handle that is being read
\* fails in recent versions of libuv and succeeds in earlier ones.
WaitForData(f) ==
  \/ /\ ~broken
     /\ fib' = [fib EXCEPT ![f].at = "rx"]
     /\ reading_fiber' = f /\ reading' = TRUE
     /\ UNCHANGED _handshake_ok
  \/ /\ broken \/ reading
     /\ Return(f)
     /\ UNCHANGED <<reading_fiber, reading, _handshake_ok>>

\* handle_want after its write, and what its caller does with the result:
\* goes round the loop again, ends the handshake or the write, or throws.
Flushed(f, r) ==
  \/ r = "want" /\ WaitForData(f)
  \/ /\ r = "ok"
     /\ IF fib[f].stage = "handshake"
        THEN /\ _handshake_ok' = TRUE
             /\ fib' = [fib EXCEPT ![f].stage = "loop", ![f].at = "run"]
        ELSE Return(f) /\ UNCHANGED _handshake_ok
     /\ UNCHANGED <<reading_fiber, reading>>
  \/ /\ r = "fail" /\ Return(f)
     /\ UNCHANGED <<reading_fiber, reading, _handshake_ok>>

Pending(e, r) == e.tx > 0

\* stream::write with what was in _txbio.
Submit(f, r) ==
  /\ queue' = Append(queue, f)
  /\ fib' = [fib EXCEPT ![f].at = "flush", ![f].want = r]

\* handle_want(r) with the engine in state e.
HandleWant(f, e, r) ==
  IF Pending(e, r)
  THEN /\ engine' = [e EXCEPT !.tx = 0]
       /\ IF broken THEN Return(f) /\ UNCHANGED <<queue, peer>>
          ELSE /\ Submit(f, r)
               /\ peer' = [peer EXCEPT !.wire = Min({@ + e.tx, 2})]
       /\ UNCHANGED <<reading_fiber, reading, _handshake_ok>>
  ELSE /\ engine' = e
       /\ Flushed(f, r)
       /\ UNCHANGED <<queue, peer>>

-----------------------------------------------------------------------------
(* Steps of the running fiber.                                             *)

First(e) == IF e.rx = <<>> THEN "none" ELSE Head(e.rx).kind

CanAbsorb == engine.need > 0 /\ First(engine) = "h"

\* Inside SSL_do_handshake: a flight is consumed and answered.
Absorb(f) ==
  /\ Runs(f, "handshake") /\ ~_handshake_ok /\ ssl /\ CanAbsorb
  /\ engine' = [need |-> engine.need - 1, rx |-> Tail(engine.rx),
                tx |-> engine.tx + 1]
  /\ UNCHANGED <<fib, reading_fiber, reading, queue, broken, ssl,
                 _handshake_ok, _chelo_recv, dataVars, side, net, peer>>

\* SSL_do_handshake returns.
Handshake(f) ==
  /\ Runs(f, "handshake") /\ ~_handshake_ok /\ ssl /\ ~CanAbsorb
  /\ HandleWant(f, engine, IF engine.need = 0 THEN "ok"
                           ELSE IF First(engine) = "none" THEN "want" ELSE "fail")
  /\ UNCHANGED <<broken, ssl, _chelo_recv, dataVars, side, net>>

\* The handshake is over.  A plain connection goes on in class stream, whose
\* read() tries the buffer first.
HandshakeOver(f) ==
  /\ Runs(f, "handshake") /\ _handshake_ok
  /\ IF ssl THEN fib' = [fib EXCEPT ![f].stage = "loop"] /\ UNCHANGED dataVars
     ELSE /\ Return(f)
          /\ IF fib[f].op = "read" THEN got' = got + buffer /\ buffer' = 0
             ELSE UNCHANGED dataVars
  /\ UNCHANGED <<reading_fiber, reading, queue, broken, sslVars, side, net, peer>>

\* Mutant of Buffered: the buffer is not tried before the engine.
IgnoresBuffer == FALSE

\* `buffer.size() > 0 && decoder->decode(buffer)'.
Buffered == buffer > 0

\* A message is decoded from the buffer.
ReadNow(f) ==
  /\ Runs(f, "loop") /\ fib[f].op = "read" /\ Buffered
  /\ buffer' = buffer - 1 /\ got' = got + 1
  /\ Return(f)
  /\ UNCHANGED <<reading_fiber, reading, queue, broken, sslVars, side, net, peer>>

\* SSL_read returns a record of data, and the decoder is tried.
ReadRecord(f) ==
  /\ Runs(f, "loop") /\ fib[f].op = "read" /\ ~Buffered
  /\ First(engine) = "d"
  /\ LET n == buffer + Head(engine.rx).n IN
     IF n > 0 THEN /\ buffer' = n - 1 /\ got' = got + 1
                   /\ Return(f)
     ELSE UNCHANGED <<dataVars, fib>>
  /\ engine' = [engine EXCEPT !.rx = Tail(@)]
  /\ UNCHANGED <<reading_fiber, reading, queue, broken, ssl, _handshake_ok,
                 _chelo_recv, side, net, peer>>

\* What read() makes of an SSL_read without data.  It returns 0 after
\* close_notify, and may do so after a fatal alert: then read() waits for more.
ReadResult(r) ==
  \/ r = "want" /\ First(engine) \in {"none", "c", "a"}
  \/ r = "fail" /\ First(engine) \notin {"none", "c"}

ReadWants(f) ==
  /\ Runs(f, "loop") /\ fib[f].op = "read" /\ ~Buffered
  /\ First(engine) # "d"
  /\ \E r \in {"want", "fail"} : ReadResult(r) /\ HandleWant(f, engine, r)
  /\ UNCHANGED <<broken, ssl, _chelo_recv, dataVars, side, net>>

\* SSL_write and handle_want.
Write(f) ==
  /\ Runs(f, "loop") /\ fib[f].op = "write"
  /\ HandleWant(f, [engine EXCEPT !.tx = @ + 1], "ok")
  /\ UNCHANGED <<broken, ssl, _chelo_recv, dataVars, side, net>>

Step(f) ==
  \/ Absorb(f) \/ Handshake(f) \/ HandshakeOver(f)
  \/ ReadNow(f) \/ ReadRecord(f) \/ ReadWants(f) \/ Write(f)

-----------------------------------------------------------------------------
(* Callbacks of the event loop.                                            *)

\* stream_on_write resumes the writer in handle_want.
OnWriteDone ==
  /\ Idle /\ queue # <<>>
  /\ queue' = Tail(queue)
  /\ LET f == Head(queue) IN
     \/ ~broken /\ Flushed(f, fib[f].want) /\ UNCHANGED broken
     \/ /\ Return(f) /\ broken' = TRUE
        /\ UNCHANGED <<reading_fiber, reading, _handshake_ok>>
  /\ UNCHANGED <<ssl, engine, _chelo_recv, dataVars, side, net, peer>>

\* The rest of _do_read().
StopReading == reading_fiber' = Nil /\ reading' = FALSE

\* The messages that end in the records of s.
Messages(s) ==
  LET n[i \in 0..Len(s)] == IF i = 0 THEN 0 ELSE n[i-1] + s[i].n IN n[Len(s)]

\* Mutant of Fallback: what was read is not committed to the buffer.
FallbackDrops(k) ==
  /\ _handshake_ok' = TRUE /\ ssl' = FALSE
  /\ UNCHANGED <<engine, _chelo_recv, dataVars>>

\* Mutant of Fallback: _handshake_ok is not set.
FallbackForgets(k) ==
  /\ buffer' = buffer + Messages(SubSeq(net, 1, k)) /\ ssl' = FALSE
  /\ UNCHANGED <<engine, _handshake_ok, _chelo_recv, got>>

\* The first byte is not that of a handshake record: the bytes are what the
\* decoders want, and the SSL object is released.
Fallback(k) ==
  /\ buffer' = buffer + Messages(SubSeq(net, 1, k))
  /\ _handshake_ok' = TRUE /\ ssl' = FALSE
  /\ UNCHANGED <<engine, _chelo_recv, got>>

\* Mutant of Feed: the first record only sets _chelo_recv.
FeedAfterFirst(k) ==
  /\ engine' = [engine EXCEPT !.rx =
                  IF _chelo_recv THEN @ \o SubSeq(net, 1, k) ELSE @]
  /\ _chelo_recv' = TRUE
  /\ UNCHANGED <<ssl, _handshake_ok, dataVars>>

\* BIO_write.
Feed(k) ==
  /\ engine' = [engine EXCEPT !.rx = @ \o SubSeq(net, 1, k)]
  /\ _chelo_recv' = TRUE
  /\ UNCHANGED <<ssl, _handshake_ok, dataVars>>

\* on_data and _commit_rx: the reader goes on in handle_want, which returns
\* true.
OnData ==
  /\ Idle /\ reading /\ ssl /\ ~broken
  /\ \E k \in 1..Len(net) :
       /\ net' = SubSeq(net, k + 1, Len(net))
       /\ IF _chelo_recv \/ Head(net).kind = "h" THEN Feed(k) ELSE Fallback(k)
  /\ fib' = [fib EXCEPT ![reading_fiber].at = "run"]
  /\ StopReading
  /\ UNCHANGED <<queue, broken, side, peer>>

\* _commit_rx with an error, or on_read_timeout: handle_want throws.
ReadError ==
  /\ Idle /\ reading
  /\ Return(reading_fiber)
  /\ StopReading
  /\ UNCHANGED <<queue, sslVars, dataVars, side, net, peer>>

OnTimeout == ReadError /\ UNCHANGED broken
OnError == ReadError /\ broken' = TRUE

-----------------------------------------------------------------------------
(* The peer.                                                               *)

Flights == IF side = "server" THEN 2 ELSE 1

\* It answers our flights: a client speaks first.
MayFly ==
  /\ ~peer.plain /\ ~peer.gone /\ peer.flights < Flights
  /\ peer.wire + (IF side = "server" THEN 1 ELSE 0) > peer.flights

Sends(kind, n) ==
  /\ ~broken /\ ~peer.gone
  /\ net' = Append(net, [kind |-> kind, n |-> n])
  /\ UNCHANGED <<fib, reading_fiber, reading, queue, broken, sslVars, dataVars,
                 side>>

PeerFlight ==
  /\ MayFly /\ Sends("h", 0)
  /\ peer' = [peer EXCEPT !.flights = @ + 1]

\* A record of data, in which up to two messages end.
PeerData(n) ==
  /\ peer.plain \/ peer.flights = Flights
  /\ peer.sent < MaxRecords
  /\ Sends(IF peer.plain THEN "p" ELSE "d", n)
  /\ peer' = [peer EXCEPT !.sent = @ + 1, !.msgs = @ + n]

\* An alert ends what the peer sends.
PeerAlert(kind) ==
  /\ ~peer.plain
  /\ kind = "c" => peer.flights = Flights
  /\ Sends(kind, 0)
  /\ peer' = [peer EXCEPT !.gone = TRUE]

-----------------------------------------------------------------------------
Next ==
  \/ \E f \in Fibers : Step(f) \/ \E op \in {"read", "write"} : Begin(f, op)
  \/ OnWriteDone \/ OnData \/ OnTimeout \/ OnError
  \/ PeerFlight
  \/ \E n \in 0..2 : PeerData(n)
  \/ \E kind \in {"a", "c"} : PeerAlert(kind)

Spec == Init /\ [][Next]_vars

\* A running fiber goes on.  Every iteration of the libuv loop serves ready
\* sockets and finished writes, however often a timeout or another fiber came
\* first: hence strong fairness of the callbacks.  The peer answers.
Fairness ==
  /\ \A f \in Fibers : WF_vars(Step(f))
  /\ SF_vars(OnWriteDone)
  /\ SF_vars(OnData)
  /\ SF_vars(broken /\ OnError)
  /\ WF_vars(PeerFlight)

LiveSpec == Spec /\ Fairness

-----------------------------------------------------------------------------
(* Properties.                                                             *)

\* The fiber that waits for data is the one reading_fiber names, and libuv
\* reads for it; nobody else is ever resumed as a reader.
NoLostReader ==
  /\ \A f \in Fibers : fib[f].at = "rx" => reading_fiber = f
  /\ reading <=> reading_fiber # Nil
  /\ reading_fiber # Nil => fib[reading_fiber].at = "rx"

\* SSL_do_handshake, SSL_read and SSL_write are never called with the null
\* _ssl that a plain connection leaves behind, and a connection made with
\* connect() never falls back to plain text, whatever the server says first.
SslPresent ==
  /\ \A f \in Fibers :
       \/ Runs(f, "handshake") /\ ~_handshake_ok
       \/ Runs(f, "loop")
       => ssl
  /\ side = "client" => ssl

\* The messages decoders took, those in the buffer, in the engine and in the
\* socket are together the messages sent, on a plain connection as well.
MessagesConserved ==
  got + buffer + Messages(engine.rx) + Messages(net) = peer.msgs

\* Every call gets through the handshake, or ends: neither side waits for the
\* other, even if no timeout ever fires.  (A peer that does not speak TLS may
\* say nothing.)
HandshakeEnds ==
  \A f \in Fibers :
    fib[f].at # "out" /\ fib[f].stage = "handshake" /\ ~peer.plain
      ~> fib[f].at = "out" \/ fib[f].stage = "loop"

\* A reader for which a message has arrived returns.
ReadersServed ==
  \A f \in Fibers :
    fib[f].at # "out" /\ fib[f].op = "read"
      /\ buffer + Messages(engine.rx) + Messages(net) > 0
      ~> fib[f].at = "out"
=============================================================================

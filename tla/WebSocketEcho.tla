---------------------------- MODULE WebSocketEcho ----------------------------
(***************************************************************************)
(* Both directions of class websocket (src/src/httpcore/xyhttpapi.cpp): a  *)
(* handler fiber that polls, reads and sends back what it has read, as in  *)
(* src/test/test-io.cpp, and other fibers that hold the same object and    *)
(* send of their own accord.  Receiving is module WebSocket; this module   *)
(* adds send() with the compressor behind it, and the frames that reach    *)
(* the peer.  A message is a sequence of tokens, and so is what a frame     *)
(* carries: a token compresses to one unit, and every message ends in the  *)
(* units of an empty block, which send() cuts off and the peer puts back.  *)
(***************************************************************************)
EXTENDS WebSocket, FiniteSets

CONSTANTS Senders,       \* the other fibers; each sends one message
          Page           \* XY_PAGESIZE, in units

ASSUME EchoAssumption ==
  /\ Page \in Nat \ {0}
  /\ Senders \cap 0..MaxFrames = {}

VARIABLES
  over_tls, \* whether the stream is a tls_stream
  tx_zs,    \* _tx_zs # nullptr
  pending,  \* what the compressor has taken in and not given out
  packed,   \* the messages the compressor has taken in
  wire,     \* the frames written to the stream: [deflated, units, of]
  broken,   \* the stream has failed, and carries nothing any more
  handler,  \* where the handler is in its loop
  message,  \* what its read() returned
  sender    \* where each of the other fibers is

sendVars == <<over_tls, tx_zs, pending, packed, wire, broken>>
userVars == <<handler, message, sender>>
allVars == <<vars, sendVars, userVars>>

\* The four bytes 00 00 ff ff, two units.
EmptyBlock == <<0, 0>>

EchoInit ==
  /\ Init
  /\ over_tls \in BOOLEAN
  /\ tx_zs = rx_zs /\ pending = <<>> /\ packed = <<>> /\ wire = <<>>
  /\ broken = FALSE
  /\ handler = "poll" /\ message = <<>> /\ sender = [s \in Senders |-> "idle"]

-----------------------------------------------------------------------------
(* websocket::send.                                                        *)

\* zlib is given the message m and room for n pages, which are all full or
\* hold everything: what it gives out, and what stays behind.  The empty block
\* is begun when all before it is out and there is room left.
Deflate(m, n) ==
  LET block == pending \o m
      all == block \o EmptyBlock
      room == n * Page
      rest == IF room <= Len(block) THEN block ELSE all IN
  [out |-> SubSeq(all, 1, IF room < Len(all) THEN room ELSE Len(all)),
   rest |-> SubSeq(rest, room + 1, Len(rest))]

\* The loop goes on while there is input.  Of a message that takes several
\* pages zlib may hold all of the input after any of them.
Pages(m) == 1 .. ((Len(pending \o m \o EmptyBlock) + Page - 1) \div Page)

\* Mutant of Compress: the empty block is left where it is.
CompressWhole(m, n) ==
  LET z == Deflate(m, n) IN
  /\ pending' = z.rest /\ packed' = Append(packed, m)
  /\ wire' = IF broken THEN wire
             ELSE Append(wire, [deflated |-> TRUE, of |-> m, units |-> z.out])

\* The compressed message without its last four bytes is written at once.
Compress(m, n) ==
  LET z == Deflate(m, n) IN
  /\ pending' = z.rest /\ packed' = Append(packed, m)
  /\ wire' = IF broken THEN wire
             ELSE Append(wire, [deflated |-> TRUE, of |-> m,
                                units |-> SubSeq(z.out, 1, Len(z.out) - 2)])

Plain(m) ==
  /\ wire' = IF broken THEN wire
             ELSE Append(wire, [deflated |-> FALSE, of |-> m, units |-> m])
  /\ UNCHANGED <<pending, packed>>

\* tls_stream::write throws while somebody waits in read().
Refused == over_tls /\ doing = "read"

\* Up to the yield in stream::write.  A write that is refused comes too late
\* for the compressor.
Submit(m) ==
  /\ alive
  /\ \/ ~(tx_zs /\ m # <<>>) /\ ~Refused /\ Plain(m)
     \/ tx_zs /\ m # <<>> /\ ~Refused /\ \E n \in Pages(m) : Compress(m, n)
  /\ UNCHANGED <<over_tls, tx_zs, broken>>

SubmitRefused(m) ==
  /\ alive /\ Refused
  /\ IF tx_zs /\ m # <<>>
     THEN \E n \in Pages(m) : /\ pending' = Deflate(m, n).rest
                              /\ packed' = Append(packed, m)
     ELSE UNCHANGED <<pending, packed>>
  /\ UNCHANGED <<over_tls, tx_zs, broken, wire>>

\* cleanup() has reset _strm, and send() goes through it all the same.
NullStream == ~alive

\* The completion of a write, or its failure.
WriteEnds == UNCHANGED <<over_tls, tx_zs, pending, packed, wire>> /\ broken' \in {broken, TRUE}

-----------------------------------------------------------------------------
(* The handler: while(ws->poll()) ws->send(ws->read()).                     *)

\* What cleanup() does to the compressor.
Cleaned ==
  tx_zs' = (tx_zs /\ alive') /\ UNCHANGED <<over_tls, pending, packed, wire, broken>>

\* poll() returns at once, or waits for a frame.
Poll ==
  /\ handler = "poll" /\ doing = "user"
  /\ \/ _done # <<>> /\ handler' = "read" /\ UNCHANGED vars
     \/ _done = <<>> /\ ~alive /\ handler' = "over" /\ UNCHANGED vars
     \/ CallWaits("poll") /\ handler' = "polling"
  /\ UNCHANGED <<sendVars, message, sender>>

\* Mutant of TakeMessage: the message stays in _done.
TakeMessageCopies ==
  /\ _done # <<>> /\ message' = _done
  /\ got' = Append(got, _done) /\ UNCHANGED _done

\* read() moves the message out of _done.
TakeMessage ==
  /\ _done # <<>> /\ message' = _done
  /\ got' = Append(got, _done) /\ _done' = <<>>

\* read() takes the message, or waits in poll() for one: so it does after an
\* empty message, which is no message to it.
Read ==
  /\ handler = "read"
  /\ \/ /\ TakeMessage /\ handler' = "send"
        /\ UNCHANGED <<alive, rx_zs, _reassembled, _msg_deflated, callVars,
                       sent, taken>>
     \/ CallWaits("read") /\ handler' = "reading" /\ UNCHANGED message
  /\ UNCHANGED <<sendVars, sender>>

\* A frame of data is taken.  When it completes a message the call returns,
\* and when it cannot be inflated the call throws.
TakesData ==
  /\ handler \in {"polling", "reading"}
  /\ TakeData(CONTINUATION) \/ TakeData(TEXT)
  /\ IF doing' = "read" THEN UNCHANGED <<handler, message>>
     ELSE IF ~alive' THEN handler' = "threw" /\ UNCHANGED message
     ELSE IF handler = "polling" THEN handler' = "read" /\ UNCHANGED message
     ELSE handler' = "send" /\ message' = Last(got')
  /\ Cleaned /\ UNCHANGED sender

\* Mutant of TakesClose: the loop does not look at what poll() returns, and
\* read() returns null to it.
TakesCloseUnchecked ==
  /\ handler \in {"polling", "reading"}
  /\ TakeClose
  /\ handler' = "send"
  /\ message' = <<>>
  /\ Cleaned /\ UNCHANGED sender

\* CLOSE: poll() returns false, and read() returns null.
TakesClose ==
  /\ handler \in {"polling", "reading"}
  /\ TakeClose
  /\ handler' = (IF handler = "polling" THEN "over" ELSE "send")
  /\ message' = <<>>
  /\ Cleaned /\ UNCHANGED sender

\* PING: the PONG is written by the handler itself.
TakesPing ==
  /\ handler \in {"polling", "reading"}
  /\ TakePing
  /\ UNCHANGED <<sendVars, userVars>>

PongEnds ==
  /\ Ponged
  /\ handler' = (IF alive' THEN handler ELSE "threw")
  /\ tx_zs' = (tx_zs /\ alive') /\ broken' = (broken \/ ~alive')
  /\ UNCHANGED <<over_tls, pending, packed, wire, message, sender>>

\* End of file, a failed read or its timeout.
PollFails ==
  /\ ReadFails
  /\ handler' = "threw"
  /\ Cleaned /\ UNCHANGED <<message, sender>>

Echo ==
  /\ handler = "send"
  /\ \/ NullStream /\ handler' = "crashed" /\ UNCHANGED sendVars
     \/ Submit(message) /\ handler' = "sending"
  /\ UNCHANGED <<vars, message, sender>>

\* The handler does not catch what a failed write throws.
Echoed ==
  /\ handler = "sending"
  /\ WriteEnds
  /\ handler' = (IF broken' THEN "threw" ELSE "poll")
  /\ UNCHANGED <<vars, message, sender>>

-----------------------------------------------------------------------------
(* The other fibers.                                                       *)

Send(s) ==
  /\ sender[s] = "idle"
  /\ \/ NullStream /\ sender' = [sender EXCEPT ![s] = "crashed"]
        /\ UNCHANGED sendVars
     \/ Submit(<<s>>) /\ sender' = [sender EXCEPT ![s] = "sending"]
     \/ SubmitRefused(<<s>>) /\ sender' = [sender EXCEPT ![s] = "threw"]
  /\ UNCHANGED <<vars, handler, message>>

Sent(s) ==
  /\ sender[s] = "sending"
  /\ WriteEnds
  /\ sender' = [sender EXCEPT ![s] = IF broken' THEN "threw" ELSE "sent"]
  /\ UNCHANGED <<vars, handler, message>>

PeerSendsFrame == PeerSends /\ UNCHANGED <<sendVars, userVars>>

\* A process that has crashed does nothing any more.
Crashed == handler = "crashed" \/ \E s \in Senders : sender[s] = "crashed"

EchoNext ==
  /\ ~Crashed
  /\ \/ PeerSendsFrame
     \/ Poll \/ Read \/ TakesData \/ TakesClose \/ TakesPing \/ PongEnds
     \/ PollFails \/ Echo \/ Echoed
     \/ \E s \in Senders : Send(s) \/ Sent(s)

EchoSpec == EchoInit /\ [][EchoNext]_allVars

\* A frame that has arrived is read (ReadersWake of module Stream), and
\* the write of a PONG ends, one way or the other: the peer does not block it.
EchoFairness ==
  /\ WF_allVars(TakesClose) /\ WF_allVars(TakesPing) /\ WF_allVars(PongEnds)
  /\ WF_allVars(TakesData)

LiveEchoSpec == EchoSpec /\ EchoFairness

-----------------------------------------------------------------------------
(* Properties.                                                             *)

\* How many of the frames up to the k-th are compressed.
Compressed(k) == Cardinality({i \in 1..k : wire[i].deflated})

\* Whatever fibers send, the peer can inflate what it gets: each frame holds
\* the whole of its message, and none refers to data that the peer was not
\* sent, since the messages come in the order in which they were compressed
\* and none is missing before another.  So it is as long as every message fits
\* into a page with its empty block, and over a stream that does not refuse to
\* write: elsewhere the code does not keep it.
PeerInflates ==
  ~over_tls /\ (\A i \in 1..Len(packed) : Len(packed[i] \o EmptyBlock) <= Page) =>
    \A k \in 1..Len(wire) : wire[k].deflated =>
      wire[k].units = wire[k].of /\ wire[k].of = packed[Compressed(k)]

\* What the handler has written, in tokens.
Echoes ==
  FlattenSeq([i \in 1..Len(wire) |->
                IF ToSet(wire[i].of) \subseteq 1..MaxFrames THEN wire[i].of ELSE <<>>])

\* From end to end: what the handler sends is what the peer sent, each
\* fragment once and in order, and when the handler waits for a frame only
\* the fragments of an unfinished message have not been sent back.
EchoesOnce ==
  /\ IsPrefix(Echoes, DataTokens)
  /\ handler = "polling" /\ ~broken => Echoes \o _reassembled = DataTokens

\* The loop sends through the null pointer that cleanup() leaves only after a
\* message without content, for which poll() returns true and read() waits
\* again: a CLOSE by itself ends the loop.
NullOnlyAfterEmpty ==
  handler = "crashed" =>
    \E i \in 1..taken : Data(sent[i]) /\ sent[i].fin /\ sent[i].payload = <<>>
=============================================================================

------------------------------ MODULE WebSocket ------------------------------
(***************************************************************************)
(* Receiving on class websocket of src/src/httpcore/xyhttpapi.cpp, by the  *)
(* one fiber that polls and reads.  A frame of the peer is whole when the  *)
(* frame decoder returns it, and its payload is a token, the position of   *)
(* the frame in `sent', or nothing.  Inflating a payload keeps its tokens. *)
(* What send() does is a write of the stream, and no variable here.        *)
(*                                                                         *)
(* The peer keeps the order of fragments and sends no PONG, since nothing  *)
(* here sends a PING (the code would take a PONG for a fragment).  It may  *)
(* set the compression bit without having negotiated it.                   *)
(***************************************************************************)
EXTENDS Naturals, Sequences, SequencesExt

CONSTANTS MaxFrames,  \* bound on the frames the peer sends
          MaxAhead    \* bound on those the poller has not been given yet

ASSUME WebSocketAssumption == MaxFrames \in Nat /\ MaxAhead \in Nat

VARIABLES
  alive,         \* _alive, and also whether _strm is set
  rx_zs,         \* _rx_zs # nullptr
  _reassembled,  \* the fragments collected so far
  _msg_deflated,
  _done,         \* the message poll() has left for read(); <<>> is null
  doing,         \* the poller: "user", or waiting to "read" or to write "pong"
  caller,        \* the call it is in: "poll" or "read"
  sent,          \* the frames the peer has sent
  taken,         \* how many of them the decoder has returned
  got            \* the messages read() has returned

callVars == <<doing, caller>>
msgVars  == <<_reassembled, _msg_deflated, _done>>
vars == <<alive, rx_zs, msgVars, callVars, sent, taken, got>>

\* Opcodes: fragments, messages and control frames.
CONTINUATION == 0
TEXT == 1
CLOSE == 8
PING == 9

Init ==
  /\ alive = TRUE /\ rx_zs \in BOOLEAN
  /\ _reassembled = <<>> /\ _msg_deflated = FALSE /\ _done = <<>>
  /\ doing = "user" /\ caller = "poll"
  /\ sent = <<>> /\ taken = 0 /\ got = <<>>

-----------------------------------------------------------------------------
(* The peer.                                                               *)

\* The frame f carries a message or a fragment of one.
Data(f) == f.op \in {CONTINUATION, TEXT}

\* The peer has sent a part of a message and not the end of it.
InMessage ==
  \E i \in 1..Len(sent) : /\ Data(sent[i]) /\ ~sent[i].fin
                          /\ \A j \in (i+1)..Len(sent) : ~Data(sent[j])

PeerSends ==
  /\ Len(sent) < MaxFrames /\ Len(sent) - taken < MaxAhead
  /\ \A i \in 1..Len(sent) : sent[i].op # CLOSE
  /\ \E op \in {CONTINUATION, TEXT, CLOSE, PING}, fin, z \in BOOLEAN,
        payload \in {<<>>, <<Len(sent) + 1>>} :
       /\ op = CONTINUATION => InMessage /\ ~z
       /\ op = TEXT => ~InMessage
       /\ op \in {CLOSE, PING} => fin /\ ~z
       /\ sent' = Append(sent, [op |-> op, fin |-> fin, deflated |-> z,
                                payload |-> payload])
  /\ UNCHANGED <<alive, rx_zs, msgVars, callVars, taken, got>>

-----------------------------------------------------------------------------
(* Calls of the poller.                                                    *)

\* poll() returns what it was called for, or read() goes on with it.
Return(message) ==
  /\ doing' = "user"
  /\ IF caller = "read"
     THEN got' = Append(got, message) /\ _done' = <<>>
     ELSE _done' = message /\ UNCHANGED got

\* poll(), or read() calling it, waits for a frame.
CallWaits(call) ==
  /\ doing = "user" /\ _done = <<>> /\ alive
  /\ doing' = "read" /\ caller' = call
  /\ UNCHANGED <<alive, rx_zs, msgVars, sent, taken, got>>

\* websocket::cleanup, and poll() returns false or throws.
cleanup ==
  /\ alive' = FALSE /\ rx_zs' = FALSE
  /\ _reassembled' = <<>>
  /\ doing' = "user"

\* The stream reports an error or end of file.
ReadFails ==
  /\ doing = "read"
  /\ cleanup
  /\ UNCHANGED <<_msg_deflated, _done, caller, sent, taken, got>>

\* The poller is given the next frame.
Takes(op) == doing = "read" /\ taken < Len(sent) /\ sent[taken + 1].op = op
Taken == taken' = taken + 1 /\ UNCHANGED sent

\* Mutant of TakeClose: the loop does not look at _alive again.
TakeCloseWaits ==
  /\ Takes(CLOSE) /\ Taken
  /\ alive' = FALSE /\ rx_zs' = FALSE /\ _reassembled' = <<>>
  /\ UNCHANGED <<_msg_deflated, _done, callVars, got>>

TakeClose ==
  /\ Takes(CLOSE) /\ Taken
  /\ cleanup
  /\ UNCHANGED <<_msg_deflated, _done, caller, got>>

\* Mutant of TakePing: no `continue', so that the payload is a fragment.
TakePingAsData ==
  /\ Takes(PING) /\ Taken
  /\ doing' = "pong"
  /\ _reassembled' = _reassembled \o sent[taken + 1].payload
  /\ UNCHANGED <<alive, rx_zs, _msg_deflated, _done, caller, got>>

TakePing ==
  /\ Takes(PING) /\ Taken
  /\ doing' = "pong"
  /\ UNCHANGED <<alive, rx_zs, msgVars, caller, got>>

\* The write of the PONG completes, or fails and throws.
Ponged ==
  /\ doing = "pong"
  /\ \/ doing' = "read" /\ UNCHANGED <<alive, rx_zs, _reassembled>>
     \/ cleanup
  /\ UNCHANGED <<_msg_deflated, _done, caller, sent, taken, got>>

\* The fragments before f: none before the first of a message.
Begun(f) == IF f.op = TEXT THEN <<>> ELSE _reassembled

\* The end of a message: inflated, unless it cannot be, and left in _done.
TakeData(op) ==
  LET f == sent[taken + 1]
      whole == Begun(f) \o f.payload
      deflated == IF op = TEXT THEN f.deflated ELSE _msg_deflated IN
  /\ Takes(op) /\ Taken
  /\ \/ /\ ~f.fin
        /\ _reassembled' = whole /\ _msg_deflated' = deflated
        /\ UNCHANGED <<alive, rx_zs, _done, doing, got>>
     \/ /\ f.fin /\ deflated /\ whole # <<>>
        /\ cleanup
        /\ _msg_deflated' = deflated /\ UNCHANGED <<_done, got>>
     \/ /\ f.fin /\ (deflated /\ whole # <<>> => rx_zs)
        /\ Return(whole)
        /\ _reassembled' = <<>>
        /\ _msg_deflated' = (deflated /\ whole = <<>>)
        /\ UNCHANGED <<alive, rx_zs>>
  /\ UNCHANGED caller

-----------------------------------------------------------------------------
(* Properties.                                                             *)

\* The messages so far: read, ready for read(), and being put together.
Messages == got \o <<_done, _reassembled>>

\* The tokens of the fragments that the poller has been given.
DataTokens ==
  FlattenSeq([i \in 1..taken |-> IF Data(sent[i]) THEN sent[i].payload ELSE <<>>])

\* No final fragment lies between the fragments a and b, nor is a one.
SameMessage(a, b) ==
  \A i \in a..(b-1) : ~(sent[i].fin /\ Data(sent[i]))

\* Whatever control frames, empty fragments and failures come in between,
\* read() returns the fragments in order, none missing or repeated, and two
\* of them in one message exactly if the peer sent them in one; only a
\* message that was not complete when the connection ended is dropped.
MessagesWhole ==
  /\ LET tokens == FlattenSeq(Messages) IN
     IF alive THEN tokens = DataTokens ELSE IsPrefix(tokens, DataTokens)
  /\ \A i, j \in 1..Len(Messages) :
       \A a \in ToSet(Messages[i]), b \in ToSet(Messages[j]) :
         a < b => (i = j <=> SameMessage(a, b))

\* A poller is not left waiting behind a complete message or a CLOSE.
Ending == \E i \in (taken+1)..Len(sent) : sent[i].fin /\ sent[i].op # PING
PollReturns == Ending /\ doing # "user" ~> doing = "user"
=============================================================================

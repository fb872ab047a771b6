----------------------------- MODULE FrameCodec -----------------------------
(***************************************************************************)
(* The headers of the two binary protocols, byte by byte: websocket_frame  *)
(* (src/src/httpcore/xyhttpapi.cpp) and fcgi_message                       *)
(* (src/src/httpcore/xyfcgi.cpp).  A frame with n bytes of payload arrives *)
(* in pieces, and its decoder looks at what has arrived.                   *)
(***************************************************************************)
EXTENDS Integers, Sequences

CONSTANTS Lengths,      \* the lengths of payloads that are looked at
          MaxPayload    \* websocket_frame::decoder::_max_payload, 0x100000

ASSUME CodecAssumption ==
  /\ Lengths \subseteq Nat /\ \A n \in Lengths : n <= 2147483647
  /\ MaxPayload \in Nat /\ MaxPayload < 16777216

\* (n >> 8 * k) & 0xff
ByteOf(n, k) ==
  (IF k = 0 THEN n ELSE IF k = 1 THEN n \div 256
   ELSE IF k = 2 THEN n \div 65536 ELSE n \div 16777216) % 256

-----------------------------------------------------------------------------
(* Writing.                                                                *)

\* Mutant of WsHeader: two bytes of length are used from 126 to 65536.
WsHeaderLate(n, mask) ==
  IF n > 65536 THEN <<129, mask + 127, 0, 0, 0, 0,
                      ByteOf(n, 3), ByteOf(n, 2), ByteOf(n, 1), ByteOf(n, 0)>>
  ELSE IF n > 125 THEN <<129, mask + 126, ByteOf(n, 1), ByteOf(n, 0)>>
  ELSE <<129, mask + n>>

\* websocket_frame::serialize of a final text frame, without the payload.  A
\* client sets the bit `mask' (128) and sends four bytes of mask as well.
WsHeader(n, mask) ==
  IF n > 65535 THEN <<129, mask + 127, 0, 0, 0, 0,
                      ByteOf(n, 3), ByteOf(n, 2), ByteOf(n, 1), ByteOf(n, 0)>>
  ELSE IF n > 125 THEN <<129, mask + 126, ByteOf(n, 1), ByteOf(n, 0)>>
  ELSE <<129, mask + n>>

WsSize(n, mask) ==
  Len(WsHeader(n, mask)) + (IF mask = 128 THEN 4 ELSE 0) + n

\* fcgi_message::serialize of a record with request id 0, without the payload;
\* the records of an application may be padded.
FcgiHeader(n, padding) ==
  <<1, 6, 0, 0, ByteOf(n, 1), ByteOf(n, 0), padding, 0>>

FcgiSize(n, padding) == 8 + n + padding

-----------------------------------------------------------------------------
(* Reading.  h is a header, have how many bytes of the frame are there.     *)

Wait == [res |-> "wait", length |-> 0, size |-> 0]
Bad == [res |-> "bad", length |-> 0, size |-> 0]

\* A frame of that size is decoded when it is there.
Whole(length, size, have) ==
  IF have < size THEN Wait
  ELSE [res |-> "frame", length |-> length, size |-> size]

\* The payload length that the bytes announce, of which 24 bits are looked at.
WsLength(h) ==
  IF h[2] % 128 = 127 THEN h[8] * 65536 + h[9] * 256 + h[10]
  ELSE IF h[2] % 128 = 126 THEN h[3] * 256 + h[4]
  ELSE h[2] % 128

\* The two checks against giant frames.
TooLong(h, length) ==
  \/ h[2] % 128 = 127 /\ \E i \in 3..7 : h[i] # 0
  \/ length > MaxPayload

\* websocket_frame::decoder::decode.
WsDecode(h, have) ==
  LET length == WsLength(h)
      fixed == 2 + (IF h[2] >= 128 THEN 4 ELSE 0)
                 + (IF h[2] % 128 = 127 THEN 8
                    ELSE IF h[2] % 128 = 126 THEN 2 ELSE 0) IN
  IF have < 2 THEN Wait
  ELSE IF h[2] % 128 >= 126 /\ have < fixed THEN Wait
  ELSE IF TooLong(h, length) THEN Bad
  ELSE Whole(length, fixed + length, have)

FcgiLength(h) == h[5] * 256 + h[6]

\* fcgi_message::decoder::decode.
FcgiDecode(h, have) ==
  IF have < 8 THEN Wait
  ELSE IF h[1] # 1 THEN Bad
  ELSE Whole(FcgiLength(h), 8 + FcgiLength(h) + h[7], have)

-----------------------------------------------------------------------------
VARIABLES
  proto,   \* "ws" or "fcgi"
  payload, \* the length of the payload
  extra,   \* the bit of the mask, or the length of the padding
  have     \* how many bytes have arrived

frameVars == <<proto, payload, extra, have>>

Total == IF proto = "ws" THEN WsSize(payload, extra) ELSE FcgiSize(payload, extra)

Decoded ==
  IF proto = "ws" THEN WsDecode(WsHeader(payload, extra), have)
  ELSE FcgiDecode(FcgiHeader(payload, extra), have)

FrameInit ==
  /\ have = 0 /\ payload \in Lengths
  /\ \/ proto = "ws" /\ extra \in {0, 128}
     \/ proto = "fcgi" /\ extra \in {0, 7}

\* More arrives: single bytes of the header, then the rest but one, then all,
\* and then the first bytes of the next frame.
Arrive ==
  /\ \/ have < 16 /\ have' = have + 1
     \/ have < Total /\ have' \in {Total - 1, Total} \ {have}
     \/ have = Total /\ have' = Total + 3
  /\ UNCHANGED <<proto, payload, extra>>

FrameNext == Arrive

FrameSpec == FrameInit /\ [][FrameNext]_frameVars

-----------------------------------------------------------------------------
(* Properties.                                                             *)

\* A frame of one of the two protocols is on its way, and some of it is there.
TypeOK ==
  /\ payload \in Lengths /\ have \in Nat
  /\ \/ proto = "ws" /\ extra \in {0, 128}
     \/ proto = "fcgi" /\ extra \in {0, 7}

\* What a decoder of the protocol can read.
Readable == IF proto = "ws" THEN payload <= MaxPayload ELSE payload <= 65535

\* A frame is decoded as soon as its last byte is there and not before, with
\* the length its sender gave it, and what follows stays in the buffer.
DecodedWhenWhole ==
  Readable =>
    IF have < Total THEN Decoded = Wait
    ELSE Decoded = [res |-> "frame", length |-> payload, size |-> Total]

\* Of a frame that is too long for the websocket decoder not a byte is taken,
\* whatever has arrived.
GiantsRefused ==
  proto = "ws" /\ payload > MaxPayload =>
    /\ Decoded.res # "frame"
    /\ have >= 14 => Decoded = Bad

\* Both: whatever its length, a frame is either decoded in time or refused.
FramesDecoded == DecodedWhenWhole /\ GiantsRefused
=============================================================================

-------------------------- MODULE TransferDecoder --------------------------
(***************************************************************************)
(* string_decoder (src/src/httpcore/xystream.cpp) and                      *)
(* http_transfer_decoder (src/src/httpcore/xyhttp.cpp), which cut the body *)
(* of a message out of a stream, as functions on sequences of characters.  *)
(*                                                                         *)
(* A decoder is its _chunked and _restBytes; a result says whether         *)
(* decode() returns true ("msg"), false ("wait") or throws ("bad"), the    *)
(* decoder after it, the data of the message and how many characters were  *)
(* pulled.                                                                 *)
(***************************************************************************)
EXTENDS Integers, Sequences, SequencesExt

\* string_decoder(n); n = -1 takes whatever comes.
StringDecoder(n) == [chunked |-> FALSE, rest |-> n]

\* http_transfer_decoder of a response with Transfer-Encoding "chunked" (te)
\* and Content-Length (-1 if there is none).
NewTransfer(te, length) == [chunked |-> te, rest |-> IF te THEN -1 ELSE length]

more(d) == d.rest # 0

Wait(d) == [res |-> "wait", d |-> d, data |-> <<>>, n |-> 0]
Bad(d)  == [res |-> "bad", d |-> d, data |-> <<>>, n |-> 0]
Msg(d, data, n) == [res |-> "msg", d |-> d, data |-> data, n |-> n]

\* How much string_decoder takes.
Amount(d, b) == IF d.rest = -1 \/ Len(b) < d.rest THEN Len(b) ELSE d.rest

\* Mutant of Rest: _restBytes stays as it is.
RestSame(d, n) == d.rest

Rest(d, n) == IF d.rest = -1 THEN -1 ELSE d.rest - n

DecodeString(d, b) ==
  IF b = <<>> THEN Wait(d)
  ELSE LET n == Amount(d, b) IN
       Msg([d EXCEPT !.rest = Rest(d, n)], SubSeq(b, 1, n), n)

-----------------------------------------------------------------------------
(* Chunks: a size in hexadecimal, CR LF, the data, CR LF.                  *)

Digit == [c \in {"0", "1", "2"} |-> CASE c = "0" -> 0 [] c = "1" -> 1 [] OTHER -> 2]

\* How many characters strtol reads.
SizeWidth(b) == IF \E i \in DOMAIN b : b[i] \notin DOMAIN Digit
                THEN SelectInSeq(b, LAMBDA c : c \notin DOMAIN Digit) - 1
                ELSE Len(b)

\* What strtol makes of the digits.
Number(digits) == FoldLeft(LAMBDA n, c : 16 * n + Digit[c], 0, digits)

Size(b) == Number(SubSeq(b, 1, SizeWidth(b)))

\* The size line, or the CR LF after it, is not complete: strtol and the tests
\* of end[0] and end[1] read what lies behind the buffer.
Overread(b) ==
  LET w == SizeWidth(b) IN w = Len(b) \/ (w = Len(b) - 1 /\ b[w + 1] = "\r")

\* Mutant of ChunkSize: the CR LF after the data is not counted.
ChunkSizeShort(b) == SizeWidth(b) + Size(b) + 2

\* The characters of a whole chunk.
ChunkSize(b) == SizeWidth(b) + Size(b) + 4

\* The chunk of size 0 is the last one.
DecodeChunk(d, b) ==
  LET w == SizeWidth(b) IN
  IF Len(b) <= 3 THEN {Wait(d)}
  ELSE IF Overread(b) THEN {Wait(d), Bad(d)}
  ELSE IF w = 0 \/ SubSeq(b, w + 1, w + 2) # <<"\r", "\n">> THEN {Bad(d)}
  ELSE IF Len(b) < ChunkSize(b) THEN {Wait(d)}
  ELSE {Msg([d EXCEPT !.rest = IF Size(b) = 0 THEN 0 ELSE @],
            SubSeq(b, w + 3, w + 2 + Size(b)), ChunkSize(b))}

\* The results decode() can have.
DecodeTransfer(d, b) ==
  IF d.rest = -1 /\ d.chunked THEN DecodeChunk(d, b) ELSE {DecodeString(d, b)}

-----------------------------------------------------------------------------
(* Chunked data, as its sender writes it.                                  *)

Chunk(c) == c.size \o <<"\r", "\n">> \o c.data \o <<"\r", "\n">>

Chunks(cs) == FlattenSeq([i \in 1..Len(cs) |-> Chunk(cs[i])])
Data(cs) == FlattenSeq([i \in 1..Len(cs) |-> cs[i].data])

\* Each size is that of the data behind it, and only the last is zero.
IsChunked(cs) ==
  /\ cs # <<>>
  /\ \A i \in 1..Len(cs) :
       /\ cs[i].size \in Seq(DOMAIN Digit) \ {<<>>}
       /\ Number(cs[i].size) = Len(cs[i].data)
       /\ cs[i].data = <<>> <=> i = Len(cs)
=============================================================================

---------------------------- MODULE HttpMessages ----------------------------
(***************************************************************************)
(* A connection read message by message: a head (HttpHead), then its body  *)
(* (TransferDecoder), then the next head, out of one stream_buffer that    *)
(* the peer's bytes reach in pieces of any length.  Requests are read this *)
(* way by http_connection::next_request and the constructor of             *)
(* http_transaction, responses by http_client and by forward_to.           *)
(***************************************************************************)
EXTENDS HttpHead, TransferDecoder, FiniteSets

CONSTANTS Requests, Responses,  \* the messages a peer may send, see Messages
          MaxMessages           \* bound on how many

\* A message is a record of HttpHead with whether it is malformed, the headers
\* that announce its body (te: in chunks), the chunks, the body, and how that
\* is sent.
Messages(kind) == IF kind = "request" THEN Requests ELSE Responses

\* The body is as announced.
HasBody(kind, m) ==
  IF kind = "response" /\ m.te
  THEN /\ IsChunked(m.chunks) /\ m.chunks \in Seq([size : Seq(Chars), data : Seq(Chars)])
       /\ m.wire = Chunks(m.chunks) /\ m.body = Data(m.chunks)
  ELSE /\ m.wire = m.body
       /\ IF m.length = -1 THEN kind = "request" => m.body = <<>>
          ELSE Len(m.body) = m.length

ASSUME MessagesAssumption ==
  /\ \A m \in Requests \cup Responses :
       /\ m.bad \in BOOLEAN /\ m.te \in BOOLEAN /\ m.length \in Nat \cup {-1}
       /\ m.chars \in Seq(Chars) /\ m.wire \in Seq(Chars)
  /\ \A m \in Requests :
       IF m.bad THEN IsMalformed("request", m)
       ELSE IsRequest(m) /\ HasBody("request", m)
  /\ \A m \in Responses :
       IF m.bad THEN IsMalformed("response", m)
       ELSE (IsResponse(m) \/ IsCgi(m)) /\ HasBody("response", m)

VARIABLES
  kind,    \* what is read: "request" or "response"
  sent,    \* the messages the peer has sent
  net,     \* the characters that have not reached the buffer
  buffer,  \* stream::buffer
  tried,   \* decode() has returned false on the buffer as it is
  body,    \* the decoder of the body; before a head, one that has no more
  got,     \* the messages read; the last one may lack a part of its body
  failed   \* a decoder has thrown

vars == <<kind, sent, net, buffer, tried, body, got, failed>>

Init ==
  /\ kind \in {"request", "response"}
  /\ sent = <<>> /\ net = <<>> /\ buffer = <<>>
  /\ tried = FALSE /\ failed = FALSE
  /\ body = StringDecoder(0) /\ got = <<>>

-----------------------------------------------------------------------------
\* The body of m: of a request, as long as Content-Length says; of a response,
\* as http_transfer_decoder finds.
BodyDecoder(m) ==
  IF kind = "response" THEN NewTransfer(m.te, m.length)
  ELSE StringDecoder(IF m.length = -1 THEN 0 ELSE m.length)

\* Mutant of Pull: pull(i) instead of pull(i + 1).
PullLess(n) == SubSeq(buffer, n, Len(buffer))

\* stream_buffer::pull after a head of n characters.
Pull(n) == SubSeq(buffer, n + 1, Len(buffer))

Trying == ~tried /\ ~failed

\* decode() of a head, on the buffer.
TryHead ==
  /\ Trying /\ ~more(body)
  /\ LET r == DecodeHead(kind, buffer) IN
     \/ /\ r.st = "done"
        /\ buffer' = Pull(r.n)
        /\ got' = Append(got, [parts |-> r.out, body |-> <<>>])
        /\ body' = IF Len(got) < Len(sent) THEN BodyDecoder(sent[Len(got) + 1])
                   ELSE body
        /\ UNCHANGED <<tried, failed>>
     \/ /\ r.st = "bad" /\ failed' = TRUE
        /\ UNCHANGED <<buffer, got, body, tried>>
     \/ /\ r.st \notin {"done", "bad"} /\ tried' = TRUE
        /\ UNCHANGED <<buffer, got, body, failed>>
  /\ UNCHANGED <<kind, sent, net>>

\* decode() of a part of a body, on the buffer.
TryBody ==
  /\ Trying /\ more(body)
  /\ \E r \in DecodeTransfer(body, buffer) :
       /\ failed' = (r.res = "bad")
       /\ tried' = (r.res = "wait")
       /\ body' = r.d
       /\ buffer' = SubSeq(buffer, r.n + 1, Len(buffer))
       /\ got' = [got EXCEPT ![Len(got)].body = @ \o r.data]
  /\ UNCHANGED <<kind, sent, net>>

\* A piece reaches the buffer.
Receive ==
  /\ tried
  /\ \E k \in 1..Len(net) :
       /\ buffer' = buffer \o SubSeq(net, 1, k)
       /\ net' = SubSeq(net, k + 1, Len(net))
  /\ tried' = FALSE
  /\ UNCHANGED <<kind, sent, body, got, failed>>

\* A body without a length lasts until the connection ends.
Endless(m) == kind = "response" /\ ~m.te /\ m.length = -1

PeerSend(m) ==
  /\ Len(sent) < MaxMessages
  /\ sent # <<>> => ~Endless(Last(sent))
  /\ sent' = Append(sent, m)
  /\ net' = net \o m.chars \o m.wire
  /\ UNCHANGED <<kind, buffer, tried, body, got, failed>>

Next == TryHead \/ TryBody \/ Receive \/ \E m \in Messages(kind) : PeerSend(m)

Spec == Init /\ [][Next]_vars

-----------------------------------------------------------------------------
(* Properties.                                                             *)

\* However the bytes were cut into pieces, the messages read are those sent,
\* each with its own headers and exactly its own body, and none is malformed.
MessagesAsSent ==
  \A i \in 1..Len(got) :
    /\ i <= Len(sent) /\ ~sent[i].bad
    /\ got[i].parts = sent[i].parts
    /\ IF i < Len(got) \/ ~more(body) THEN got[i].body = sent[i].body
       ELSE IsPrefix(got[i].body, sent[i].body)

\* A decoder throws only at a malformed message, with more in the buffer than
\* it is ready to look at, or at a chunk whose size line has not arrived whole,
\* where it looks at what lies behind the buffer.
RejectsOnlyMalformed ==
  failed => \/ Len(buffer) > MaxSize
            \/ ~more(body) /\ Len(got) < Len(sent) /\ sent[Len(got) + 1].bad
            \/ more(body) /\ Overread(buffer) /\ net # <<>>

\* When everything has arrived and a reader still waits, it waits for the next
\* message, or for more of a body without a length.
NothingLeftWaiting ==
  tried /\ net = <<>> /\ (\A i \in 1..Len(sent) : ~sent[i].bad) =>
    /\ Len(got) = Len(sent) /\ buffer = <<>>
    /\ more(body) => Endless(Last(sent))
=============================================================================

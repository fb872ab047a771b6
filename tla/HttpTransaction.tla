--------------------------- MODULE HttpTransaction ---------------------------
(***************************************************************************)
(* The methods of class http_transaction (src/src/httpcore/xyhttpapi.cpp)  *)
(* as functions of the transaction and its connection, which one fiber     *)
(* uses at a time.  A method maps a state to the set of states it can end  *)
(* in, one for each way its writes, its file and its upstream can go; an   *)
(* exception it throws is left in the field exc.                           *)
(*                                                                         *)
(* Sizes count units: the body thresholds of the code are a few of them.   *)
(***************************************************************************)
EXTENDS Naturals

CONSTANTS GzipMin,   \* 0x200: a buffered body this long gets compressed
          ChunkMin,  \* 0x20000: one longer than this is sent in chunks
          MaxFile,   \* bound on the length of a file or an upstream body
          UpstreamCodes   \* the codes an upstream gives to a response with a body

ASSUME TransactionAssumption ==
  /\ GzipMin \in Nat \ {0} /\ ChunkMin \in Nat /\ GzipMin <= ChunkMin
  /\ MaxFile \in Nat
  /\ UpstreamCodes \subseteq Nat /\ UpstreamCodes \cap {204, 304} = {}

Modes == {"UNDECIDED", "SIMPLE", "CHUNKED", "UPGRADE", "HEADONLY"}
Methods == {"GET", "HEAD", "POST"}
NoBody == {204, 304}          \* the codes of responses without a body

\* The codes met here that state_description() knows.
Codes == {101, 200, 204, 206, 302, 304, 400, 403, 404, 405, 413, 416, 500, 502}

\* No header "Content-Length": a length that no body has.
NoLength == 2 * (ChunkMin + MaxFile + 1000)

\* What the client has received for this request: headers, the framing they
\* announce, what followed, and whether they said "Connection: keep-alive".
NoWire == [headers |-> 0, code |-> 0, framing |-> "none", length |-> NoLength,
           body |-> 0, ended |-> FALSE, keep |-> FALSE]

\* http_transaction and, in the last fields, its http_connection: whether
\* _strm is set and still takes writes, _keep_alive and _upgraded.
New(method, noGzip, keep) ==
  [method |-> method, noGzip |-> noGzip, gzip |-> FALSE,
   mode |-> IF method = "HEAD" THEN "HEADONLY" ELSE "UNDECIDED",
   headerSent |-> FALSE, finished |-> FALSE, buffer |-> 0,
   code |-> 200, length |-> NoLength, wire |-> NoWire, exc |-> "no",
   threw |-> FALSE,
   strm |-> TRUE, alive |-> TRUE, keep_alive |-> keep, upgraded |-> FALSE]

-----------------------------------------------------------------------------
(* Sequencing of calls that may throw.                                     *)

Throw(t, e) == {[t EXCEPT !.exc = e]}

\* Op on every state of S that no exception has left.
Then(S, Op(_)) == UNION {IF t.exc = "no" THEN Op(t) ELSE {t} : t \in S}

\* stream::write: the client receives what turns its view into w, or the
\* connection is broken, for good, and IOERR is thrown.
Send(t, w) ==
  Throw([t EXCEPT !.alive = FALSE], "io")
    \cup IF t.alive THEN {[t EXCEPT !.wire = w]} ELSE {}

SendBody(t, n) == Send(t, [t.wire EXCEPT !.body = @ + n])

-----------------------------------------------------------------------------
(* start_transfer, transfer, write and finish.                             *)

Framing(mode, code) ==
  IF mode = "CHUNKED" THEN "chunked"
  ELSE IF mode = "UPGRADE" THEN "upgrade"
  ELSE IF code \in NoBody THEN "nobody" ELSE "length"

\* The mode changes before the header is written, _headerSent after it.  Of a
\* code without a description, serialize_size takes the length of a null string.
start_transfer(t, mode) ==
  IF t.headerSent THEN Throw(t, "assert")
  ELSE LET u == [t EXCEPT !.mode = mode] IN
       Then(IF u.code \notin Codes THEN Throw(u, "null")
            ELSE Send(u, [u.wire EXCEPT !.headers = @ + 1, !.code = u.code,
                                        !.framing = Framing(mode, u.code),
                                        !.length = u.length,
                                        !.keep = u.keep_alive]),
            LAMBDA v : {[v EXCEPT !.headerSent = TRUE]})

\* Mutant of transfer: the buffer is kept when chunks begin.
transferKeepsBuffer(t, n) ==
  IF t.mode \in {"SIMPLE", "CHUNKED"} THEN SendBody(t, n)
  ELSE IF t.mode # "UNDECIDED" THEN {t}
  ELSE LET u == [t EXCEPT !.buffer = @ + n] IN
       IF u.buffer <= ChunkMin THEN {u}
       ELSE Then(start_transfer(u, "CHUNKED"), LAMBDA v : SendBody(v, v.buffer))

transfer(t, n) ==
  IF t.mode \in {"SIMPLE", "CHUNKED"} THEN SendBody(t, n)
  ELSE IF t.mode # "UNDECIDED" THEN {t}
  ELSE LET u == [t EXCEPT !.buffer = @ + n] IN
       IF u.buffer <= ChunkMin THEN {u}
       ELSE Then(Then(start_transfer(u, "CHUNKED"),
                      LAMBDA v : SendBody(v, v.buffer)),
                 LAMBDA v : {[v EXCEPT !.buffer = 0]})

\* deflate() of n units: it keeps them for later, or yields some output.
deflate(t, n) == {t} \cup UNION {transfer(t, k) : k \in 1..n}

write(t, n) ==
  IF t.finished THEN Throw(t, "rt")
  ELSE IF n = 0 THEN {t}
  ELSE IF t.gzip THEN deflate(t, n)
  ELSE Then(transfer(t, n), LAMBDA u :
         IF u.mode = "UNDECIDED" /\ ~u.noGzip /\ u.buffer >= GzipMin
         THEN deflate([u EXCEPT !.gzip = TRUE, !.buffer = 0], u.buffer)
         ELSE {u})

\* n units, one or two in each call of write(), as a loop over pieces makes.
Pieces(t, n) ==
  LET After[i \in 0..n] ==
        IF i = 0 THEN {t}
        ELSE UNION {Then(After[i-k], LAMBDA u : write(u, k)) : k \in 1..(IF i = 1 THEN 1 ELSE 2)}
  IN After[n]

\* What finish() sends once deflate has been flushed.
SendRest(t) ==
  IF t.mode = "CHUNKED" THEN Send(t, [t.wire EXCEPT !.ended = TRUE])
  ELSE IF t.code \in NoBody THEN start_transfer(t, "HEADONLY")
  ELSE IF t.mode # "UNDECIDED" THEN {t}
  ELSE Then(start_transfer([t EXCEPT !.length = t.buffer], "SIMPLE"), LAMBDA u :
         IF u.buffer = 0 THEN {u}
         ELSE Then(SendBody(u, u.buffer),
                   LAMBDA v : {[v EXCEPT !.buffer = 0]}))

\* Mutant of finish: it can be called twice.
finishAgain(t) ==
  Then(Then(IF t.gzip THEN transfer(t, 1) ELSE {t}, SendRest),
       LAMBDA u : {[u EXCEPT !.finished = TRUE]})

finish(t) ==
  IF t.finished THEN {t}
  ELSE Then(Then(IF t.gzip THEN transfer(t, 1) ELSE {t}, SendRest),
            LAMBDA u : {[u EXCEPT !.finished = TRUE]})

-----------------------------------------------------------------------------
(* Responses.                                                              *)

get_response(t, code) ==
  IF t.headerSent THEN Throw(t, "rt") ELSE {[t EXCEPT !.code = code]}

display_error(t, code) ==
  Then(Then(get_response(t, code),
            LAMBDA u : IF u.mode = "UNDECIDED" /\ u.buffer = 0
                       THEN write(u, 1) ELSE {u}),
       finish)

redirect_to(t) == Then(get_response(t, 302), finish)

\* Mutant of Truncated: the connection survives a file that got shorter.
TruncatedUnnoticed(t) == {t}

\* A file that ends before its length: the connection must not be reused.
Truncated(t) == {[t EXCEPT !.keep_alive = FALSE]}

\* The second serve_file: `rest' units of an open file, all of it or a range,
\* of which only the first `there' can be read.
SendFile(t, rest, there) ==
  Then(IF t.noGzip
       THEN start_transfer([t EXCEPT !.length = rest, !.buffer = 0], "SIMPLE")
       ELSE {t},
       LAMBDA u : Then(Then(Pieces(u, there),
                            LAMBDA v : IF there < rest THEN Truncated(v)
                                       ELSE {v}),
                       finish))

serve_file(t) ==
  IF t.method = "POST" THEN display_error(t, 405)
  ELSE (UNION {display_error(t, code) : code \in {403, 404, 405}})
       \cup Then(get_response(t, 304), finish)
       \cup (IF t.mode = "HEADONLY"
             THEN UNION {finish([t EXCEPT !.length = size]) : size \in 0..MaxFile}
             ELSE IF t.headerSent THEN Throw(t, "rt")
             ELSE display_error(t, 416)
                  \cup UNION {UNION {SendFile([t EXCEPT !.code = c], rest, there) :
                                      c \in {t.code, 206}, there \in 0..rest} :
                               rest \in 0..MaxFile})

\* A body read from a stream and written to the client: errors are swallowed,
\* the client's own included, and the response is finished.
Swallow(t) == [t EXCEPT !.exc = IF @ \in {"rt", "io"} THEN "no" ELSE @]
Relay(t, n) == Then({Swallow(u) : u \in Pieces(t, n)}, finish)

\* The response of an upstream, which may be compressed already.
Upstream(t, code) ==
  {[t EXCEPT !.code = code], [t EXCEPT !.code = code, !.noGzip = TRUE]}

\* forward_to a stream: errors before the response leave it.
forward_to_stream(t) ==
  IF t.headerSent THEN Throw(t, "rt")
  ELSE Throw(t, "io")
       \cup display_error([t EXCEPT !.code = 101], 502)
       \cup (UNION {finish([t EXCEPT !.code = c]) : c \in NoBody})
       \cup UNION {UNION {Relay(u, n) : n \in 0..MaxFile, u \in Upstream(t, code)} :
                     code \in UpstreamCodes}

\* Mutant of forward_to_fcgi: errors in the body are swallowed, as they are in
\* forward_to a stream.
forward_to_fcgiSwallows(t) ==
  Throw(t, "io") \cup Throw(t, "rt") \cup display_error(t, 502)
  \cup Then({[t EXCEPT !.code = c] : c \in NoBody}
               \cup UNION {Pieces([t EXCEPT !.code = code], n) :
                              n \in 0..MaxFile, code \in UpstreamCodes},
            finish)

\* forward_to a FastCGI connection, which does not look at the header: an
\* error before the response or in its body leaves it.
forward_to_fcgi(t) ==
  Throw(t, "io") \cup Throw(t, "rt") \cup display_error(t, 502)
  \cup Then({[t EXCEPT !.code = c] : c \in NoBody}
               \cup UNION {Pieces([t EXCEPT !.code = code], n) :
                              n \in 0..MaxFile, code \in UpstreamCodes},
            LAMBDA u : finish(u) \cup Throw(u, "io") \cup Throw(u, "rt"))

\* upgrade, with or without sending the response.
upgrade(t, flush) ==
  IF t.mode # "UNDECIDED" \/ t.gzip THEN Throw(t, "rt")
  ELSE LET u == [t EXCEPT !.buffer = 0] IN
       Then(IF flush THEN start_transfer(u, "UPGRADE")
            ELSE {[u EXCEPT !.mode = "UPGRADE", !.headerSent = TRUE]},
            LAMBDA v : {[v EXCEPT !.finished = TRUE, !.upgraded = TRUE]})

accept_websocket(t) ==
  IF t.method # "GET" THEN Then(display_error(t, 405), LAMBDA u : Throw(u, "rt"))
  ELSE Throw(t, "rt") \cup Then(get_response(t, 101), LAMBDA u : upgrade(u, TRUE))
=============================================================================

--------------------------- MODULE HttpConnection ---------------------------
(***************************************************************************)
(* One HTTP connection: http_server::service_loop and http_connection of   *)
(* src/src/httpcore/xyhttp.cpp, with the transactions of one request after *)
(* another and a service that calls any methods of them in any order.      *)
(***************************************************************************)
EXTENDS HttpTransaction

CONSTANT MaxCalls   \* bound on the calls a service makes for a request

ASSUME ConnectionAssumption == MaxCalls \in Nat

VARIABLES
  phase,   \* "idle": before a request; "serving": in svc->serve; "closed"
  calls,   \* the calls the service has made
  tx       \* the transaction and its connection

vars == <<phase, calls, tx>>

\* Mutant of keep_alive: an upgraded connection takes another request.
keep_aliveUpgraded(t) == t.keep_alive /\ t.strm

keep_alive(t) == t.keep_alive /\ t.strm /\ ~t.upgraded

\* The state in which service_loop looks at keep_alive() for the first time:
\* there has been no request to answer.
Init ==
  /\ phase = "idle" /\ calls = 0
  /\ tx = [New("GET", TRUE, TRUE) EXCEPT !.wire =
             [NoWire EXCEPT !.headers = 1, !.framing = "nobody", !.keep = TRUE]]

Close(t) == phase' = "closed" /\ tx' = t /\ UNCHANGED calls

\* The loop ends, or next_request fails on a broken or idle connection.
CloseIdle ==
  /\ phase = "idle"
  /\ Close([tx EXCEPT !.strm = FALSE, !.keep_alive = FALSE])

\* next_request, the constructor of the transaction and the test of Host.
\* A body that is too long, or whose bytes do not come, throws in the
\* constructor, which has not set _transfer_mode and _noGzip yet.
NextRequest(method, keep) ==
  /\ phase = "idle" /\ keep_alive(tx) /\ tx.alive
  /\ \E noGzip \in BOOLEAN :
       LET t == New(method, noGzip, keep) IN
       \/ /\ phase' = "serving" /\ calls' = 0
          /\ tx' = t
       \/ \E u \in display_error([t EXCEPT !.mode = "UNDECIDED"], 413) : Close(u)
       \/ Close(t)

-----------------------------------------------------------------------------
(* invoke_service.                                                         *)

\* Mutant of ErrorPage: the catch blocks return without tx->finish().
ErrorPageUnfinished(t) == Then(get_response(t, 500), LAMBDA u : write(u, 1))

\* The page of the catch blocks, with a stack trace or not, then tx->finish().
ErrorPage(t) ==
  Then(Then(get_response(t, 500), LAMBDA u : UNION {write(u, n) : n \in 1..2}),
       finish)

\* The catch blocks: a response that has begun cannot become a 500.
Caught(t) ==
  IF t.headerSent THEN {[t EXCEPT !.exc = "no", !.strm = FALSE]}
  ELSE ErrorPage([t EXCEPT !.exc = "no", !.threw = TRUE])

\* The end of invoke_service from any end of its try block.
Conclude(S) == UNION {IF t.exc \in {"rt", "io"} THEN Caught(t)
                      ELSE IF t.exc = "no" THEN finish(t) ELSE {t} : t \in S}

\* Back in service_loop; whatever invoke_service throws ends it.
Return(t) ==
  IF t.exc = "no" THEN phase' = "idle" /\ tx' = t /\ UNCHANGED calls
  ELSE Close(t)

\* A request without Host: 400, and the stream is dropped.
BadRequest ==
  /\ phase = "serving" /\ calls = 0
  /\ \E t \in display_error(tx, 400) :
       IF t.exc = "no" THEN Close([t EXCEPT !.strm = FALSE])
       ELSE \E u \in Caught(t) : Return(u)

\* The service returns.
ServiceReturns ==
  /\ phase = "serving"
  /\ \E t \in Conclude(IF tx.headerSent THEN {tx} ELSE display_error(tx, 404)) :
       Return(t)

\* The service throws a runtime_error of its own.
ServiceThrows ==
  /\ phase = "serving"
  /\ \E t \in Conclude(Throw(tx, "rt")) : Return(t)

-----------------------------------------------------------------------------
(* The calls of a service.                                                 *)

\* A call that ends in one of S; an exception leaves the service.
Calls(S) ==
  /\ phase = "serving" /\ calls < MaxCalls
  /\ \E t \in S :
       IF t.exc = "no"
       THEN tx' = t /\ calls' = calls + 1 /\ UNCHANGED phase
       ELSE \E u \in Conclude({t}) : Return(u)

\* What is assumed of a service: it chooses the code, a file or an upstream
\* before it writes, and writes no body of a response that has none, unless
\* the response is finished.
Empty == tx.buffer = 0 /\ ~tx.gzip /\ tx.mode \in {"UNDECIDED", "HEADONLY"}
MayHaveBody == tx.finished \/ tx.code \notin NoBody
MayReplace == MayHaveBody /\ (Empty \/ tx.headerSent)

ServiceWrites == MayHaveBody /\ \E n \in 1..2 : Calls(write(tx, n))
ServiceFinishes == Calls(finish(tx))
ServiceSetsCode == Empty /\ \E c \in {200, 204} : Calls(get_response(tx, c))
ServiceDisplaysError == \E code \in {403, 502} : Calls(display_error(tx, code))
ServiceRedirects == Calls(redirect_to(tx))
ServiceServesFile == MayReplace /\ Calls(serve_file(tx))
ServiceForwardsToStream == MayReplace /\ Calls(forward_to_stream(tx))
ServiceForwardsToFcgi == MayReplace /\ Calls(forward_to_fcgi(tx))
ServiceUpgrades == \E flush \in BOOLEAN : Calls(upgrade(tx, flush))
ServiceAcceptsWebSocket == Calls(accept_websocket(tx))

Next ==
  \/ \E method \in Methods, keep \in BOOLEAN : NextRequest(method, keep)
  \/ CloseIdle \/ BadRequest \/ ServiceReturns \/ ServiceThrows
  \/ ServiceWrites \/ ServiceFinishes \/ ServiceSetsCode
  \/ ServiceDisplaysError \/ ServiceRedirects \/ ServiceServesFile
  \/ ServiceForwardsToStream \/ ServiceForwardsToFcgi
  \/ ServiceUpgrades \/ ServiceAcceptsWebSocket

Spec == Init /\ [][Next]_vars

-----------------------------------------------------------------------------
(* Properties.                                                             *)

\* The connection goes on to another request.
Reused == phase = "idle" /\ keep_alive(tx) /\ tx.alive

\* Types; no more than ChunkMin is held back while the stream works, and only
\* a code that came from an upstream can lack the description that the header
\* needs.
TypeOK ==
  /\ phase \in {"idle", "serving", "closed"}
  /\ calls \in 0..MaxCalls
  /\ tx.mode \in Modes /\ tx.code \in Codes \cup UpstreamCodes
  /\ tx.buffer \in Nat /\ (tx.alive /\ tx.exc # "null" => tx.buffer <= ChunkMin)
  /\ tx.exc \in {"no", "rt", "io", "assert", "null"}
  /\ tx.exc = "null" => tx.code \notin Codes

\* A connection is reused only behind a response whose end the client can
\* tell: as many bytes as announced, a last chunk, or no body at all.
FramingExact ==
  Reused /\ tx.wire.headers = 1 =>
    CASE tx.wire.framing = "length"  -> tx.wire.body = tx.wire.length
      [] tx.wire.framing = "chunked" -> tx.wire.ended /\ tx.wire.code \notin NoBody
      [] tx.wire.framing = "nobody"  -> tx.wire.body = 0
      [] OTHER -> FALSE

\* Nothing precedes the header of a response, no second header follows it,
\* and the assertion of start_transfer never fails.
OneHeaderFirst ==
  /\ tx.exc # "assert"
  /\ tx.wire.headers <= 1
  /\ tx.wire.body > 0 \/ tx.wire.ended => tx.wire.headers = 1

\* Before a connection is reused its request has been answered, and the
\* client was told that it may send another.
AnsweredBeforeNext ==
  Reused /\ tx.method # "HEAD" => tx.wire.headers = 1 /\ tx.wire.keep

\* A runtime error that leaves a service before the header was sent is
\* answered with status 500.
ErrorsAnswered ==
  tx.threw /\ tx.alive /\ tx.method # "HEAD" /\ phase # "serving" =>
    tx.wire.headers = 1 /\ tx.wire.code = 500

\* Errors are answered so for every method, as test-io.cpp says.
RuntimeErrorsGet500 ==
  tx.threw /\ tx.alive /\ phase # "serving" =>
    tx.wire.headers = 1 /\ tx.wire.code = 500

\* Once a transaction is finished nothing more is sent for it.
SilentWhenFinished ==
  [][tx.finished /\ phase = "serving" => tx'.wire = tx.wire]_vars
=============================================================================

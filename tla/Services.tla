------------------------------ MODULE Services ------------------------------
(***************************************************************************)
(* The services of src/src/httpcore/xyhttpsvc.cpp, stacked in chains as    *)
(* src/src/tinyhttpd/tinyhttpd.cpp stacks them, serving the requests of    *)
(* several connections at once: one fiber for each of them, and the        *)
(* services, with the place of the next backend, shared between them.      *)
(*                                                                         *)
(* To each connection the stack is one of the services that module         *)
(* HttpConnection lets do anything.                                        *)
(*                                                                         *)
(* A chain looks at header_sent() after each of its members, and so does   *)
(* every chain around it, with nothing in between: what is left to serve   *)
(* is kept as one sequence.                                                *)
(***************************************************************************)
EXTENDS HttpTransaction, Sequences, SequencesExt, FiniteSets

CONSTANTS
  Fibers,            \* the connections
  Stack, Service,    \* the services there are, as below; that of the server
  Requests,          \* what each of them may ask for: sets of requests
                     \* [method, noGzip, path, slash, query, key, keep]
  Tree, Defaults,    \* what stat() says of the paths; the default names
  Scripts,           \* the names with a suffix of a FastCGI provider
  Backends, Spares,  \* the backends, at first and appended later, each
                     \* with a name of its own
  Plain,             \* those that may not use TLS, or may; the others do
  MaxRequests,       \* bound on the requests of each of them
  MaxCalls           \* bound on the calls for one request

\* The members of a chain are services too, and what a TLS filter answers is
\* among what module HttpConnection lets a service answer.
IsStack(S) ==
  \A s \in S :
    CASE s.kind = "chain" -> s.svcs \in Seq(S)
      [] s.kind = "route" -> s.svc \in S
      [] s.kind = "tls"   -> s.code \in {302, 403, 502}
      [] OTHER -> s.kind \in {"logger", "websocket", "page", "files", "proxy"}

ASSUME ServicesAssumption ==
  /\ Service \in Stack /\ IsStack(Stack)
  /\ \A f \in Fibers :
       /\ MaxRequests[f] \in Nat /\ Requests[f] # {}
       /\ \A r \in Requests[f] :
            r.method \in Methods /\ r.noGzip \in BOOLEAN /\ r.keep \in BOOLEAN
  /\ Backends \in Seq(Range(Backends)) /\ Spares \in Seq(Range(Spares))
  /\ IsInjective(Backends \o Spares)
  /\ Tree[<<>>] = "dir"
  /\ \A p \in DOMAIN Tree : Tree[p] \in {"dir", "file", "denied", "other"}
  /\ MaxCalls \in Nat

VARIABLES
  tls,       \* the connections that use TLS
  phase, calls, tx,   \* of each connection, as in HttpConnection
  served,    \* the requests it has taken
  req,       \* the request being served
  pending,   \* the services it is still to be given to
  at,        \* where its fiber is: "serve", "connect" or "finish"
  backends, _cur,
  chosen     \* the backends in the order of their use, and how many there were

connVars == <<tls, phase, calls, tx, served, req, pending, at>>
vars == <<connVars, backends, _cur, chosen>>

HC(f) == INSTANCE HttpConnection
           WITH phase <- phase[f], calls <- calls[f], tx <- tx[f]

Init ==
  /\ tls \in {Fibers \ p : p \in SUBSET Plain}
  /\ phase = [f \in Fibers |-> "idle"] /\ calls = [f \in Fibers |-> 0]
  /\ tx = [f \in Fibers |->
             [New("GET", TRUE, TRUE) EXCEPT !.wire =
                [NoWire EXCEPT !.headers = 1, !.framing = "nobody", !.keep = TRUE]]]
  /\ served = [f \in Fibers |-> 0] /\ req = [f \in Fibers |-> CHOOSE r \in Requests[f] : TRUE]
  /\ pending = [f \in Fibers |-> <<>>] /\ at = [f \in Fibers |-> "serve"]
  /\ backends = Backends /\ _cur = 0 /\ chosen = <<>>

Shared == UNCHANGED <<tls, backends, _cur, chosen>>

-----------------------------------------------------------------------------
(* service_loop and invoke_service.                                        *)

NextRequest(f) ==
  /\ phase[f] = "idle" /\ HC(f)!keep_alive(tx[f]) /\ tx[f].alive
  /\ served[f] < MaxRequests[f] /\ served' = [served EXCEPT ![f] = @ + 1]
  /\ \E r \in Requests[f] :
       /\ req' = [req EXCEPT ![f] = r]
       /\ tx' = [tx EXCEPT ![f] = New(r.method, r.noGzip, r.keep)]
  /\ phase' = [phase EXCEPT ![f] = "serving"] /\ calls' = [calls EXCEPT ![f] = 0]
  /\ pending' = [pending EXCEPT ![f] = <<Service>>]
  /\ Shared /\ UNCHANGED at

\* invoke_service has come to its end.
Ends(f, t) ==
  /\ phase' = [phase EXCEPT ![f] = IF t.exc = "no" THEN "idle" ELSE "closed"]
  /\ tx' = [tx EXCEPT ![f] = t]
  /\ pending' = [pending EXCEPT ![f] = <<>>]
  /\ UNCHANGED calls

\* Nothing is left to serve, or the header has been sent.
Done(f) ==
  /\ phase[f] = "serving" /\ pending[f] = <<>>
  /\ \E t \in HC(f)!Conclude(IF tx[f].headerSent THEN {tx[f]}
                             ELSE display_error(tx[f], 404)) : Ends(f, t)
  /\ at' = [at EXCEPT ![f] = "serve"]
  /\ Shared /\ UNCHANGED <<served, req>>

-----------------------------------------------------------------------------
(* Services.                                                               *)

\* The fiber is about to serve a service of that kind.
Turn(f, kind) ==
  phase[f] = "serving" /\ at[f] = "serve" /\ pending[f] # <<>> /\ pending[f][1].kind = kind

\* Mutant of Onwards: the chain does not look at header_sent().
OnwardsAlways(f, t) == pending' = [pending EXCEPT ![f] = Tail(@)]

\* http_service_chain::serve after one of its members.
Onwards(f, t) ==
  pending' = [pending EXCEPT ![f] = IF t.headerSent THEN <<>> ELSE Tail(@)]

\* A service has made its last call of the transaction, which ends in one of S.
Returns(f, S) ==
  /\ calls[f] < MaxCalls
  /\ \E t \in S :
       IF t.exc = "no"
       THEN /\ tx' = [tx EXCEPT ![f] = t] /\ Onwards(f, t)
            /\ calls' = [calls EXCEPT ![f] = @ + 1] /\ UNCHANGED phase
       ELSE \E u \in HC(f)!Conclude({t}) : Ends(f, u)
  /\ at' = [at EXCEPT ![f] = "serve"]

Unmoved == UNCHANGED <<served, req>> /\ Shared

\* It stands for these services, in turn.
Becomes(f, svcs) ==
  /\ pending' = [pending EXCEPT ![f] = svcs \o Tail(@)]
  /\ Unmoved /\ UNCHANGED <<phase, calls, tx, at>>

\* chain and match_router; the logger does nothing to the transaction.
ServeChain(f) == Turn(f, "chain") /\ Becomes(f, pending[f][1].svcs)

ServeRoute(f) ==
  /\ Turn(f, "route")
  /\ Becomes(f, IF pending[f][1].path = req[f].path /\ ~req[f].slash
                THEN <<pending[f][1].svc>> ELSE <<>>)

ServeLogger(f) == Turn(f, "logger") /\ Becomes(f, <<>>)

\* Mutant of ServeTlsFilter: the redirection is not finished.
ServeTlsFilterOpen(f) ==
  /\ Turn(f, "tls")
  /\ IF f \in tls THEN Becomes(f, <<>>)
     ELSE /\ Returns(f, get_response(tx[f], 302))
          /\ Unmoved

\* tls_filter_service: a redirection, or a page made as display_error does.
ServeTlsFilter(f) ==
  /\ Turn(f, "tls")
  /\ IF f \in tls THEN Becomes(f, <<>>)
     ELSE /\ Returns(f, IF pending[f][1].code = 302 THEN redirect_to(tx[f])
                        ELSE display_error(tx[f], pending[f][1].code))
          /\ Unmoved

\* lambda_service: a websocket handler takes what wants one.
ServeWebSocket(f) ==
  /\ Turn(f, "websocket")
  /\ IF ~req[f].key THEN Becomes(f, <<>>)
     ELSE /\ Returns(f, accept_websocket(tx[f]))
          /\ Unmoved

\* A function that writes a page and finishes it, or throws (external).
ServePage(f) ==
  /\ Turn(f, "page") /\ calls[f] < MaxCalls
  /\ \/ /\ \E t \in write(tx[f], 1) : t.exc = "no" /\ tx' = [tx EXCEPT ![f] = t]
        /\ calls' = [calls EXCEPT ![f] = @ + 1] /\ at' = [at EXCEPT ![f] = "finish"]
        /\ UNCHANGED <<phase, pending>>
     \/ Returns(f, Throw(tx[f], "rt"))
  /\ Unmoved

FinishPage(f) ==
  /\ phase[f] = "serving" /\ at[f] = "finish"
  /\ Returns(f, finish(tx[f]))
  /\ Unmoved

-----------------------------------------------------------------------------
(* local_file_service.                                                     *)

Stat(p) == IF p \in DOMAIN Tree THEN Tree[p] ELSE "none"

\* Where the walk along the path ends: at the first part that is no directory.
Walk(p) ==
  LET ends == {i \in 0..Len(p) : i = Len(p) \/ Stat(SubSeq(p, 1, i)) # "dir"}
  IN SubSeq(p, 1, CHOOSE i \in ends : \A j \in ends : i <= j)

\* The last character of resource(), behind the query if there is one.
EndsInSlash(r) == IF r.query = "none" THEN r.slash ELSE r.query = "/"

\* The default documents of a directory.
Documents(dir) ==
  SelectSeq([i \in 1..Len(Defaults) |-> Append(dir, Defaults[i])],
            LAMBDA p : Stat(p) = "file")

\* A regular file: to the FastCGI provider of its suffix, whose connection
\* may fail, or sent as it is.
Send_file(f, p) ==
  Returns(f, IF Last(p) \in Scripts THEN forward_to_fcgi(tx[f])
             ELSE serve_file(tx[f]))

ServeFiles(f) ==
  LET r == req[f]
      p == Walk(r.path)
      Nothing == Becomes(f, <<>>)
      Answer(A) == A /\ Unmoved
  IN /\ Turn(f, "files")
     /\ CASE Stat(p) = "none" -> Nothing
          [] Stat(p) \in {"denied", "other"} ->
               Answer(Returns(f, display_error(tx[f], 403)))
          [] Stat(p) = "file" -> Answer(Send_file(f, p))
          [] Stat(p) = "dir" /\ ~EndsInSlash(r) -> Answer(Returns(f, redirect_to(tx[f])))
          [] OTHER -> IF Documents(p) = <<>> THEN Nothing
                      ELSE Answer(Send_file(f, Documents(p)[1]))

-----------------------------------------------------------------------------
(* proxy_pass_service.                                                     *)

\* Mutant of Pick: the place stays while another connection is under way.
PickLate(f) ==
  LET at1 == IF _cur >= Len(backends) THEN 0 ELSE _cur IN
  /\ chosen' = Append(chosen, [of |-> backends[at1 + 1], count |-> Len(backends)])
  /\ _cur' = IF \E g \in Fibers : at[g] = "connect" THEN at1 ELSE at1 + 1

\* _cur moves on before the fiber waits for the connection.
Pick(f) ==
  LET at1 == IF _cur >= Len(backends) THEN 0 ELSE _cur IN
  /\ chosen' = Append(chosen, [of |-> backends[at1 + 1], count |-> Len(backends)])
  /\ _cur' = at1 + 1

ServeProxy(f) ==
  /\ Turn(f, "proxy")
  /\ IF backends = <<>> THEN Becomes(f, <<>>)
     ELSE /\ Pick(f)
          /\ at' = [at EXCEPT ![f] = "connect"]
          /\ UNCHANGED <<phase, calls, tx, pending, served, req, tls, backends>>

\* The connection is there, and forward_to runs.
Connected(f) ==
  /\ phase[f] = "serving" /\ at[f] = "connect"
  /\ Returns(f, forward_to_stream(tx[f]))
  /\ Unmoved

ConnectFails(f) ==
  /\ phase[f] = "serving" /\ at[f] = "connect"
  /\ Returns(f, Throw(tx[f], "io"))
  /\ Unmoved

\* append(), between two steps of the fibers that are serving.
AppendBackend ==
  /\ Len(backends) < Len(Backends) + Len(Spares)
  /\ backends' = Append(backends, Spares[Len(backends) - Len(Backends) + 1])
  /\ UNCHANGED <<connVars, _cur, chosen>>

-----------------------------------------------------------------------------
Next ==
  \/ \E f \in Fibers :
       \/ NextRequest(f) \/ Done(f)
       \/ ServeChain(f) \/ ServeRoute(f) \/ ServeLogger(f) \/ ServeTlsFilter(f)
       \/ ServeWebSocket(f) \/ ServePage(f) \/ FinishPage(f)
       \/ ServeFiles(f) \/ ServeProxy(f) \/ Connected(f) \/ ConnectFails(f)
  \/ AppendBackend

Spec == Init /\ [][Next]_vars

-----------------------------------------------------------------------------
(* Properties.                                                             *)

\* However the requests of several connections interleave, and while backends
\* are appended, a backend is not used again before all of those there were
\* have been, and the place of the next one is at most behind the last: the
\* round robin that tinyhttpd promises.
RoundRobin ==
  /\ _cur \in 0..Len(backends)
  /\ \A i, j \in DOMAIN chosen :
       i < j /\ j - i < chosen[i].count => chosen[i].of # chosen[j].of

\* A response that a service has finished is not handed to the next service of
\* the chain: nothing behind the TLS filter sees what it has turned away.  Only
\* a response to HEAD, whose header is never sent, goes on.
FinishedIsFinal ==
  \A f \in Fibers : tx[f].finished /\ phase[f] = "serving" /\ tx[f].method # "HEAD" =>
    pending[f] = <<>>

\* To its connection the stack of services is what HttpConnection assumes of a
\* service, so that what it shows holds of tinyhttpd.
Implements ==
  /\ \A f \in Fibers : HC(f)!Init
  /\ [][\A f \in Fibers : UNCHANGED HC(f)!vars \/ HC(f)!Next]_vars
=============================================================================

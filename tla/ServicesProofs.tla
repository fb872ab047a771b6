--------------------------- MODULE ServicesProofs ---------------------------
(***************************************************************************)
(* Proofs about module Services, for any stack of services, any tree of    *)
(* files, any connections and any backends: what has been answered is      *)
(* final, each connection implements HttpConnection, and backends take     *)
(* turns.  What the methods of a transaction make of it is proved with     *)
(* HttpConnection.                                                         *)
(***************************************************************************)
EXTENDS Services, SequenceTheorems, TLAPS

Con == INSTANCE HttpConnectionProofs

-----------------------------------------------------------------------------
(* The methods there, and those of the connections, are the ones here.     *)

LEMMA ConMethods ==
  ASSUME NEW t, NEW n
  PROVE  /\ Con!write(t, n) = write(t, n)
         /\ Con!finish(t) = finish(t)
         /\ Con!display_error(t, n) = display_error(t, n)
         /\ Con!redirect_to(t) = redirect_to(t)
         /\ Con!serve_file(t) = serve_file(t)
         /\ Con!forward_to_stream(t) = forward_to_stream(t)
         /\ Con!forward_to_fcgi(t) = forward_to_fcgi(t)
         /\ Con!accept_websocket(t) = accept_websocket(t)
<1> USE DEF
      Con!Throw, Con!Then, Con!Send, Con!SendBody, Con!Framing, Con!start_transfer,
      Con!transfer, Con!deflate, Con!write, Con!Pieces, Con!SendRest, Con!finish,
      Con!get_response, Con!display_error, Con!redirect_to, Con!Truncated,
      Con!SendFile, Con!serve_file, Con!Swallow, Con!Relay, Con!Upstream,
      Con!forward_to_stream, Con!forward_to_fcgi, Con!upgrade,
      Con!accept_websocket, Con!NoBody, Con!Codes,
      Throw, Then, Send, SendBody, Framing, start_transfer, transfer, deflate,
      write, Pieces, SendRest, finish, get_response, display_error, redirect_to,
      Truncated, SendFile, serve_file, Swallow, Relay, Upstream,
      forward_to_stream, forward_to_fcgi, upgrade, accept_websocket, NoBody, Codes
<1>1. Con!write(t, n) = write(t, n)
  OBVIOUS
<1>2. Con!finish(t) = finish(t)
  OBVIOUS
<1>3. Con!display_error(t, n) = display_error(t, n)
  OBVIOUS
<1>4. Con!redirect_to(t) = redirect_to(t)
  OBVIOUS
<1>5. Con!serve_file(t) = serve_file(t)
  BY SMTT(30)
<1>6. Con!forward_to_stream(t) = forward_to_stream(t)
  BY SMTT(30)
<1>7. Con!forward_to_fcgi(t) = forward_to_fcgi(t)
  BY SMTT(30)
<1>8. Con!accept_websocket(t) = accept_websocket(t)
  BY SMTT(30)
<1> HIDE DEF
      Con!write, Con!finish, Con!display_error, Con!redirect_to, Con!serve_file,
      Con!forward_to_stream, Con!forward_to_fcgi, Con!accept_websocket,
      write, finish, display_error, redirect_to, serve_file, forward_to_stream,
      forward_to_fcgi, accept_websocket
<1> QED BY <1>1, <1>2, <1>3, <1>4, <1>5, <1>6, <1>7, <1>8

LEMMA HCMethods ==
  ASSUME NEW f \in Fibers, NEW t, NEW n
  PROVE  /\ HC(f)!write(t, n) = write(t, n)
         /\ HC(f)!display_error(t, n) = display_error(t, n)
         /\ HC(f)!finish(t) = finish(t)
         /\ HC(f)!redirect_to(t) = redirect_to(t)
         /\ HC(f)!serve_file(t) = serve_file(t)
         /\ HC(f)!forward_to_stream(t) = forward_to_stream(t)
         /\ HC(f)!forward_to_fcgi(t) = forward_to_fcgi(t)
         /\ HC(f)!accept_websocket(t) = accept_websocket(t)
         /\ HC(f)!Throw(t, n) = Throw(t, n)
<1> USE DEF
      HC!Throw, HC!Then, HC!Send, HC!SendBody, HC!Framing, HC!start_transfer,
      HC!transfer, HC!deflate, HC!write, HC!Pieces, HC!SendRest, HC!finish,
      HC!get_response, HC!display_error, HC!redirect_to, HC!Truncated,
      HC!SendFile, HC!serve_file, HC!Swallow, HC!Relay, HC!Upstream,
      HC!forward_to_stream, HC!forward_to_fcgi, HC!upgrade,
      HC!accept_websocket, HC!NoBody, HC!Codes,
      Throw, Then, Send, SendBody, Framing, start_transfer, transfer, deflate,
      write, Pieces, SendRest, finish, get_response, display_error, redirect_to,
      Truncated, SendFile, serve_file, Swallow, Relay, Upstream,
      forward_to_stream, forward_to_fcgi, upgrade, accept_websocket, NoBody, Codes
<1>1. HC(f)!write(t, n) = write(t, n)
  OBVIOUS
<1>2. HC(f)!finish(t) = finish(t)
  OBVIOUS
<1>3. HC(f)!display_error(t, n) = display_error(t, n)
  OBVIOUS
<1>4. HC(f)!redirect_to(t) = redirect_to(t)
  OBVIOUS
<1>5. HC(f)!serve_file(t) = serve_file(t)
  OBVIOUS
<1>6. HC(f)!forward_to_stream(t) = forward_to_stream(t)
  OBVIOUS
<1>7. HC(f)!forward_to_fcgi(t) = forward_to_fcgi(t)
  OBVIOUS
<1>8. HC(f)!accept_websocket(t) = accept_websocket(t)
  OBVIOUS
<1>9. HC(f)!Throw(t, n) = Throw(t, n)
  OBVIOUS
<1> HIDE DEF
      HC!write, HC!finish, HC!display_error, HC!redirect_to, HC!serve_file,
      HC!forward_to_stream, HC!forward_to_fcgi, HC!accept_websocket, HC!Throw,
      write, finish, display_error, redirect_to, serve_file, forward_to_stream,
      forward_to_fcgi, accept_websocket, Throw
<1> QED BY <1>1, <1>2, <1>3, <1>4, <1>5, <1>6, <1>7, <1>8, <1>9

-----------------------------------------------------------------------------
(* What each method makes of a transaction that has not been answered.     *)

Answers(t, u) == Con!Ends(t, u) /\ Con!Finishes(u)

Unanswered(t) == Con!Replaceable(t) /\ ~t.headerSent

LEMMA CallsBounded == MaxCalls \in Nat
BY ServicesAssumption

LEMMA ErrorAnswers ==
  ASSUME NEW t, Con!Ready(t), NEW c \in Con!Codes \ Con!NoBody, NEW u \in Con!display_error(t, c)
  PROVE  Con!Ends(t, u) /\ Con!Finishes(u)
BY TransactionAssumption, CallsBounded, Con!display_errorEnds

LEMMA RedirectAnswers ==
  ASSUME NEW t, Con!Ready(t), NEW u \in Con!redirect_to(t)
  PROVE  Con!Ends(t, u) /\ Con!Finishes(u)
BY TransactionAssumption, CallsBounded, Con!redirect_toEnds

LEMMA FileAnswers ==
  ASSUME NEW t, Con!Replaceable(t), NEW u \in Con!serve_file(t)
  PROVE  Con!Ends(t, u) /\ Con!Finishes(u)
BY TransactionAssumption, CallsBounded, Con!serve_fileEnds

LEMMA StreamAnswers ==
  ASSUME NEW t, Con!Replaceable(t), NEW u \in Con!forward_to_stream(t)
  PROVE  Con!Ends(t, u) /\ Con!Finishes(u)
BY TransactionAssumption, CallsBounded, Con!forward_to_streamEnds

LEMMA FcgiAnswers ==
  ASSUME NEW t, Con!Replaceable(t), NEW u \in Con!forward_to_fcgi(t)
  PROVE  Con!Ends(t, u) /\ Con!Finishes(u)
BY TransactionAssumption, CallsBounded, Con!forward_to_fcgiEnds

LEMMA WebSocketAnswers ==
  ASSUME NEW t, Con!Ready(t), NEW u \in Con!accept_websocket(t)
  PROVE  Con!Ends(t, u) /\ Con!Finishes(u)
BY TransactionAssumption, CallsBounded, Con!accept_websocketEnds

LEMMA FinishAnswers ==
  ASSUME NEW t, Con!Ready(t), NEW u \in Con!finish(t)
  PROVE  Con!Ends(t, u) /\ Con!Finishes(u)
BY TransactionAssumption, CallsBounded, Con!finishLast

LEMMA WriteGoesOn ==
  ASSUME NEW t, Con!Ready(t), Con!Bodied(t), NEW n \in Nat, NEW u \in Con!write(t, n)
  PROVE  Con!Ends(t, u)
BY TransactionAssumption, CallsBounded, Con!writeEnds

LEMMA ThrowLeaves ==
  ASSUME NEW t, Con!Ready(t), NEW e \in {"rt", "io"}, NEW u \in Con!Throw(t, e)
  PROVE  Con!Ends(t, u) /\ Con!Finishes(u) /\ u.exc = e
BY TransactionAssumption, CallsBounded, Con!ThrowEnds

LEMMA NewUnanswered ==
  ASSUME NEW method \in Con!Methods, NEW noGzip \in BOOLEAN, NEW keep \in BOOLEAN,
         NEW t, t = Con!New(method, noGzip, keep) 
  PROVE  Con!Ready(t)
BY TransactionAssumption, CallsBounded, Con!NewReady

\* All of them, as the services call them.
LEMMA MethodsAnswer ==
  ASSUME NEW t, Unanswered(t)
  PROVE  /\ \A u \in display_error(t, 403) : Answers(t, u)
         /\ \A u \in display_error(t, 502) : Answers(t, u)
         /\ \A u \in redirect_to(t) : Answers(t, u)
         /\ \A u \in serve_file(t) : Answers(t, u)
         /\ \A u \in forward_to_stream(t) : Answers(t, u)
         /\ \A u \in forward_to_fcgi(t) : Answers(t, u)
         /\ \A u \in accept_websocket(t) : Answers(t, u)
         /\ \A e \in {"rt", "io"} : \A u \in Throw(t, e) : Answers(t, u) /\ u.exc = e
<1>1. Con!Ready(t) /\ Con!Replaceable(t)
  BY DEF Unanswered, Con!Replaceable
<1>2. ASSUME NEW c \in {403, 502} PROVE \A u \in display_error(t, c) : Answers(t, u)
  <2>1. c \in Con!Codes \ Con!NoBody
    BY <1>2 DEF Con!Codes, Con!NoBody
  <2> QED BY <1>1, <2>1, ConMethods, ErrorAnswers DEF Answers
<1>3. \A u \in redirect_to(t) : Answers(t, u)
  BY <1>1, ConMethods, RedirectAnswers DEF Answers
<1>4. \A u \in serve_file(t) : Answers(t, u)
  BY <1>1, ConMethods, FileAnswers DEF Answers
<1>5. \A u \in forward_to_stream(t) : Answers(t, u)
  BY <1>1, ConMethods, StreamAnswers DEF Answers
<1>6. \A u \in forward_to_fcgi(t) : Answers(t, u)
  BY <1>1, ConMethods, FcgiAnswers DEF Answers
<1>7. \A u \in accept_websocket(t) : Answers(t, u)
  BY <1>1, ConMethods, WebSocketAnswers DEF Answers
<1>8. ASSUME NEW e \in {"rt", "io"}, NEW u \in Throw(t, e) PROVE Answers(t, u) /\ u.exc = e
  <2>1. Con!Throw(t, e) = Throw(t, e)
    BY DEF Con!Throw, Throw
  <2> QED BY <1>1, <2>1, ThrowLeaves DEF Answers
<1>9. /\ \A u \in display_error(t, 403) : Answers(t, u)
      /\ \A u \in display_error(t, 502) : Answers(t, u)
  BY <1>2
<1> QED BY <1>3, <1>4, <1>5, <1>6, <1>7, <1>8, <1>9

\* A response that is finished without a header is one to HEAD.
LEMMA FinishedUnsent ==
  ASSUME NEW t, Con!Ready(t), t.finished, ~t.headerSent
  PROVE  Unanswered(t) /\ t.method = "HEAD"
BY DEF Con!Ready, Con!Final, Con!Headless, Con!Sound, Con!Bodyless, Con!Replaceable, Unanswered

-----------------------------------------------------------------------------
(* The connections.                                                        *)

\* What has been answered is not in anybody's turn, and nobody's fiber waits
\* between two requests.
InTurn(f) ==
  IF phase[f] = "serving"
  THEN /\ Con!Ready(tx[f])
       /\ at[f] # "serve" => pending[f] # <<>>
       /\ IF at[f] = "finish" THEN ~tx[f].finished
          ELSE pending[f] # <<>> => Unanswered(tx[f])
  ELSE at[f] = "serve"

ConnTypes ==
  /\ DOMAIN phase = Fibers /\ DOMAIN calls = Fibers /\ DOMAIN tx = Fibers
  /\ pending \in [Fibers -> Seq(Stack)]
  /\ at \in [Fibers -> {"serve", "connect", "finish"}]

ServInv == ConnTypes /\ \A f \in Fibers : InTurn(f)

\* What a step of the fiber of g can do.
Alone(g) ==
  \A f \in Fibers \ {g} :
    /\ phase'[f] = phase[f] /\ calls'[f] = calls[f] /\ tx'[f] = tx[f]
    /\ pending'[f] = pending[f] /\ at'[f] = at[f]

Moves(g) == ConnTypes' /\ Alone(g) /\ InTurn(g)'

\* To the connection of f.
Step(f) == UNCHANGED HC(f)!vars \/ HC(f)!Next

LEMMA MovesAll ==
  ASSUME ServInv, NEW g \in Fibers, Moves(g), Step(g)
  PROVE  ServInv' /\ \A f \in Fibers : Step(f)
<1>1. ASSUME NEW f \in Fibers \ {g} PROVE InTurn(f)' /\ Step(f)
  <2>1. /\ phase'[f] = phase[f] /\ calls'[f] = calls[f] /\ tx'[f] = tx[f]
        /\ pending'[f] = pending[f] /\ at'[f] = at[f]
    BY <1>1 DEF Moves, Alone
  <2>2. InTurn(f)'
    BY <1>1, <2>1 DEF ServInv, InTurn
  <2> QED BY <2>1, <2>2 DEF Step, HC!vars
<1> QED BY <1>1 DEF ServInv, Moves

\* A method called by g has ended in t: here, and in HttpConnection.
Returned(g, t) ==
  /\ calls[g] < MaxCalls
  /\ IF t.exc = "no"
     THEN /\ tx' = [tx EXCEPT ![g] = t] /\ Onwards(g, t)
          /\ calls' = [calls EXCEPT ![g] = @ + 1] /\ UNCHANGED phase
     ELSE \E u \in HC(g)!Conclude({t}) : Ends(g, u)
  /\ at' = [at EXCEPT ![g] = "serve"]

Called(g, t) ==
  /\ phase[g] = "serving" /\ calls[g] < MaxCalls
  /\ IF t.exc = "no"
     THEN tx'[g] = t /\ calls'[g] = calls[g] + 1 /\ phase'[g] = phase[g]
     ELSE \E u \in HC(g)!Conclude({t}) : HC(g)!Return(u)

LEMMA ReturnedMoves ==
  ASSUME ServInv, NEW g \in Fibers, phase[g] = "serving", pending[g] # <<>>,
         NEW t, Answers(tx[g], t), Returned(g, t)
  PROVE  Moves(g) /\ Called(g, t)
<1> USE DEF ServInv, ConnTypes
<1>1. IF t.exc = "no"
      THEN /\ tx' = [tx EXCEPT ![g] = t] /\ Onwards(g, t)
           /\ calls' = [calls EXCEPT ![g] = @ + 1] /\ UNCHANGED phase
      ELSE \E u \in HC(g)!Conclude({t}) : Ends(g, u)
  BY DEF Returned
<1>2. calls[g] < MaxCalls /\ at' = [at EXCEPT ![g] = "serve"]
  BY DEF Returned
<1>3. at' \in [Fibers -> {"serve", "connect", "finish"}] /\ at'[g] = "serve"
      /\ \A f \in Fibers \ {g} : at'[f] = at[f]
  BY <1>2
<1>4. CASE t.exc = "no"
  <2>1. /\ tx' = [tx EXCEPT ![g] = t] /\ Onwards(g, t)
        /\ calls' = [calls EXCEPT ![g] = @ + 1] /\ UNCHANGED phase
    BY <1>1, <1>4
  <2>2. /\ DOMAIN tx' = Fibers /\ DOMAIN calls' = Fibers /\ phase' = phase
        /\ tx'[g] = t /\ calls'[g] = calls[g] + 1
        /\ \A f \in Fibers \ {g} : tx'[f] = tx[f] /\ calls'[f] = calls[f]
    BY <2>1
  <2>3. pending' = [pending EXCEPT ![g] = IF t.headerSent THEN <<>> ELSE Tail(@)]
    BY <2>1 DEF Onwards
  <2>4. pending[g] \in Seq(Stack) /\ Tail(pending[g]) \in Seq(Stack) /\ <<>> \in Seq(Stack)
    <3>1. pending[g] \in Seq(Stack)
      OBVIOUS
    <3> QED BY <3>1
  <2>5. /\ pending' \in [Fibers -> Seq(Stack)]
        /\ t.headerSent => pending'[g] = <<>>
        /\ \A f \in Fibers \ {g} : pending'[f] = pending[f]
    BY <2>3, <2>4
  <2>6. Con!Ready(t) /\ t.finished
    BY <1>1, <1>4 DEF Answers, Con!Ends, Con!Finishes
  <2>7. InTurn(g)'
    BY <1>3, <2>2, <2>5, <2>6, FinishedUnsent DEF InTurn
  <2>8. Called(g, t)
    BY <1>2, <1>4, <2>2 DEF Called
  <2> QED BY <1>3, <2>2, <2>5, <2>7, <2>8 DEF Moves, Alone
<1>5. CASE t.exc # "no"
  <2>1. PICK u \in HC(g)!Conclude({t}) : Ends(g, u)
    BY <1>1, <1>5
  <2>2. /\ DOMAIN tx' = Fibers /\ calls' = calls /\ DOMAIN phase' = Fibers
        /\ tx'[g] = u /\ phase'[g] = (IF u.exc = "no" THEN "idle" ELSE "closed")
        /\ \A f \in Fibers \ {g} : tx'[f] = tx[f] /\ phase'[f] = phase[f]
    BY <2>1 DEF Ends
  <2>3. /\ pending' \in [Fibers -> Seq(Stack)]
        /\ \A f \in Fibers \ {g} : pending'[f] = pending[f]
    <3>1. <<>> \in Seq(Stack) /\ pending' = [pending EXCEPT ![g] = <<>>]
      BY <2>1 DEF Ends
    <3> QED BY <3>1
  <2>4. InTurn(g)'
    BY <1>3, <2>2 DEF InTurn
  <2>5. HC(g)!Return(u)
    BY <2>2 DEF HC!Return, HC!Close
  <2>6. Called(g, t)
    BY <1>2, <1>5, <2>1, <2>5 DEF Called
  <2> QED BY <1>3, <2>2, <2>3, <2>4, <2>6 DEF Moves, Alone
<1> QED BY <1>4, <1>5

\* A service that did nothing, or stands for others.
LEMMA BecomesMoves ==
  ASSUME ServInv, NEW g \in Fibers, phase[g] = "serving", at[g] = "serve",
         pending[g] # <<>>, NEW svcs \in Seq(Stack), Becomes(g, svcs)
  PROVE  Moves(g) /\ Step(g)
<1> USE DEF ServInv, ConnTypes
<1>1. /\ phase' = phase /\ calls' = calls /\ tx' = tx /\ at' = at
      /\ pending' = [pending EXCEPT ![g] = svcs \o Tail(@)]
  BY DEF Becomes
<1>2. pending[g] \in Seq(Stack) /\ svcs \o Tail(pending[g]) \in Seq(Stack)
  <2>1. pending[g] \in Seq(Stack)
    OBVIOUS
  <2>2. Tail(pending[g]) \in Seq(Stack)
    BY <2>1
  <2> QED BY <2>1, <2>2
<1>3. pending' \in [Fibers -> Seq(Stack)] /\ \A f \in Fibers \ {g} : pending'[f] = pending[f]
  BY <1>1, <1>2
<1>4. InTurn(g)'
  BY <1>1 DEF InTurn
<1> QED BY <1>1, <1>3, <1>4 DEF Moves, Alone, Step, HC!vars

\* Whose turn it is.
LEMMA TurnIs ==
  ASSUME ServInv, NEW g \in Fibers, NEW kind, Turn(g, kind)
  PROVE  /\ phase[g] = "serving" /\ at[g] = "serve" /\ pending[g] # <<>>
         /\ pending[g][1] \in Stack /\ pending[g][1].kind = kind /\ Unanswered(tx[g])
<1>1. /\ phase[g] = "serving" /\ at[g] = "serve" /\ pending[g] # <<>>
      /\ pending[g][1].kind = kind /\ pending[g] \in Seq(Stack) /\ InTurn(g)
  BY DEF Turn, ServInv, ConnTypes
<1> QED BY <1>1 DEF InTurn

\* What HttpConnection lets a service do with such a transaction.
LEMMA MayAnswer ==
  ASSUME NEW g \in Fibers, Unanswered(tx[g])
  PROVE  HC(g)!MayReplace /\ HC(g)!MayHaveBody
<1>1. /\ tx[g].finished \/ tx[g].code \notin {204, 304}
      /\ tx[g].buffer = 0 /\ ~tx[g].gzip /\ tx[g].mode \in {"UNDECIDED", "HEADONLY"}
  BY DEF Unanswered, Con!Replaceable, Con!Ready, Con!Headless, Con!NoBody
<1> QED BY <1>1 DEF HC!MayReplace, HC!MayHaveBody, HC!Empty, HC!NoBody

LEMMA ServeChainMoves ==
  ASSUME ServInv, NEW g \in Fibers, ServeChain(g)
  PROVE  Moves(g) /\ Step(g)
<1>1. /\ phase[g] = "serving" /\ at[g] = "serve" /\ pending[g] # <<>>
      /\ pending[g][1] \in Stack /\ pending[g][1].kind = "chain"
  BY TurnIs DEF ServeChain
<1> DEFINE svcs == pending[g][1].svcs
<1>2. svcs \in Seq(Stack)
  BY <1>1, ServicesAssumption DEF IsStack
<1>3. Becomes(g, svcs)
  BY DEF ServeChain
<1> HIDE DEF svcs
<1> QED BY <1>1, <1>2, <1>3, BecomesMoves

LEMMA ServeRouteMoves ==
  ASSUME ServInv, NEW g \in Fibers, ServeRoute(g)
  PROVE  Moves(g) /\ Step(g)
<1>1. /\ phase[g] = "serving" /\ at[g] = "serve" /\ pending[g] # <<>>
      /\ pending[g][1] \in Stack /\ pending[g][1].kind = "route"
  BY TurnIs DEF ServeRoute
<1> DEFINE svcs == IF pending[g][1].path = req[g].path /\ ~req[g].slash
                   THEN <<pending[g][1].svc>> ELSE <<>>
<1>2. pending[g][1].svc \in Stack
  BY <1>1, ServicesAssumption DEF IsStack
<1>3. svcs \in Seq(Stack) /\ Becomes(g, svcs)
  BY <1>2 DEF ServeRoute
<1> HIDE DEF svcs
<1> QED BY <1>1, <1>3, BecomesMoves

LEMMA EmptyStack == <<>> \in Seq(Stack)
OBVIOUS

LEMMA ServeLoggerMoves ==
  ASSUME ServInv, NEW g \in Fibers, ServeLogger(g)
  PROVE  Moves(g) /\ Step(g)
BY TurnIs, BecomesMoves, EmptyStack DEF ServeLogger

LEMMA ServeTlsFilterMoves ==
  ASSUME ServInv, NEW g \in Fibers, ServeTlsFilter(g)
  PROVE  Moves(g) /\ Step(g)
<1>1. /\ phase[g] = "serving" /\ at[g] = "serve" /\ pending[g] # <<>>
      /\ pending[g][1] \in Stack /\ pending[g][1].kind = "tls" /\ Unanswered(tx[g])
  BY TurnIs DEF ServeTlsFilter
<1>2. CASE g \in tls
  BY <1>1, <1>2, BecomesMoves, EmptyStack DEF ServeTlsFilter
<1>3. CASE g \notin tls /\ pending[g][1].code = 302
  <2> DEFINE R == IF pending[g][1].code = 302 THEN redirect_to(tx[g])
                  ELSE display_error(tx[g], pending[g][1].code)
  <2>1. g \notin tls /\ R = redirect_to(tx[g])
    BY <1>3
  <2>2. Returns(g, R)
    BY <2>1 DEF ServeTlsFilter
  <2> HIDE DEF R
  <2>3. PICK t \in redirect_to(tx[g]) : Returned(g, t)
    <3>1. \E t \in R : Returned(g, t)
      BY <2>2 DEF Returns, Returned
    <3> QED BY <2>1, <3>1
  <2>4. Moves(g) /\ Called(g, t)
    BY <1>1, <2>3, MethodsAnswer, ReturnedMoves
  <2>5. HC(g)!ServiceRedirects
    BY <2>3, <2>4, HCMethods DEF HC!ServiceRedirects, HC!Calls, Called
  <2> QED BY <2>4, <2>5 DEF Step, HC!Next
<1>4. CASE g \notin tls /\ pending[g][1].code # 302
  <2> DEFINE c == pending[g][1].code
  <2>1. c \in {403, 502}
    BY <1>1, <1>4, ServicesAssumption DEF IsStack
  <2>2. PICK t \in display_error(tx[g], c) : Returned(g, t)
    <3>1. PICK t \in (IF pending[g][1].code = 302 THEN redirect_to(tx[g])
                      ELSE display_error(tx[g], pending[g][1].code)) : Returned(g, t)
      BY <1>4 DEF ServeTlsFilter, Returns, Returned
    <3> QED BY <1>4, <3>1
  <2> HIDE DEF c
  <2>3. Answers(tx[g], t)
    BY <1>1, <2>1, <2>2, MethodsAnswer
  <2>4. Moves(g) /\ Called(g, t)
    BY <1>1, <2>2, <2>3, ReturnedMoves
  <2>5. HC(g)!ServiceDisplaysError
    <3>1. CASE c = 403
      <4>1. t \in HC(g)!display_error(tx[g], 403)
        BY <2>2, <3>1, HCMethods
      <4> QED BY <2>4, <4>1 DEF HC!ServiceDisplaysError, HC!Calls, Called
    <3>2. CASE c = 502
      <4>1. t \in HC(g)!display_error(tx[g], 502)
        BY <2>2, <3>2, HCMethods
      <4> QED BY <2>4, <4>1 DEF HC!ServiceDisplaysError, HC!Calls, Called
    <3> QED BY <2>1, <3>1, <3>2
  <2> QED BY <2>4, <2>5 DEF Step, HC!Next
<1> QED BY <1>2, <1>3, <1>4

LEMMA ServeWebSocketMoves ==
  ASSUME ServInv, NEW g \in Fibers, ServeWebSocket(g)
  PROVE  Moves(g) /\ Step(g)
<1>1. /\ phase[g] = "serving" /\ at[g] = "serve" /\ pending[g] # <<>> /\ Unanswered(tx[g])
  BY TurnIs DEF ServeWebSocket
<1>2. CASE ~req[g].key
  BY <1>1, <1>2, BecomesMoves, EmptyStack DEF ServeWebSocket
<1>3. CASE req[g].key
  <2>1. PICK t \in accept_websocket(tx[g]) : Returned(g, t)
    BY <1>3 DEF ServeWebSocket, Returns, Returned
  <2>2. Moves(g) /\ Called(g, t)
    BY <1>1, <2>1, MethodsAnswer, ReturnedMoves
  <2>3. HC(g)!ServiceAcceptsWebSocket
    BY <2>1, <2>2, HCMethods DEF HC!ServiceAcceptsWebSocket, HC!Calls, Called
  <2> QED BY <2>2, <2>3 DEF Step, HC!Next
<1> QED BY <1>2, <1>3

\* The page, or the exception, of a handler.
LEMMA WriteUnfinished ==
  ASSUME NEW t, Con!Ready(t), Con!Bodied(t), NEW u \in Con!write(t, 1), u.exc = "no"
  PROVE  ~u.finished
<1>1. Con!Writable(t)
  BY TransactionAssumption, CallsBounded, Con!ReadyIs
<1>2. Con!Wrote(t, u)
  BY <1>1, TransactionAssumption, CallsBounded, Con!writeKeeps
<1>3. CASE t.finished
  <2>1. u = [t EXCEPT !.exc = "rt"] /\ "exc" \in DOMAIN t
    BY <1>3 DEF Con!Ready, Con!Sound, Con!Transactions, Con!write, Con!Throw
  <2> QED BY <2>1
<1>4. CASE ~t.finished
  BY <1>2, <1>4 DEF Con!Wrote, Con!Kept
<1> QED BY <1>3, <1>4

LEMMA ServePageMoves ==
  ASSUME ServInv, NEW g \in Fibers, ServePage(g)
  PROVE  Moves(g) /\ Step(g)
<1> USE DEF ServInv, ConnTypes
<1>1. /\ phase[g] = "serving" /\ at[g] = "serve" /\ pending[g] # <<>> /\ Unanswered(tx[g])
      /\ calls[g] < MaxCalls
  BY TurnIs DEF ServePage
<1>2. CASE Returns(g, Throw(tx[g], "rt"))
  <2>1. PICK t \in Throw(tx[g], "rt") : Returned(g, t)
    BY <1>2 DEF Returns, Returned
  <2>2. Answers(tx[g], t) /\ t.exc = "rt"
    BY <1>1, <2>1, MethodsAnswer
  <2>3. Moves(g) /\ Called(g, t)
    BY <1>1, <2>1, <2>2, ReturnedMoves
  <2>4. {t} = Throw(tx[g], "rt")
    BY <2>1 DEF Throw
  <2>5. HC(g)!ServiceThrows
    <3>1. \E u \in HC(g)!Conclude({t}) : HC(g)!Return(u)
      BY <2>2, <2>3 DEF Called
    <3>2. {t} = HC(g)!Throw(tx[g], "rt")
      BY <2>4 DEF Throw, HC!Throw
    <3> QED BY <1>1, <3>1, <3>2 DEF HC!ServiceThrows
  <2> QED BY <2>3, <2>5 DEF Step, HC!Next
<1>3. ASSUME NEW t \in write(tx[g], 1), t.exc = "no", tx' = [tx EXCEPT ![g] = t],
             calls' = [calls EXCEPT ![g] = @ + 1], at' = [at EXCEPT ![g] = "finish"],
             UNCHANGED <<phase, pending>>
      PROVE  Moves(g) /\ Step(g)
  <2>1. Con!Ready(tx[g]) /\ Con!Bodied(tx[g])
    BY <1>1 DEF Unanswered, Con!Replaceable, Con!Bodied
  <2>2. t \in Con!write(tx[g], 1) /\ 1 \in Nat
    BY <1>3, ConMethods
  <2>3. Con!Ends(tx[g], t) /\ ~t.finished
    BY <1>3, <2>1, <2>2, WriteGoesOn, WriteUnfinished
  <2>4. /\ DOMAIN tx' = Fibers /\ DOMAIN calls' = Fibers /\ phase' = phase /\ pending' = pending
        /\ tx'[g] = t /\ calls'[g] = calls[g] + 1 /\ at'[g] = "finish"
        /\ at' \in [Fibers -> {"serve", "connect", "finish"}]
        /\ \A f \in Fibers \ {g} : tx'[f] = tx[f] /\ calls'[f] = calls[f] /\ at'[f] = at[f]
    BY <1>3
  <2>5. InTurn(g)'
    BY <1>1, <1>3, <2>3, <2>4 DEF InTurn, Con!Ends
  <2>6. t \in HC(g)!write(tx[g], 1)
    BY <1>3, HCMethods
  <2>7. HC(g)!ServiceWrites
    <3>1. HC(g)!MayHaveBody
      BY <1>1, MayAnswer
    <3>2. Called(g, t)
      BY <1>1, <1>3, <2>4 DEF Called
    <3>3. \E n \in 1..2 : t \in HC(g)!write(tx[g], n)
      BY <2>6
    <3> QED BY <3>1, <3>2, <3>3 DEF HC!ServiceWrites, HC!Calls, Called
  <2> QED BY <2>4, <2>5, <2>7 DEF Moves, Alone, Step, HC!Next
<1> QED BY <1>2, <1>3 DEF ServePage

LEMMA FinishPageMoves ==
  ASSUME ServInv, NEW g \in Fibers, FinishPage(g)
  PROVE  Moves(g) /\ Step(g)
<1>1. phase[g] = "serving" /\ pending[g] # <<>> /\ Con!Ready(tx[g])
  BY DEF FinishPage, ServInv, InTurn
<1>2. PICK t \in finish(tx[g]) : Returned(g, t)
  BY DEF FinishPage, Returns, Returned
<1>3. Answers(tx[g], t)
  BY <1>1, <1>2, ConMethods, FinishAnswers DEF Answers
<1>4. Moves(g) /\ Called(g, t)
  BY <1>1, <1>2, <1>3, ReturnedMoves
<1>5. HC(g)!ServiceFinishes
  BY <1>2, <1>4, HCMethods DEF HC!ServiceFinishes, HC!Calls, Called
<1> QED BY <1>4, <1>5 DEF Step, HC!Next

LEMMA SendsMove ==
  ASSUME ServInv, NEW g \in Fibers, phase[g] = "serving", pending[g] # <<>>,
         Unanswered(tx[g]), NEW t, Returned(g, t),
         t \in serve_file(tx[g]) \/ t \in forward_to_fcgi(tx[g])
  PROVE  Moves(g) /\ Step(g)
<1>1. Answers(tx[g], t)
  BY MethodsAnswer
<1>2. Moves(g) /\ Called(g, t)
  BY <1>1, ReturnedMoves
<1>3. HC(g)!ServiceServesFile \/ HC(g)!ServiceForwardsToFcgi
  BY <1>2, HCMethods, MayAnswer
  DEF HC!ServiceServesFile, HC!ServiceForwardsToFcgi, HC!Calls, Called
<1> QED BY <1>2, <1>3 DEF Step, HC!Next

LEMMA ServeFilesMoves ==
  ASSUME ServInv, NEW g \in Fibers, ServeFiles(g)
  PROVE  Moves(g) /\ Step(g)
<1>1. /\ phase[g] = "serving" /\ at[g] = "serve" /\ pending[g] # <<>> /\ Unanswered(tx[g])
  BY TurnIs DEF ServeFiles
<1> DEFINE p == Walk(req[g].path)
           Sends(q) == IF Last(q) \in Scripts THEN forward_to_fcgi(tx[g]) ELSE serve_file(tx[g])
           One == Sends(p)
           Two == Sends(Documents(p)[1])
<1>2. \/ Becomes(g, <<>>)
      \/ Returns(g, display_error(tx[g], 403)) \/ Returns(g, redirect_to(tx[g]))
      \/ Returns(g, One) \/ Returns(g, Two)
  BY DEF ServeFiles, Send_file
<1>3. \A t : t \in One \/ t \in Two => t \in serve_file(tx[g]) \/ t \in forward_to_fcgi(tx[g])
  OBVIOUS
<1> HIDE DEF One, Two
<1>4. CASE Becomes(g, <<>>)
  BY <1>1, <1>4, BecomesMoves, EmptyStack
<1>5. CASE Returns(g, display_error(tx[g], 403))
  <2>1. PICK t \in display_error(tx[g], 403) : Returned(g, t)
    BY <1>5 DEF Returns, Returned
  <2>2. Moves(g) /\ Called(g, t)
    BY <1>1, <2>1, MethodsAnswer, ReturnedMoves
  <2>3. t \in HC(g)!display_error(tx[g], 403)
    BY <2>1, HCMethods
  <2>4. HC(g)!ServiceDisplaysError
    BY <2>2, <2>3 DEF HC!ServiceDisplaysError, HC!Calls, Called
  <2> QED BY <2>2, <2>4 DEF Step, HC!Next
<1>6. CASE Returns(g, redirect_to(tx[g]))
  <2>1. PICK t \in redirect_to(tx[g]) : Returned(g, t)
    BY <1>6 DEF Returns, Returned
  <2>2. Moves(g) /\ Called(g, t)
    BY <1>1, <2>1, MethodsAnswer, ReturnedMoves
  <2>3. HC(g)!ServiceRedirects
    BY <2>1, <2>2, HCMethods DEF HC!ServiceRedirects, HC!Calls, Called
  <2> QED BY <2>2, <2>3 DEF Step, HC!Next
<1>7. CASE Returns(g, One) \/ Returns(g, Two)
  <2>1. PICK t : (t \in One \/ t \in Two) /\ Returned(g, t)
    BY <1>7 DEF Returns, Returned
  <2> QED BY <1>1, <1>3, <2>1, SendsMove
<1> QED BY <1>2, <1>4, <1>5, <1>6, <1>7

LEMMA ServeProxyMoves ==
  ASSUME ServInv, NEW g \in Fibers, ServeProxy(g)
  PROVE  Moves(g) /\ Step(g)
<1> USE DEF ServInv, ConnTypes
<1>1. /\ phase[g] = "serving" /\ at[g] = "serve" /\ pending[g] # <<>> /\ Unanswered(tx[g])
  BY TurnIs DEF ServeProxy
<1>2. CASE backends = <<>>
  BY <1>1, <1>2, BecomesMoves, EmptyStack DEF ServeProxy
<1>3. CASE backends # <<>>
  <2>1. /\ at' = [at EXCEPT ![g] = "connect"] /\ phase' = phase /\ calls' = calls
        /\ tx' = tx /\ pending' = pending
    BY <1>3 DEF ServeProxy
  <2>2. InTurn(g)'
    BY <1>1, <2>1 DEF InTurn, Unanswered, Con!Replaceable
  <2> QED BY <2>1, <2>2 DEF Moves, Alone, Step, HC!vars
<1> QED BY <1>2, <1>3

LEMMA ConnectedMoves ==
  ASSUME ServInv, NEW g \in Fibers, Connected(g) \/ ConnectFails(g)
  PROVE  Moves(g) /\ Step(g)
<1>1. phase[g] = "serving" /\ pending[g] # <<>> /\ Unanswered(tx[g])
  BY DEF Connected, ConnectFails, ServInv, InTurn
<1>2. PICK t : Returned(g, t) /\ (t \in forward_to_stream(tx[g]) \/ t \in Throw(tx[g], "io"))
  BY DEF Connected, ConnectFails, Returns, Returned
<1>3. t \in forward_to_stream(tx[g])
  BY <1>1, <1>2 DEF forward_to_stream, Unanswered
<1>4. Moves(g) /\ Called(g, t)
  BY <1>1, <1>2, <1>3, MethodsAnswer, ReturnedMoves
<1>5. HC(g)!ServiceForwardsToStream
  BY <1>1, <1>3, <1>4, HCMethods, MayAnswer DEF HC!ServiceForwardsToStream, HC!Calls, Called
<1> QED BY <1>4, <1>5 DEF Step, HC!Next

\* A request, before anybody has served it.
LEMMA NewRequest ==
  ASSUME NEW method \in Methods, NEW noGzip \in BOOLEAN, NEW keep \in BOOLEAN
  PROVE  Unanswered(New(method, noGzip, keep))
<1> DEFINE t == New(method, noGzip, keep)
<1>1. t = Con!New(method, noGzip, keep) /\ method \in Con!Methods
  BY DEF Con!New, New, Con!NoWire, NoWire, Con!NoLength, NoLength, Con!Methods, Methods
<1>2. t.code = 200 /\ ~t.headerSent /\ t.buffer = 0 /\ ~t.gzip
  BY DEF New
<1> HIDE DEF t
<1>3. Con!Ready(t)
  BY <1>1, NewUnanswered
<1>4. Unanswered(t)
  BY <1>2, <1>3 DEF Unanswered, Con!Replaceable, Con!NoBody
<1> QED BY <1>4 DEF t

LEMMA NextRequestMoves ==
  ASSUME ServInv, NEW g \in Fibers, NextRequest(g)
  PROVE  Moves(g) /\ Step(g)
<1> USE DEF ServInv, ConnTypes
<1>1. PICK r \in Requests[g] : tx' = [tx EXCEPT ![g] = New(r.method, r.noGzip, r.keep)]
  BY DEF NextRequest
<1> DEFINE t == New(r.method, r.noGzip, r.keep)
<1>2. r.method \in Methods /\ r.noGzip \in BOOLEAN /\ r.keep \in BOOLEAN /\ Service \in Stack
  BY ServicesAssumption
<1>3. Unanswered(t)
  BY <1>2, NewRequest
<1>4. t = HC(g)!New(r.method, r.noGzip, r.keep)
  BY DEF New, HC!New, NoWire, HC!NoWire, NoLength, HC!NoLength
<1> HIDE DEF t
<1>5. /\ phase[g] = "idle" /\ HC(g)!keep_alive(tx[g]) /\ tx[g].alive
      /\ phase' = [phase EXCEPT ![g] = "serving"] /\ calls' = [calls EXCEPT ![g] = 0]
      /\ pending' = [pending EXCEPT ![g] = <<Service>>] /\ at' = at
  BY DEF NextRequest
<1>6. tx' = [tx EXCEPT ![g] = t]
  BY <1>1 DEF t
<1>7. /\ DOMAIN phase' = Fibers /\ DOMAIN calls' = Fibers /\ DOMAIN tx' = Fibers
      /\ phase'[g] = "serving" /\ calls'[g] = 0 /\ tx'[g] = t
      /\ \A f \in Fibers \ {g} :
           phase'[f] = phase[f] /\ calls'[f] = calls[f] /\ tx'[f] = tx[f]
  BY <1>5, <1>6
<1>8. /\ pending' \in [Fibers -> Seq(Stack)] /\ pending'[g] # <<>>
      /\ \A f \in Fibers \ {g} : pending'[f] = pending[f]
  <2>1. <<Service>> \in Seq(Stack) /\ <<Service>> # <<>>
    BY <1>2
  <2> QED BY <1>5, <2>1
<1>9. InTurn(g)'
  <2>1. at[g] = "serve"
    BY <1>5 DEF InTurn
  <2> QED BY <1>3, <1>5, <1>7, <2>1 DEF InTurn, Unanswered, Con!Replaceable
<1>10. HC(g)!NextRequest(r.method, r.keep)
  BY <1>2, <1>4, <1>5, <1>7 DEF HC!NextRequest
<1>11. HC(g)!Next
  <2> DEFINE method == r.method  keep == r.keep
  <2>1. method \in HC(g)!Methods /\ keep \in BOOLEAN /\ HC(g)!NextRequest(method, keep)
    BY <1>2, <1>10 DEF Methods, HC!Methods
  <2> HIDE DEF method, keep
  <2> QED BY <2>1 DEF HC!Next
<1> QED BY <1>5, <1>7, <1>8, <1>9, <1>11 DEF Moves, Alone, Step

LEMMA DoneMoves ==
  ASSUME ServInv, NEW g \in Fibers, Done(g)
  PROVE  Moves(g) /\ Step(g)
<1> USE DEF ServInv, ConnTypes
<1> DEFINE S == IF tx[g].headerSent THEN {tx[g]} ELSE display_error(tx[g], 404)
<1>1. phase[g] = "serving" /\ at' = [at EXCEPT ![g] = "serve"]
  BY DEF Done
<1>2. PICK t \in HC(g)!Conclude(S) : Ends(g, t)
  BY DEF Done
<1>3. /\ DOMAIN tx' = Fibers /\ calls' = calls /\ DOMAIN phase' = Fibers
      /\ tx'[g] = t /\ phase'[g] = (IF t.exc = "no" THEN "idle" ELSE "closed")
      /\ \A f \in Fibers \ {g} : tx'[f] = tx[f] /\ phase'[f] = phase[f]
  BY <1>2 DEF Ends
<1>4. /\ pending' \in [Fibers -> Seq(Stack)]
      /\ \A f \in Fibers \ {g} : pending'[f] = pending[f]
  <2>1. pending' = [pending EXCEPT ![g] = <<>>]
    BY <1>2 DEF Ends
  <2> QED BY <2>1, EmptyStack
<1>5. /\ at' \in [Fibers -> {"serve", "connect", "finish"}] /\ at'[g] = "serve"
      /\ \A f \in Fibers \ {g} : at'[f] = at[f]
  BY <1>1
<1>6. InTurn(g)'
  BY <1>3, <1>5 DEF InTurn
<1>7. HC(g)!Return(t)
  BY <1>3 DEF HC!Return, HC!Close
<1>8. S = IF tx[g].headerSent THEN {tx[g]} ELSE HC(g)!display_error(tx[g], 404)
  BY HCMethods
<1> HIDE DEF S
<1>9. HC(g)!ServiceReturns
  BY <1>1, <1>2, <1>7, <1>8 DEF HC!ServiceReturns
<1> QED BY <1>3, <1>4, <1>5, <1>6, <1>9 DEF Moves, Alone, Step, HC!Next

LEMMA ServInit == Init => ServInv /\ \A f \in Fibers : HC(f)!Init
<1> SUFFICES ASSUME Init PROVE ServInv /\ \A f \in Fibers : HC(f)!Init
  OBVIOUS
<1>1. ServInv
  BY EmptyStack DEF Init, ServInv, ConnTypes, InTurn
<1>2. ASSUME NEW f \in Fibers PROVE HC(f)!Init
  BY DEF Init, HC!Init, HC!New, New, HC!NoWire, NoWire, HC!NoLength, NoLength
<1> QED BY <1>1, <1>2

LEMMA ServStep ==
  ASSUME ServInv, [Next]_vars
  PROVE  ServInv' /\ \A f \in Fibers : Step(f)
<1>1. CASE AppendBackend \/ UNCHANGED vars
  <2>1. phase' = phase /\ calls' = calls /\ tx' = tx /\ pending' = pending /\ at' = at
    BY <1>1 DEF AppendBackend, connVars, vars
  <2>2. ServInv'
    BY <2>1 DEF ServInv, ConnTypes, InTurn
  <2> QED BY <2>1, <2>2 DEF Step, HC!vars
<1>2. ASSUME NEW g \in Fibers, Moves(g), Step(g)
      PROVE  ServInv' /\ \A f \in Fibers : Step(f)
  BY <1>2, MovesAll
<1>3. ASSUME NEW g \in Fibers,
             \/ NextRequest(g) \/ Done(g)
             \/ ServeChain(g) \/ ServeRoute(g) \/ ServeLogger(g) \/ ServeTlsFilter(g)
             \/ ServeWebSocket(g) \/ ServePage(g) \/ FinishPage(g)
             \/ ServeFiles(g) \/ ServeProxy(g) \/ Connected(g) \/ ConnectFails(g)
      PROVE  Moves(g) /\ Step(g)
  BY <1>3, NextRequestMoves, DoneMoves, ServeChainMoves, ServeRouteMoves,
     ServeLoggerMoves, ServeTlsFilterMoves, ServeWebSocketMoves, ServePageMoves,
     FinishPageMoves, ServeFilesMoves, ServeProxyMoves, ConnectedMoves
<1> QED BY <1>1, <1>2, <1>3 DEF Next

\* A request that is still to be given to a service has not been answered, and
\* the transaction is one that takes a call, wherever the fiber of the
\* connection waits: what the chains' look at header_sent() is for.
THEOREM ServicesInvariant == Spec => []ServInv
BY ServInit, ServStep, PTL DEF Spec

\* A response that is finished is handed to no further service, whatever the
\* stack: it has a header, unless it is one to HEAD.
THEOREM AnsweredIsFinal == Spec => []FinishedIsFinal
<1>1. ServInv => FinishedIsFinal
  BY FinishedUnsent DEF ServInv, InTurn, FinishedIsFinal, Unanswered, Con!Replaceable
<1> QED BY <1>1, ServicesInvariant, PTL

\* To each of the connections any stack of services is a service as
\* HttpConnection assumes it, so that its theorems hold of all of them.
THEOREM ServicesImplement == Spec => Implements
<1>1. Init => \A f \in Fibers : HC(f)!Init
  BY ServInit
<1>2. ServInv /\ [Next]_vars => [\A f \in Fibers : UNCHANGED HC(f)!vars \/ HC(f)!Next]_vars
  BY ServStep DEF Step
<1> QED BY <1>1, <1>2, ServicesInvariant, PTL DEF Spec, Implements

-----------------------------------------------------------------------------
(* The backends.                                                           *)

\* Those there are at first, and those appended later.
All == Backends \o Spares
Names == Range(Backends) \cup Range(Spares)

LEMMA AllIs ==
  /\ All \in Seq(Names) /\ Len(All) = Len(Backends) + Len(Spares)
  /\ Len(Backends) \in Nat /\ Len(Spares) \in Nat
  /\ Backends \in Seq(Names)
  /\ \A k \in 1..Len(Backends) : All[k] = Backends[k]
  /\ \A k \in 1..Len(Spares) : All[Len(Backends) + k] = Spares[k]
  /\ \A k, l \in 1..Len(All) : All[k] = All[l] => k = l
<1>1. Backends \in Seq(Names) /\ Spares \in Seq(Names)
  <2>1. Backends \in Seq(Range(Backends)) /\ Spares \in Seq(Range(Spares))
    BY ServicesAssumption
  <2>2. Range(Backends) \subseteq Names /\ Range(Spares) \subseteq Names
    BY DEF Names
  <2> HIDE DEF Names
  <2> QED BY <2>1, <2>2
<1>2. /\ All \in Seq(Names) /\ Len(All) = Len(Backends) + Len(Spares)
      /\ \A k \in 1..Len(Backends) + Len(Spares) :
           All[k] = IF k <= Len(Backends) THEN Backends[k] ELSE Spares[k - Len(Backends)]
  <2> HIDE DEF Names
  <2> QED BY <1>1, ConcatProperties DEF All
<1> DEFINE m == Len(Backends)  n == Len(Spares)
<1>3. m \in Nat /\ n \in Nat
  BY <1>1, LenProperties
<1>4. \A k, l \in 1..Len(All) : All[k] = All[l] => k = l
  <2>1. DOMAIN All = 1..Len(All)
    BY <1>2, LenProperties
  <2>2. IsInjective(All)
    BY ServicesAssumption DEF All
  <2> HIDE DEF All
  <2> QED BY <2>1, <2>2 DEF IsInjective
<1>5. \A k \in 1..m : All[k] = Backends[k]
  <2> HIDE DEF m, n
  <2>1. \A k \in 1..m + n : All[k] = IF k <= m THEN Backends[k] ELSE Spares[k - m]
    BY <1>2 DEF m, n
  <2> HIDE DEF All
  <2> QED BY <1>3, <2>1
<1>6. \A k \in 1..n : All[m + k] = Spares[k]
  <2> HIDE DEF m, n
  <2>1. \A k \in 1..m + n : All[k] = IF k <= m THEN Backends[k] ELSE Spares[k - m]
    BY <1>2 DEF m, n
  <2> HIDE DEF All
  <2> TAKE k \in 1..n
  <2>2. m + k \in 1..m + n /\ ~(m + k <= m) /\ (m + k) - m = k
    BY <1>3
  <2> QED BY <2>1, <2>2
<1> QED BY <1>1, <1>2, <1>3, <1>4, <1>5, <1>6

BackendsInv ==
  /\ backends \in Seq(Names)
  /\ Len(backends) \in Len(Backends)..Len(All)
  /\ \A k \in 1..Len(backends) : backends[k] = All[k]

\* Since the choice of the p-th backend the place has moved on by one with each
\* choice, or was taken back to the first behind all there were then.
MovedOn(i, p) ==
  \/ _cur = p + (Len(chosen) - i)
  \/ p + (Len(chosen) - i) >= chosen[i].count + _cur

TurnInv ==
  /\ _cur \in 0..Len(backends)
  /\ chosen \in Seq([of : Names, count : Nat])
  /\ \A i \in 1..Len(chosen) :
       /\ chosen[i].count <= Len(backends)
       /\ \E p \in 1..Len(backends) : chosen[i].of = All[p] /\ MovedOn(i, p)
  /\ \A i, j \in 1..Len(chosen) :
       i < j /\ j - i < chosen[i].count => chosen[i].of # chosen[j].of

LEMMA TurnInit == Init => BackendsInv /\ TurnInv
<1> SUFFICES ASSUME Init PROVE BackendsInv /\ TurnInv
  OBVIOUS
<1>1. backends = Backends /\ _cur = 0 /\ chosen = <<>>
  BY DEF Init
<1>2. BackendsInv
  <2> DEFINE m == Len(Backends)  n == Len(Spares)
  <2>1. m \in Nat /\ n \in Nat /\ Len(All) = m + n
    BY AllIs
  <2>2. Len(Backends) \in Len(Backends)..Len(All)
    <3> HIDE DEF m, n
    <3>1. m \in m..(m + n)
      BY <2>1
    <3> QED BY <2>1, <3>1 DEF m
  <2> QED BY <1>1, <2>2, AllIs DEF BackendsInv
<1>3. TurnInv
  <2>1. Len(chosen) = 0 /\ chosen \in Seq([of : Names, count : Nat])
    BY <1>1
  <2>2. _cur \in 0..Len(backends)
    BY <1>1, AllIs
  <2> QED BY <2>1, <2>2 DEF TurnInv
<1> QED BY <1>2, <1>3

\* The place moves to the backend that is chosen, and none of those of the last
\* round was the same.
LEMMA PickTakesTurn ==
  ASSUME BackendsInv, TurnInv, NEW g \in Fibers, Pick(g), backends # <<>>,
         backends' = backends
  PROVE  TurnInv'
<1>0. PICK n \in Nat : Len(chosen) = n
  BY LenProperties DEF TurnInv
<1> USE <1>0
<1> DEFINE b == Len(backends)  T == [of : Names, count : Nat]
<1>1. /\ b \in Nat \ {0} /\ n \in Nat /\ _cur \in 0..b /\ chosen \in Seq(T)
      /\ b <= Len(All) /\ \A k \in 1..b : backends[k] = All[k] /\ All[k] \in Names
  <2>1. b \in Nat \ {0} /\ n \in Nat /\ _cur \in 0..b /\ chosen \in Seq(T)
    BY EmptySeq, LenProperties DEF BackendsInv, TurnInv
  <2>2. b <= Len(All)
    BY AllIs DEF BackendsInv
  <2>3. \A k \in 1..b : backends[k] = All[k] /\ All[k] \in Names
    BY ElementOfSeq DEF BackendsInv
  <2> QED BY <2>1, <2>2, <2>3
<1>2. PICK q \in 1..b : _cur' = q /\ (q = _cur + 1 \/ (q = 1 /\ _cur >= b))
  BY <1>1 DEF Pick
<1> DEFINE c == [of |-> All[q], count |-> b]
<1>3. chosen' = Append(chosen, c) /\ c \in T
  <2>1. chosen' = Append(chosen, [of |-> backends[q], count |-> b])
    <3>1. q = (IF _cur >= b THEN 0 ELSE _cur) + 1
      BY <1>2 DEF Pick
    <3> QED BY <3>1 DEF Pick
  <2>2. backends[q] = All[q] /\ All[q] \in Names
    BY <1>1, <1>2
  <2> QED BY <1>1, <2>1, <2>2
<1>4. /\ chosen' \in Seq(T) /\ Len(chosen') = n + 1 /\ chosen'[n + 1] = c
      /\ \A i \in 1..n : chosen'[i] = chosen[i]
  <2> HIDE DEF c, T
  <2> QED BY <1>1, <1>3, AppendProperties
<1>5. c.of = All[q] /\ c.count = b
  OBVIOUS
<1> HIDE DEF c, T
<1>6. ASSUME NEW i \in 1..n
      PROVE  /\ chosen'[i].count <= b /\ chosen'[i].count \in Nat
             /\ \E p \in 1..b : chosen'[i].of = All[p] /\ MovedOn(i, p)'
  <2>1. PICK p \in 1..b : chosen[i].of = All[p] /\ MovedOn(i, p)
    BY DEF TurnInv
  <2>2. chosen[i].count <= b /\ chosen[i].count \in Nat /\ chosen'[i] = chosen[i]
    <3>1. chosen[i] \in T
      BY <1>1, ElementOfSeq
    <3> QED BY <1>4, <3>1 DEF TurnInv, T
  <2> DEFINE k == chosen[i].count
  <2>3. _cur = p + (n - i) \/ p + (n - i) >= k + _cur
    BY <2>1 DEF MovedOn
  <2>4. q = p + ((n + 1) - i) \/ p + ((n + 1) - i) >= k + q
    <3>1. k \in Nat /\ k <= b
      BY <2>2
    <3> HIDE DEF k, b
    <3> QED BY <1>1, <1>2, <2>3, <3>1
  <2>5. MovedOn(i, p)'
    BY <1>2, <1>4, <2>2, <2>4 DEF MovedOn
  <2> QED BY <2>1, <2>2, <2>5
<1>7. chosen'[n + 1].count <= b /\ MovedOn(n + 1, q)' /\ chosen'[n + 1].of = All[q]
  <2>1. chosen'[n + 1].count = b /\ chosen'[n + 1].of = All[q]
    BY <1>4, <1>5
  <2>2. _cur' = q + (Len(chosen') - (n + 1)) /\ b <= b
    <3>1. q + ((n + 1) - (n + 1)) = q /\ b <= b
      <4> HIDE DEF b
      <4> QED BY <1>1, <1>2
    <3> QED BY <1>2, <1>4, <3>1
  <2>3. MovedOn(n + 1, q)'
    BY <2>2 DEF MovedOn
  <2> QED BY <2>1, <2>2, <2>3
<1>8. ASSUME NEW i \in 1..n, (n + 1) - i < chosen'[i].count
      PROVE  chosen'[i].of # chosen'[n + 1].of
  <2>1. PICK p \in 1..b : chosen'[i].of = All[p] /\ MovedOn(i, p)'
    BY <1>6
  <2> DEFINE k == chosen'[i].count
  <2>2. q = p + ((n + 1) - i) \/ p + ((n + 1) - i) >= k + q
    BY <1>2, <1>4, <2>1 DEF MovedOn
  <2>3. k \in Nat /\ (n + 1) - i < k
    BY <1>6, <1>8
  <2>4. p # q
    <3> HIDE DEF k, b
    <3> QED BY <1>1, <1>2, <2>2, <2>3
  <2>5. p \in 1..Len(All) /\ q \in 1..Len(All)
    BY <1>1, <1>2
  <2>6. All[p] # All[q]
    BY <2>4, <2>5, AllIs
  <2> QED BY <1>7, <2>1, <2>6
<1>9. ASSUME NEW i \in 1..(n + 1), NEW j \in 1..(n + 1), i < j, j - i < chosen'[i].count
      PROVE  chosen'[i].of # chosen'[j].of
  <2>1. i \in 1..n /\ (j \in 1..n \/ j = n + 1)
    BY SMTT(30), <1>1, <1>9
  <2>2. CASE j \in 1..n
    <3>1. chosen'[i] = chosen[i] /\ chosen'[j] = chosen[j]
      BY <1>4, <2>1, <2>2
    <3>2. j - i < chosen[i].count
      BY <1>9, <3>1
    <3>3. chosen[i].of # chosen[j].of
      BY <1>9, <2>1, <2>2, <3>2 DEF TurnInv
    <3> QED BY <3>1, <3>3
  <2>3. CASE j = n + 1
    BY <1>8, <1>9, <2>1, <2>3
  <2> QED BY <2>1, <2>2, <2>3
<1>10. ASSUME NEW i \in 1..(n + 1)
       PROVE  /\ chosen'[i].count <= b
              /\ \E p \in 1..b : chosen'[i].of = All[p] /\ MovedOn(i, p)'
  <2>1. CASE i \in 1..n
    BY <1>6, <2>1
  <2>2. CASE i = n + 1
    BY <1>2, <1>7, <2>2
  <2>3. i \in 1..n \/ i = n + 1
    OBVIOUS
  <2> QED BY <2>1, <2>2, <2>3
<1>11. _cur' \in 0..b
  BY <1>1, <1>2
<1> QED BY <1>4, <1>9, <1>10, <1>11 DEF TurnInv, T

\* A backend that is appended changes nothing for those that were chosen.
LEMMA AppendTakesTurn ==
  ASSUME BackendsInv, TurnInv, AppendBackend
  PROVE  BackendsInv' /\ TurnInv'
<1> DEFINE b == Len(backends)  m == Len(Backends)  s == Len(Spares)
           e == Spares[b - m + 1]
<1>1. backends' = Append(backends, e) /\ b < m + s /\ _cur' = _cur /\ chosen' = chosen
  BY DEF AppendBackend
<1>2. b \in Nat /\ m \in Nat /\ s \in Nat /\ m <= b /\ Len(All) = m + s
  BY AllIs, LenProperties DEF BackendsInv
<1>3. e = All[b + 1] /\ e \in Names
  <2> DEFINE k == b - m + 1
  <2>1. k \in 1..s /\ m + k = b + 1 /\ b + 1 \in 1..(m + s)
    <3> HIDE DEF b, m, s
    <3> QED BY <1>1, <1>2
  <2>2. All[m + k] = Spares[k]
    BY <2>1, AllIs
  <2>3. All[b + 1] \in Names
    BY <1>2, <2>1, AllIs, ElementOfSeq
  <2> QED BY <2>1, <2>2, <2>3
<1> HIDE DEF e
<1>4. /\ backends' \in Seq(Names) /\ Len(backends') = b + 1 /\ backends'[b + 1] = e
      /\ \A k \in 1..b : backends'[k] = backends[k]
  <2>1. backends \in Seq(Names)
    BY DEF BackendsInv
  <2> HIDE DEF Names
  <2> QED BY <1>1, <1>3, <2>1, AppendProperties
<1>5. BackendsInv'
  <2>1. b + 1 \in m..(m + s) /\ \A k \in 1..(b + 1) : k \in 1..b \/ k = b + 1
    <3> HIDE DEF b, m, s
    <3> QED BY <1>1, <1>2
  <2>2. \A k \in 1..b : backends[k] = All[k]
    BY DEF BackendsInv
  <2>3. All' = All /\ Names' = Names
    BY DEF All, Names
  <2> QED BY <1>2, <1>3, <1>4, <2>1, <2>2 DEF BackendsInv
<1>6. TurnInv'
  <2>1. _cur' \in 0..(b + 1)
    BY <1>1, <1>2 DEF TurnInv
  <2>2. ASSUME NEW i \in 1..Len(chosen)
        PROVE  /\ chosen[i].count <= b + 1
               /\ \E p \in 1..(b + 1) : chosen[i].of = All[p] /\ MovedOn(i, p)
    <3>1. PICK p \in 1..b : chosen[i].of = All[p] /\ MovedOn(i, p)
      BY DEF TurnInv
    <3>2. chosen[i].count <= b /\ chosen[i].count \in Nat
      <4>1. chosen[i] \in [of : Names, count : Nat]
        BY ElementOfSeq DEF TurnInv
      <4> QED BY <4>1 DEF TurnInv
    <3>3. p \in 1..(b + 1) /\ chosen[i].count <= b + 1
      <4> DEFINE k == chosen[i].count
      <4>1. k <= b /\ k \in Nat
        BY <3>2
      <4> HIDE DEF b, k
      <4>2. p \in 1..(b + 1) /\ k <= b + 1
        BY <1>2, <4>1
      <4> QED BY <4>2 DEF k
    <3> QED BY <3>1, <3>3
  <2>3. \A i, p : MovedOn(i, p)' = MovedOn(i, p)
    BY <1>1 DEF MovedOn
  <2> QED BY <1>1, <1>4, <2>1, <2>2, <2>3 DEF TurnInv
<1> QED BY <1>5, <1>6

LEMMA TurnStep == BackendsInv /\ TurnInv /\ [Next]_vars => BackendsInv' /\ TurnInv'
<1> SUFFICES ASSUME BackendsInv, TurnInv, [Next]_vars PROVE BackendsInv' /\ TurnInv'
  OBVIOUS
<1>1. ASSUME backends' = backends, _cur' = _cur, chosen' = chosen
      PROVE  BackendsInv' /\ TurnInv'
  BY <1>1 DEF BackendsInv, TurnInv, MovedOn, All, Names
<1>2. ASSUME NEW g \in Fibers, Pick(g), backends # <<>>, backends' = backends
      PROVE  BackendsInv' /\ TurnInv'
  <2>1. BackendsInv'
    BY <1>2 DEF BackendsInv, All, Names
  <2> QED BY <1>2, <2>1, PickTakesTurn
<1>3. CASE AppendBackend
  BY <1>3, AppendTakesTurn
<1>4. CASE UNCHANGED vars
  BY <1>1, <1>4 DEF vars
<1>5. ASSUME NEW g \in Fibers,
             \/ NextRequest(g) \/ Done(g) \/ ServeChain(g) \/ ServeRoute(g)
             \/ ServeLogger(g) \/ ServeTlsFilter(g) \/ ServeWebSocket(g)
      PROVE  BackendsInv' /\ TurnInv'
  <2>1. backends' = backends /\ _cur' = _cur /\ chosen' = chosen
    BY <1>5 DEF NextRequest, Done, Becomes, ServeChain, ServeRoute, ServeLogger,
       ServeTlsFilter, ServeWebSocket, Unmoved, Shared
  <2> QED BY <1>1, <2>1
<1>6. ASSUME NEW g \in Fibers,
             \/ ServePage(g) \/ FinishPage(g) \/ Connected(g) \/ ConnectFails(g)
      PROVE  BackendsInv' /\ TurnInv'
  <2>1. backends' = backends /\ _cur' = _cur /\ chosen' = chosen
    BY <1>6 DEF ServePage, FinishPage, Connected, ConnectFails, Unmoved, Shared
  <2> QED BY <1>1, <2>1
<1>7. ASSUME NEW g \in Fibers, ServeFiles(g) PROVE BackendsInv' /\ TurnInv'
  <2>1. backends' = backends /\ _cur' = _cur /\ chosen' = chosen
    BY <1>7 DEF ServeFiles, Becomes, Unmoved, Shared
  <2> QED BY <1>1, <2>1
<1>8. ASSUME NEW g \in Fibers, ServeProxy(g) PROVE BackendsInv' /\ TurnInv'
  <2>1. \/ Pick(g) /\ backends # <<>> /\ backends' = backends
        \/ backends' = backends /\ _cur' = _cur /\ chosen' = chosen
    BY <1>8 DEF ServeProxy, Becomes, Unmoved, Shared
  <2> QED BY <1>1, <1>2, <2>1
<1> QED BY <1>3, <1>4, <1>5, <1>6, <1>7, <1>8 DEF Next

\* The round robin of proxy_pass_service, for any number of backends and of
\* connections that wait for one.
THEOREM BackendsTakeTurns == Spec => []RoundRobin
<1>1. TurnInv => RoundRobin
  <2> SUFFICES ASSUME TurnInv PROVE RoundRobin
    OBVIOUS
  <2>1. DOMAIN chosen = 1..Len(chosen)
    BY LenProperties DEF TurnInv
  <2> QED BY <2>1 DEF TurnInv, RoundRobin
<1> QED BY <1>1, TurnInit, TurnStep, PTL DEF Spec
=============================================================================

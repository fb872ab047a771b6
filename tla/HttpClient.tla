----------------------------- MODULE HttpClient -----------------------------
(***************************************************************************)
(* class http_client of src/src/httpcore/xyhttp.cpp: one fiber sends       *)
(* requests over one connection and reads their responses, from a server   *)
(* that answers in order but as late as it likes.                          *)
(*                                                                         *)
(* What the server sends are items: a head, which announces so many pieces *)
(* of body (-1: until the connection ends), and the pieces.  How items are *)
(* cut out of the stream is module HttpMessages.                           *)
(***************************************************************************)
EXTENDS Integers, Sequences, SequencesExt

CONSTANT MaxRequests   \* bound on the requests sent

ASSUME ClientAssumption == MaxRequests \in Nat

VARIABLES
  phase,      \* "idle", or waiting in send() ("head") or in read() ("body")
  _reusable,
  rest,       \* the pieces _tsfr_decoder still expects; 0 if it is null
  asked,      \* the requests sent
  received,   \* the requests that reached the server
  answering,  \* the request it answers, and what it has still to send
  items,      \* what is on its way
  taken,      \* the items taken, each with the request asked last
  ended       \* the connection has ended, as far as the client has seen

clientVars == <<phase, _reusable, rest, asked, taken>>
serverVars == <<received, answering, items>>
httpVars == <<clientVars, serverVars, ended>>

ClientInit ==
  /\ phase = "idle" /\ _reusable = TRUE /\ rest = 0 /\ asked = 0
  /\ received = 0 /\ answering = [req |-> 0, pieces |-> 0] /\ items = <<>>
  /\ taken = <<>> /\ ended = FALSE

-----------------------------------------------------------------------------
(* The client.                                                             *)

\* Mutant of data_available: a response that is pending is not noticed.
data_availableNever == FALSE

data_available == rest # 0

\* Mutant of GiveUp: the catch block only throws on.
GiveUpReusable == UNCHANGED _reusable

\* The catch block of send().
GiveUp == _reusable' = FALSE

\* send() up to its wait for the response.
Send ==
  /\ phase = "idle" /\ asked < MaxRequests
  /\ ~data_available /\ _reusable
  /\ asked' = asked + 1
  /\ \/ /\ phase' = "head" /\ received' = asked + 1
        /\ UNCHANGED _reusable
     \/ /\ GiveUp   \* the write fails, whether or not it got through
        /\ received' \in {received, asked + 1}
        /\ UNCHANGED phase
  /\ UNCHANGED <<rest, answering, items, taken, ended>>

Take(item) == taken' = Append(taken, [by |-> asked, item |-> item])

\* The rest of send().  What is no head is malformed.
GetHead ==
  /\ phase = "head" /\ items # <<>>
  /\ phase' = "idle"
  /\ LET h == Head(items) IN
     IF h.kind = "head"
     THEN /\ Take(h) /\ items' = Tail(items)
          /\ rest' = h.announced
          /\ _reusable' = (_reusable /\ h.keep)
     ELSE GiveUp /\ UNCHANGED <<rest, items, taken>>
  /\ UNCHANGED <<asked, received, answering, ended>>

\* A timeout, or the end of the connection.
LoseHead ==
  /\ phase = "head" /\ phase' = "idle"
  /\ GiveUp
  /\ ended' \in {ended, TRUE}
  /\ UNCHANGED <<rest, asked, serverVars, taken>>

Read ==
  /\ phase = "idle" /\ data_available
  /\ phase' = "body"
  /\ UNCHANGED <<_reusable, rest, asked, serverVars, taken, ended>>

Remaining == IF rest = -1 THEN -1 ELSE rest - 1

\* The rest of read(): a body takes whatever comes.
GetBody ==
  /\ phase = "body" /\ items # <<>>
  /\ phase' = "idle"
  /\ Take(Head(items)) /\ items' = Tail(items)
  /\ rest' = Remaining
  /\ UNCHANGED <<_reusable, asked, received, answering, ended>>

\* A timeout, or the end of the connection: read() throws, and may be called
\* again.
LoseBody ==
  /\ phase = "body" /\ phase' = "idle"
  /\ ended' \in {ended, TRUE}
  /\ UNCHANGED <<_reusable, rest, asked, serverVars, taken>>

-----------------------------------------------------------------------------
(* The server.                                                             *)

\* It answers the next request: `announced' pieces, of which none may come
\* (the answer to a HEAD request, or a status without a body).  An interim
\* response comes first or not, and says nothing of the connection.
Answer(announced, pieces, keep, interim) ==
  /\ ~ended /\ answering.pieces = 0 /\ answering.req < received
  /\ pieces = announced \/ pieces = 0 \/ (announced = -1 /\ ~keep)
  /\ LET head(n, k) == [kind |-> "head", req |-> answering.req + 1,
                        announced |-> n, keep |-> k]
         h == head(announced, keep)
     IN /\ answering' = [req |-> answering.req + 1, pieces |-> pieces]
        /\ items' = IF interim THEN Append(Append(items, head(-1, FALSE)), h)
                  ELSE Append(items, h)
  /\ UNCHANGED <<clientVars, received, ended>>

SendPiece ==
  /\ ~ended /\ answering.pieces > 0
  /\ answering' = [answering EXCEPT !.pieces = @ - 1]
  /\ items' = Append(items, [kind |-> "piece", req |-> answering.req])
  /\ UNCHANGED <<clientVars, received, ended>>

ClientNext ==
  \/ Send \/ GetHead \/ LoseHead \/ Read \/ GetBody \/ LoseBody
  \/ \E announced \in -1..2, pieces \in 0..2, keep, interim \in BOOLEAN :
       Answer(announced, pieces, keep, interim)
  \/ SendPiece

ClientSpec == ClientInit /\ [][ClientNext]_httpVars

-----------------------------------------------------------------------------
(* Properties.                                                             *)

\* Every response, and every piece of a body, was sent for the request for
\* which it is taken: no late answer to a request that was given up becomes
\* the answer to the next one.
OwnResponse ==
  \A i \in 1..Len(taken) : taken[i].item.req = taken[i].by

\* A client that would send another request has nothing outstanding: all its
\* requests were answered, and nothing of the answers is left.
NothingOutstanding ==
  phase = "idle" /\ _reusable /\ ~data_available =>
    /\ items = <<>> /\ answering.pieces = 0
    /\ answering.req = asked
=============================================================================

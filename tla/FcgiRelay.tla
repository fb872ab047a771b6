------------------------------ MODULE FcgiRelay ------------------------------
(***************************************************************************)
(* fcgi_connection (src/src/httpcore/xyfcgi.cpp) and the method that uses  *)
(* it, http_transaction::forward_to of a FastCGI connection, record by     *)
(* record: the serving fiber on one side, the application on the other and *)
(* a stream between them that may break at any step.  What the fiber does  *)
(* to its client is module HttpTransaction, whose forward_to_fcgi covers   *)
(* all of this in one step.                                                *)
(*                                                                         *)
(* The application reads its records in order.  It answers when it has the *)
(* parameters and as much of the body as CONTENT_LENGTH says, since the    *)
(* code never sends the empty STDIN record that would end the body.        *)
(***************************************************************************)
EXTENDS HttpTransaction, Sequences, SequencesExt

CONSTANTS Piece,     \* 0xFF00, in units: the most that one STDIN record takes
          MaxPost,   \* bound on the body of the request
          MaxOut     \* bound on the units of STDOUT

ASSUME RelayAssumption ==
  Piece \in Nat \ {0} /\ MaxPost \in Nat /\ MaxOut \in Nat /\ MaxOut <= MaxFile

VARIABLES
  at,        \* the fiber: "connect", "write", "end", "read" or "done"
  post,      \* the length of postdata
  base,      \* how much of it has been written
  _env_sent,
  head,      \* the response head: "open" while it is not decoded, or its code
  buffered,  \* the units of responseBuffer while the head is open
  tx,        \* the transaction
  method,    \* the transaction when forward_to was called
  toApp,     \* the records written for the application: [type, n]
  fromApp,   \* the records of the application that are not read yet
  out,       \* the units of STDOUT it has sent
  app        \* "runs", "ended" after END_REQUEST, or "gone"

fiberVars == <<post, base, _env_sent, head, buffered, tx, method>>
appVars == <<toApp, fromApp, out, app>>
vars == <<at, fiberVars, appVars>>

\* The units of STDOUT that a response head takes.
HeadUnits == 2

Record(type, n) == [type |-> type, n |-> n]

Init ==
  /\ at = "connect"
  /\ post \in 0..MaxPost /\ base = 0 /\ _env_sent = FALSE
  /\ head = "open" /\ buffered = 0
  /\ \E m \in Methods, noGzip \in BOOLEAN : tx = New(m, noGzip, TRUE)
  /\ method = tx
  /\ toApp = <<>> /\ fromApp = <<>> /\ out = 0 /\ app = "runs"

-----------------------------------------------------------------------------
(* The fiber.                                                              *)

\* The method is over, in one of the states S.
Finish(S) == at' = "done" /\ tx' \in S

\* stream::write of a record to the application, and where the fiber goes on.
\* A failure is what "Fail" makes of it.
WriteRecord(r, next, Fail) ==
  /\ \/ /\ app # "gone"
        /\ toApp' = Append(toApp, r) /\ at' = next /\ UNCHANGED tx
     \/ Fail /\ UNCHANGED toApp
  /\ UNCHANGED <<fromApp, out, app>>

\* get_connection connects and sends BEGIN_REQUEST; local_file_service
\* answers 502 when it throws.
Connect ==
  /\ at = "connect"
  /\ WriteRecord(Record("BEGIN", 8), IF post > 0 THEN "write" ELSE "read",
                 Finish(display_error(tx, 502)))
  /\ UNCHANGED <<post, base, _env_sent, head, buffered, method>>

\* flush_env, before the first write or read: two records, and _env_sent only
\* after both.
flush_env ==
  /\ at \in {"write", "read"} /\ ~_env_sent
  /\ WriteRecord(Record("PARAMS", 1), "end", Finish(Throw(tx, "io")))
  /\ UNCHANGED <<post, base, _env_sent, head, buffered, method>>

EndParams ==
  /\ at = "end"
  /\ WriteRecord(Record("PARAMS", 0), IF base < post THEN "write" ELSE "read",
                 Finish(Throw(tx, "io")))
  /\ _env_sent' = TRUE
  /\ UNCHANGED <<post, base, head, buffered, method>>

\* The next STDIN record takes the rest of the body, or as much as it can.
txsize == IF post - base < Piece THEN post - base ELSE Piece

\* Mutant of Advance: the pieces overlap.
AdvanceShort == base' = base + (IF txsize > 1 THEN txsize - 1 ELSE 1)

Advance == base' = base + txsize

WriteBody ==
  /\ at = "write" /\ _env_sent
  /\ WriteRecord(Record("STDIN", txsize),
                 IF base + txsize < post THEN "write" ELSE "read",
                 Finish(Throw(tx, "io")))
  /\ Advance
  /\ UNCHANGED <<post, _env_sent, head, buffered, method>>

\* The fiber is waiting for a record, and there is one of that type.
Reading == at = "read" /\ _env_sent
Takes(type) ==
  /\ Reading /\ fromApp # <<>> /\ fromApp[1].type = type
  /\ fromApp' = Tail(fromApp)
  /\ UNCHANGED <<post, base, _env_sent, method, toApp, out, app>>

\* After the method has written to the client, an exception ends it.
GoOn(t) == tx' = t /\ at' = IF t.exc = "no" THEN "read" ELSE "done"

\* The code of the head: one of a response without a body if there is none.
CodesFor == IF out = HeadUnits THEN UpstreamCodes \cup NoBody ELSE UpstreamCodes

\* STDOUT while the head is open: it is collected, and a new decoder looks at
\* all of it.  What follows the head is written to the client.
TakeHead ==
  /\ Takes("STDOUT") /\ head = "open"
  /\ LET n == buffered + fromApp[1].n IN
     \/ n < HeadUnits /\ buffered' = n /\ UNCHANGED <<at, head, tx>>
     \/ /\ n >= HeadUnits /\ buffered' = 0
        /\ \E code \in CodesFor :
             /\ head' = "known"
             /\ \E t \in write([tx EXCEPT !.code = code], n - HeadUnits) : GoOn(t)
     \/ n >= HeadUnits /\ Finish(Throw(tx, "rt")) /\ UNCHANGED <<head, buffered>>

\* STDOUT after the head; empty records are no end.
TakeBody ==
  /\ Takes("STDOUT") /\ head = "known"
  /\ \E t \in write(tx, fromApp[1].n) : GoOn(t)
  /\ UNCHANGED <<head, buffered>>

\* STDERR goes to the log.
TakeError == Takes("STDERR") /\ UNCHANGED <<at, head, buffered, tx>>

\* END_REQUEST is null to the caller: the end of the body, or no response.
TakeEnd ==
  /\ Takes("END")
  /\ Finish(IF head = "open" THEN display_error(tx, 502) ELSE finish(tx))
  /\ UNCHANGED <<head, buffered>>

\* Any other type of record.
TakeOther ==
  /\ Takes("OTHER")
  /\ Finish(Throw(tx, "rt"))
  /\ UNCHANGED <<head, buffered>>

\* Mutant of ReadFails: an early end of file ends the body, as it does in
\* forward_to of a stream.
ReadFailsQuietly ==
  /\ Reading /\ fromApp = <<>>
  /\ Finish(IF head = "open" THEN Throw(tx, "io") ELSE finish(tx))
  /\ UNCHANGED <<post, base, _env_sent, head, buffered, method, appVars>>

\* End of file, an error or the timeout of stream::read.
ReadFails ==
  /\ Reading /\ fromApp = <<>>
  /\ Finish(Throw(tx, "io"))
  /\ UNCHANGED <<post, base, _env_sent, head, buffered, method, appVars>>

-----------------------------------------------------------------------------
(* The application (external).                                             *)

Units(type) ==
  LET n[i \in 0..Len(toApp)] ==
        IF i = 0 THEN 0
        ELSE n[i-1] + IF toApp[i].type = type THEN toApp[i].n ELSE 0
  IN n[Len(toApp)]

\* It has been given all that CONTENT_LENGTH announces.
HasRequest == Contains(toApp, Record("PARAMS", 0)) /\ Units("STDIN") >= post

AppSends ==
  /\ app = "runs" /\ Contains(toApp, Record("BEGIN", 8))
  /\ Len(fromApp) < 2
  /\ \/ \E n \in 0..2 : /\ HasRequest /\ out + n <= MaxOut
                        /\ tx.code \in NoBody => n = 0
                        /\ out' = out + n /\ UNCHANGED app
                        /\ fromApp' = Append(fromApp, Record("STDOUT", n))
     \/ /\ fromApp = <<>>
        /\ fromApp' = <<Record("STDERR", 1)>> /\ UNCHANGED <<out, app>>
     \/ /\ \E type \in {"END", "OTHER"} : fromApp' = Append(fromApp, Record(type, 0))
        /\ app' = "ended" /\ UNCHANGED out
  /\ UNCHANGED <<at, fiberVars, toApp>>

\* It goes away, and what was under way may get lost.
AppDies ==
  /\ app # "gone" /\ app' = "gone"
  /\ \E k \in 0..Len(fromApp) : fromApp' = SubSeq(fromApp, 1, k)
  /\ UNCHANGED <<at, fiberVars, toApp, out>>

-----------------------------------------------------------------------------
Relaying ==
  \/ Connect \/ flush_env \/ EndParams \/ WriteBody
  \/ TakeHead \/ TakeBody \/ TakeError \/ TakeEnd \/ TakeOther \/ ReadFails

Next == Relaying \/ AppSends \/ AppDies

Spec == Init /\ [][Next]_vars

-----------------------------------------------------------------------------
(* Properties.                                                             *)

\* What the application is to be sent for the request.
PieceAt(i) == IF i * Piece <= post THEN Piece ELSE post - (i - 1) * Piece
Request ==
  <<Record("BEGIN", 8), Record("PARAMS", 1), Record("PARAMS", 0)>>
    \o [i \in 1..((post + Piece - 1) \div Piece) |-> Record("STDIN", PieceAt(i))]

\* The application is sent BEGIN, the parameters, their end and the body, in
\* that order and each byte once; the fiber waits for its answer only when it
\* has been sent all of it, so that neither waits for the other, and the client
\* gets nothing before the head of the answer is complete.
RequestInOrder ==
  /\ IsPrefix(toApp, Request)
  /\ Reading => toApp = Request
  /\ head = "open" /\ at # "done" => tx = method

\* A response that ends as it should is all of what the application sent, in
\* spite of errors logged, empty records and a head in several records; what
\* is cut off is not passed off as complete.
NothingCut ==
  at = "done" /\ tx.finished /\ tx.wire.headers = 1 /\ tx.wire.code = 200
    /\ ~tx.gzip /\ tx.mode # "HEADONLY" =>
      app # "runs" /\ tx.wire.body = out - HeadUnits

\* The method in one step, forward_to_fcgi of module HttpTransaction, covers
\* every way in which its steps can go.
MethodCovers == at = "done" => tx \in forward_to_fcgi(method)
=============================================================================

--------------------------- MODULE MCHttpMessages ---------------------------
(* Up to two messages of each form: with and without headers, with lines   *)
(* that end in CR LF or in LF alone, with a body of every framing, and with *)
(* one character of the head replaced.  MaxSize lies between the lengths of *)
(* one message and of two.                                                 *)
EXTENDS HttpMessages

CONSTANT MaxWidth  \* the digits of a chunk size

CRLF == <<CR, LF>>
Value == <<"A", ":", SP, ".">>
HeaderLists ==
  {<<>>, <<<<<<"a", "1">>, Value>>>>,
   <<<<<<"a">>, Value>>, <<<<"A", "0">>, <<"?">>>>>>}

\* A head followed by a body that is announced by a length, or sent in chunks.
With(head, bad, length, data) ==
  head @@ [bad |-> bad, te |-> FALSE, length |-> length, chunks |-> <<>>,
           body |-> data, wire |-> data]

InChunks(head, length, cs) ==
  head @@ [bad |-> FALSE, te |-> TRUE, length |-> length, chunks |-> cs,
           body |-> Data(cs), wire |-> Chunks(cs)]

NoBody(head) == With(head, FALSE, 0, <<>>)

\* A chunk of at most two characters, its size written with `width' digits.
Piece(data, width) ==
  LET last == CASE Len(data) = 0 -> "0" [] Len(data) = 1 -> "1" [] OTHER -> "2" IN
  [size |-> [i \in 1..width |-> IF i = width THEN last ELSE "0"], data |-> data]

Text == <<"A", SP>>
Pieces(width) == <<Piece(Text, width), Piece(<<"1">>, 1), Piece(<<>>, width)>>

RequestHeads ==
  {RequestMessage(<<"A", "A">>, <<"?", "a">>, hs, eol) :
     hs \in HeaderLists, eol \in {CRLF, <<LF>>}}

ResponseHeads ==
  {ResponseMessage(<<"2", "0", "0">>, hs, eol) :
     hs \in HeaderLists, eol \in {CRLF, <<LF>>}}
  \cup {CgiMessage(hs, CRLF) : hs \in HeaderLists \ {<<>>}}

\* Heads without headers, to put bodies behind.
BareRequest == RequestMessage(<<"A">>, <<"?">>, <<>>, CRLF)
BareResponse == ResponseMessage(<<"2">>, <<>>, CRLF)

\* Heads with one character replaced by one that may not stand there (right
\* after the colon of a header anything may), with a method that is too long,
\* and with a name that is.
Malformed ==
  LET h == RequestMessage(<<"A">>, <<"?">>, <<<<<<"a">>, <<"?", "A">>>>>>, CRLF) IN
  {With([h EXCEPT !.chars[i] = "ctl"], TRUE, -1, <<>>) :
     i \in DOMAIN h.chars \ {12, 13}}
  \cup {With(RequestMessage(<<"A", "A", "A">>, <<"?">>, <<>>, CRLF), TRUE,
             -1, <<>>),
        With(RequestMessage(<<"A">>, <<"?">>, <<<<<<"a", "a", "a">>, <<"?">>>>>>, CRLF),
             TRUE, -1, <<>>)}

MCRequests ==
  Malformed \cup {NoBody(h) : h \in RequestHeads}
    \cup {With(BareRequest, FALSE, 2, Text)}

MCResponses ==
  {NoBody(h) : h \in ResponseHeads}
  \cup {With(BareResponse, FALSE, l, Text) : l \in {-1, 2}}
  \cup {InChunks(BareResponse, l, Pieces(w)) : l \in {-1, 1}, w \in {1, MaxWidth}}
=============================================================================

------------------------------ MODULE HttpHead ------------------------------
(***************************************************************************)
(* http_request::decoder::decode, http_response::decoder::decode and the   *)
(* serializers they undo (src/src/httpcore/xyhttp.cpp), as functions on    *)
(* sequences of characters.                                                *)
(*                                                                         *)
(* A character is one of each kind the automata tell apart: "A" and "a"    *)
(* stand for letters, "?" for other printable characters, "ctl" for the    *)
(* control characters but CR and LF, and the name "HTTP/1", which is       *)
(* compared as a whole, is one character.  The letter case of header names *)
(* is left out.                                                            *)
(***************************************************************************)
EXTENDS Naturals, Sequences, SequencesExt

CONSTANTS MaxVerb,  \* the longest method, 20 in the code
          MaxKey,   \* the longest header name less one, 30
          MaxSize   \* the largest buffer a decoder looks at, 0x10000

ASSUME HeadAssumption == MaxVerb \in Nat /\ MaxKey \in Nat /\ MaxSize \in Nat

SP == " "
CR == "\r"
LF == "\n"
Digits == {"0", "1", "2"}
KeyChars == {"A", "a"} \cup Digits
Printable == KeyChars \cup {"?", ".", SP, ":", "HTTP/1"}
Chars == Printable \cup {CR, LF, "ctl"}

-----------------------------------------------------------------------------
(* The automata: the next state for each state and character, "bad" where   *)
(* the character is malformed.                                             *)

\* The states 4, 5, 6, 100 and 101, in which both automata end.  The first
\* character after the spaces is not looked at.
Headers ==
  [key   |-> [c \in Chars |-> CASE c \in KeyChars -> "key" [] c = ":" -> "skip"
                               [] c = CR -> "last" [] c = LF -> "done"
                               [] OTHER -> "bad"],
   skip  |-> [c \in Chars |-> IF c = SP THEN "skip" ELSE "value"],
   value |-> [c \in Chars |-> CASE c \in Printable -> "value" [] c = CR -> "eol"
                               [] c = LF -> "key" [] OTHER -> "bad"],
   eol   |-> [c \in Chars |-> IF c = LF THEN "key" ELSE "bad"],
   last  |-> [c \in Chars |-> IF c = LF THEN "done" ELSE "bad"]]

\* http_request::decoder, states 0 to 3.
Request ==
  [method   |-> [c \in Chars |-> CASE c = "A" -> "method" [] c = SP -> "resource"
                                  [] OTHER -> "bad"],
   resource |-> [c \in Chars |-> CASE c = SP -> "version"
                                  [] c \in Printable \ {SP} -> "resource"
                                  [] OTHER -> "bad"],
   version  |-> [c \in Chars |-> CASE c \in {"A", "HTTP/1", "1"} -> "version"
                                  [] c = "." -> "minor" [] OTHER -> "bad"],
   minor    |-> [c \in Chars |-> CASE c \in {"0", "1"} -> "minor" [] c = CR -> "eol"
                                  [] c = LF -> "key" [] OTHER -> "bad"]]

\* http_response::decoder, states 0 to 3.  A response without a status line,
\* such as a CGI program's, begins with a header.
Response ==
  [first  |-> [c \in Chars |-> CASE c \in KeyChars \cup {"HTTP/1"} -> "first"
                                [] c = "." -> "minor" [] c = ":" -> "skip"
                                [] OTHER -> "bad"],
   minor  |-> [c \in Chars |-> CASE c \in {"0", "1"} -> "minor" [] c = SP -> "code"
                                [] OTHER -> "bad"],
   code   |-> [c \in Chars |-> CASE c \in Digits -> "code" [] c = SP -> "reason"
                                [] OTHER -> "bad"],
   reason |-> [c \in Chars |-> CASE c = CR -> "eol" [] c = LF -> "key"
                                [] OTHER -> "reason"]]

Moves(kind, st) ==
  IF st \in DOMAIN Headers THEN Headers[st]
  ELSE IF kind = "request" THEN Request[st] ELSE Response[st]

Start(kind) == IF kind = "request" THEN "method" ELSE "first"

\* The conditions on what lies between currentBase and the current character.
Fits(r, c) ==
  /\ r.st = "method" /\ c = SP => Len(r.field) <= MaxVerb
  /\ r.st \in {"version", "first"} /\ c = "." => r.field = <<"HTTP/1">>
  /\ r.st = "minor" /\ c \in Digits => r.field = <<>>
  /\ r.st = "key" /\ c \in {CR, LF} => r.field = <<>>
  /\ r.st = "key" /\ c \in KeyChars => Len(r.field) <= MaxKey

\* The transitions that keep what was read: a part of the first line, the name
\* of a header, or its value.
Keeps == {<<"method", "resource">>, <<"resource", "version">>,
          <<"code", "reason">>, <<"first", "skip">>, <<"key", "skip">>,
          <<"value", "key">>, <<"value", "eol">>}

\* One round of the loop: `field' is what was read since currentBase, `out'
\* what was kept, `n' how many characters were read.
Round(kind, r, c) ==
  LET to == Moves(kind, r.st)[c] IN
  IF r.st \in {"done", "bad"} THEN r
  ELSE IF to = "bad" \/ ~Fits(r, c) THEN [r EXCEPT !.st = "bad"]
  ELSE [st |-> to, n |-> r.n + 1,
        field |-> IF to = r.st /\ to # "skip" THEN Append(r.field, c)
                  ELSE IF to = "value" THEN <<c>> ELSE <<>>,
        out |-> IF <<r.st, to>> \in Keeps THEN Append(r.out, r.field) ELSE r.out]

\* The rounds over b, from state r on.
Scan(kind, r, b) ==
  LET state[i \in 0..Len(b)] ==
        IF i = 0 THEN r ELSE Round(kind, state[i - 1], b[i])
  IN state[Len(b)]

Begin(kind) == [st |-> Start(kind), field |-> <<>>, out |-> <<>>, n |-> 0]

\* decode(b) returns true in state "done", having pulled n characters, throws
\* in state "bad", and returns false in any other.
DecodeHead(kind, b) ==
  IF Len(b) > MaxSize THEN [Begin(kind) EXCEPT !.st = "bad"]
  ELSE Scan(kind, Begin(kind), b)

-----------------------------------------------------------------------------
(* Messages, and how they are written.                                     *)

\* One header line; serialize() writes one space and ends lines with CR LF.
Line(key, value, eol) == key \o <<":", SP>> \o value \o eol

\* The parts of a message in the order they are kept, and its characters: the
\* first line, the headers hs (pairs of a name and a value) and an empty line.
\* `line' are the parts that come from the first line.
Message(firstLine, line, hs, eol) ==
  [line |-> line, hs |-> hs, eol |-> eol,
   parts |-> line \o FlattenSeq(hs),
   chars |-> (IF firstLine = <<>> THEN <<>> ELSE firstLine \o eol)
             \o FlattenSeq([i \in DOMAIN hs |-> Line(hs[i][1], hs[i][2], eol)])
             \o eol]

RequestMessage(method, resource, hs, eol) ==
  Message(method \o <<SP>> \o resource \o <<SP, "HTTP/1", ".", "1">>,
          <<method, resource>>, hs, eol)

ResponseMessage(code, hs, eol) ==
  Message(<<"HTTP/1", ".", "1", SP>> \o code \o <<SP, "A">>, <<code>>, hs, eol)

\* What a CGI program sends: headers alone.
CgiMessage(hs, eol) == Message(<<>>, <<>>, hs, eol)

-----------------------------------------------------------------------------
(* Well-formed messages.                                                   *)

\* A header has a name that is not too long, and a value.
IsHeader(h) ==
  /\ Len(h) = 2 /\ h[1] \in Seq(KeyChars) /\ Len(h[1]) <= MaxKey + 1
  /\ h[2] # <<>> /\ Head(h[2]) \in Chars \ {SP} /\ Tail(h[2]) \in Seq(Printable)

HasHeaders(m) ==
  /\ m.hs \in Seq(Seq(Seq(Chars))) /\ \A i \in 1..Len(m.hs) : IsHeader(m.hs[i])
  /\ m.eol \in {<<CR, LF>>, <<LF>>}

IsRequest(m) ==
  /\ HasHeaders(m) /\ Len(m.line) = 2
  /\ m.line[1] \in Seq({"A"}) /\ Len(m.line[1]) <= MaxVerb
  /\ m.line[2] \in Seq(Printable \ {SP})
  /\ LET r == RequestMessage(m.line[1], m.line[2], m.hs, m.eol)
     IN m.parts = r.parts /\ m.chars = r.chars

IsResponse(m) ==
  /\ HasHeaders(m) /\ Len(m.line) = 1
  /\ m.line[1] \in Seq(Digits)
  /\ LET r == ResponseMessage(m.line[1], m.hs, m.eol)
     IN m.parts = r.parts /\ m.chars = r.chars

IsCgi(m) ==
  /\ HasHeaders(m) /\ m.hs # <<>>
  /\ LET r == CgiMessage(m.hs, m.eol) IN m.parts = r.parts /\ m.chars = r.chars

\* Malformed: nothing that follows makes it a head.
IsMalformed(kind, m) == Scan(kind, Begin(kind), m.chars).st = "bad"
=============================================================================

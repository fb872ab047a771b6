------------------------ MODULE HttpConnectionProofs ------------------------
(***************************************************************************)
(* Proofs about module HttpConnection, for any thresholds, any files and   *)
(* upstreams and any number of calls: what a method of http_transaction    *)
(* makes of a transaction, and that the responses on one connection can be *)
(* told apart.                                                             *)
(***************************************************************************)
EXTENDS HttpConnection, WellFoundedInduction, TLAPS

Wires ==
  [headers : {0, 1}, code : Nat,
   framing : {"none", "length", "chunked", "nobody", "upgrade"},
   length : Nat, body : Nat, ended : BOOLEAN, keep : BOOLEAN]

\* An exception is never that of the assertion in start_transfer.
Transactions ==
  [method : Methods, noGzip : BOOLEAN, gzip : BOOLEAN, mode : Modes,
   headerSent : BOOLEAN, finished : BOOLEAN, buffer : Nat,
   code : Codes \cup UpstreamCodes, length : Nat, wire : Wires,
   exc : {"no", "rt", "io", "null"}, threw : BOOLEAN, strm : BOOLEAN,
   alive : BOOLEAN, keep_alive : BOOLEAN, upgraded : BOOLEAN]

\* What the client has received fits what the transaction takes for sent.
Sent(t) ==
  /\ t.headerSent =>
       /\ t.mode # "UNDECIDED" /\ (t.wire.headers = 1 \/ t.mode = "UPGRADE")
       /\ t.mode = "UPGRADE" => t.upgraded
  /\ t.upgraded => t.headerSent
  /\ t.wire.headers = 1 =>
       /\ t.headerSent /\ (t.keep_alive => t.wire.keep)
       /\ t.mode \in {"SIMPLE", "CHUNKED"} => t.wire.code \notin NoBody
       /\ t.mode = "SIMPLE" => t.wire.framing = "length"
       /\ t.mode = "CHUNKED" => t.wire.framing = "chunked"
       /\ t.mode = "HEADONLY" => t.wire.framing = "nobody" /\ t.wire.body = 0
  /\ t.wire.headers = 0 => t.wire.body = 0 /\ ~t.wire.ended

\* The mode was chosen and the header not sent: HEAD, or a failure.
Untold(t) ==
  /\ ~t.headerSent /\ t.alive /\ t.exc # "null" =>
       t.mode = "UNDECIDED" \/ (t.mode = "HEADONLY" /\ t.method = "HEAD")
  /\ t.finished => t.mode # "UNDECIDED"

\* No body is collected for a response that has none, or for one to HEAD.
Bodyless(t) ==
  \/ ~t.headerSent /\ t.code \in NoBody /\ t.exc = "no"
  \/ ~t.headerSent /\ t.mode = "HEADONLY" /\ t.method = "HEAD"
  => t.buffer = 0 /\ ~t.gzip

\* Holds of a transaction at any time, except that more may be collected while
\* the method that does so runs.
Sound(t) ==
  /\ t \in Transactions /\ Sent(t) /\ Untold(t) /\ Bodyless(t)
  /\ t.gzip => ~t.noGzip
  /\ t.exc = "null" => t.code \notin Codes

Bounded(t) == t.alive /\ t.exc # "null" => t.buffer <= ChunkMin

\* A response that is finished is complete.
Final(t) ==
  /\ t.mode # "UNDECIDED"
  /\ t.mode = "CHUNKED" => t.wire.ended
  /\ t.mode = "SIMPLE" => t.wire.body = t.wire.length \/ ~t.keep_alive

-----------------------------------------------------------------------------
(* Sequencing and induction.                                               *)

\* The natural numbers are the least set with 0 and the successors of its
\* members.
LEMMA SetInduction ==
  ASSUME NEW S \in SUBSET Nat, 0 \in S, \A n \in S : n + 1 \in S
  PROVE  S = Nat
<1> DEFINE B == Nat \ S
<1> SUFFICES ASSUME B # {} PROVE FALSE
  OBVIOUS
<1>1. PICK n \in B : \A m \in B : n <= m
  <2> HIDE DEF B
  <2>1. B \subseteq Nat
    BY DEF B
  <2>2. PICK n \in B : \A m \in B : ~(<<m, n>> \in OpToRel(<, Nat))
    BY <2>1, NatLessThanWellFounded, WFMin
  <2>3. \A m \in B : ~(m < n)
    BY <2>1, <2>2 DEF OpToRel
  <2> QED BY <2>1, <2>3
<1>2. n # 0 /\ n - 1 \in Nat /\ n - 1 \in S
  BY <1>1
<1> QED BY <1>1, <1>2

\* A write reaches the client, or breaks the connection.
LEMMA SendIs ==
  ASSUME NEW t, NEW w, NEW u \in Send(t, w)
  PROVE  \/ u = [t EXCEPT !.alive = FALSE, !.exc = "io"]
         \/ t.alive /\ u = [t EXCEPT !.wire = w]
BY DEF Send, Throw

LEMMA SendBodyIs ==
  ASSUME NEW t, NEW n, NEW u \in SendBody(t, n)
  PROVE  \/ u = [t EXCEPT !.alive = FALSE, !.exc = "io"]
         \/ t.alive /\ u = [t EXCEPT !.wire = [t.wire EXCEPT !.body = @ + n]]
BY SendIs DEF SendBody

\* What finish(), and what a method that sends or collects, leaves alone.
Same(t, u) ==
  /\ u \in Transactions
  /\ u.method = t.method /\ u.noGzip = t.noGzip
  /\ u.code = t.code /\ u.threw = t.threw /\ u.strm = t.strm
  /\ u.keep_alive = t.keep_alive /\ u.upgraded = t.upgraded

Kept(t, u) == Same(t, u) /\ u.finished = t.finished

\* The header goes out, or not; the mode is taken either way.
LEMMA StartIs ==
  ASSUME NEW t \in Transactions, NEW m \in Modes, t.exc = "no", ~t.headerSent,
         t.wire.headers = 0, NEW u \in start_transfer(t, m)
  PROVE  /\ Kept(t, u) /\ u.mode = m /\ u.gzip = t.gzip /\ u.buffer = t.buffer
         /\ u.length = t.length
         /\ \/ u.exc = "io" /\ ~u.alive /\ ~u.headerSent /\ u.wire = t.wire
            \/ u.exc = "null" /\ t.code \notin Codes /\ ~u.headerSent /\ u.wire = t.wire
            \/ /\ u.exc = "no" /\ u.headerSent /\ t.alive /\ u.alive /\ u.wire.headers = 1
               /\ u.wire.code = t.code /\ u.wire.framing = Framing(m, t.code)
               /\ u.wire.length = t.length /\ u.wire.keep = t.keep_alive
               /\ u.wire.body = t.wire.body /\ u.wire.ended = t.wire.ended
<1> DEFINE v == [t EXCEPT !.mode = m]
           w == [v.wire EXCEPT !.headers = @ + 1, !.code = v.code,
                               !.framing = Framing(m, v.code),
                               !.length = v.length, !.keep = v.keep_alive]
<1>1. /\ Kept(t, v) /\ v.mode = m /\ v.gzip = t.gzip /\ v.buffer = t.buffer
      /\ v.length = t.length /\ v.exc = "no" /\ ~v.headerSent /\ v.wire = t.wire
      /\ v.alive = t.alive
  BY DEF Same, Kept, Transactions
<1>2. /\ w.headers = 1 /\ w.code = t.code /\ w.framing = Framing(m, t.code)
      /\ w.length = t.length /\ w.keep = t.keep_alive
      /\ w.body = t.wire.body /\ w.ended = t.wire.ended /\ w \in Wires
  <2>1. /\ t.wire \in Wires /\ t.code \in Nat /\ t.length \in Nat /\ t.keep_alive \in BOOLEAN
        /\ v.wire = t.wire /\ v.code = t.code /\ v.length = t.length
        /\ v.keep_alive = t.keep_alive
    BY <1>1, TransactionAssumption DEF Same, Kept, Transactions, Codes
  <2>2. Framing(m, t.code) \in {"length", "chunked", "nobody", "upgrade"}
    BY DEF Framing
  <2> DEFINE h == t.wire.headers + 1  c == t.code  g == Framing(m, t.code)
  <2>3. w = [t.wire EXCEPT !.headers = h, !.code = c, !.framing = g,
                           !.length = t.length, !.keep = t.keep_alive]
    BY <2>1
  <2>4. h = 1
    OBVIOUS
  <2> HIDE DEF v, w, h, g
  <2> QED BY <2>1, <2>2, <2>3, <2>4 DEF Wires, g
<1>3. \E x \in IF v.code \notin Codes THEN Throw(v, "null") ELSE Send(v, w) :
        u = IF x.exc = "no" THEN [x EXCEPT !.headerSent = TRUE] ELSE x
  BY DEF start_transfer, Then
<1> HIDE DEF v, w
<1>4. CASE t.code \notin Codes
  <2>1. \E x \in {[v EXCEPT !.exc = "null"]} :
          u = IF x.exc = "no" THEN [x EXCEPT !.headerSent = TRUE] ELSE x
    BY <1>1, <1>3, <1>4 DEF Throw, Same, Kept
  <2>2. u = [v EXCEPT !.exc = "null"]
    BY <1>1, <2>1 DEF Same, Kept, Transactions
  <2> QED BY <1>1, <1>4, <2>2 DEF Same, Kept, Transactions
<1>5. CASE t.code \in Codes
  <2>1. PICK x \in Send(v, w) : u = IF x.exc = "no" THEN [x EXCEPT !.headerSent = TRUE] ELSE x
    BY <1>1, <1>3, <1>5 DEF Same, Kept
  <2>2. CASE x = [v EXCEPT !.alive = FALSE, !.exc = "io"]
    <3>1. u = x
      BY <1>1, <2>1, <2>2 DEF Same, Kept, Transactions
    <3> QED BY <1>1, <2>2, <3>1 DEF Same, Kept, Transactions
  <2>3. CASE v.alive /\ x = [v EXCEPT !.wire = w]
    <3>1. u = [x EXCEPT !.headerSent = TRUE] /\ x.wire = w
      BY <1>1, <2>1, <2>3 DEF Same, Kept, Transactions
    <3>2. u.wire = w /\ u.headerSent /\ u.exc = "no" /\ u.alive
      BY <1>1, <2>3, <3>1 DEF Same, Kept, Transactions
    <3> QED BY <1>1, <1>2, <2>3, <3>1, <3>2 DEF Same, Kept, Transactions
  <2> QED BY <2>1, <2>2, <2>3, SendIs
<1> QED BY <1>4, <1>5

-----------------------------------------------------------------------------
(* Writing.                                                                *)

\* The code the client is told, once.
Told(t, u) ==
  /\ t.wire.headers = 1 => u.wire.headers = 1
  /\ u.wire.headers = 1 =>
       u.wire.code = IF t.wire.headers = 1 THEN t.wire.code ELSE t.code

\* What becomes of a transaction by writing to it.
Wrote(t, u) ==
  /\ Kept(t, u) /\ Sound(u) /\ Bounded(u) /\ Told(t, u)
  /\ u.exc = "rt" => t.finished
  /\ u.exc = "io" => ~u.alive
  /\ t.finished => u.wire = t.wire /\ u.exc \in {"no", "rt"}
  /\ \/ u.mode = t.mode /\ u.headerSent = t.headerSent
     \/ t.mode = "UNDECIDED" /\ u.mode = "CHUNKED" /\ (u.exc = "no" => u.headerSent)

\* A body of known length grows by what is written.
Adds(t, u, n) ==
  t.mode = "SIMPLE" /\ u.exc = "no" =>
    u.wire.body = t.wire.body + n /\ u.wire.length = t.wire.length

Open(t) ==
  /\ Sound(t) /\ Bounded(t) /\ t.exc = "no" /\ ~t.finished
  /\ t.headerSent \/ t.code \notin NoBody

\* Body bytes go out behind a header only.
LEMMA SendBodyKeeps ==
  ASSUME NEW t, Open(t), NEW n \in Nat, t.mode \in {"SIMPLE", "CHUNKED"},
         NEW u \in SendBody(t, n)
  PROVE  Wrote(t, u) /\ u.gzip = t.gzip /\ Adds(t, u, n)
<1> USE DEF Open, Adds
<1>1. t \in Transactions /\ t.wire \in Wires
  BY DEF Sound, Transactions
<1>2. CASE u = [t EXCEPT !.alive = FALSE, !.exc = "io"]
  <2>1. /\ Kept(t, u) /\ u.exc = "io" /\ ~u.alive /\ u.gzip = t.gzip /\ u.wire = t.wire
        /\ u.mode = t.mode /\ u.headerSent = t.headerSent
    BY <1>1, <1>2 DEF Same, Kept, Transactions
  <2> QED BY <2>1 DEF Wrote, Told, Sound, Same, Kept, Sent, Untold, Bodyless, Bounded
<1>3. CASE t.alive /\ u = [t EXCEPT !.wire = [t.wire EXCEPT !.body = @ + n]]
  <2> DEFINE w == [t.wire EXCEPT !.body = @ + n]
  <2>1. /\ w \in Wires /\ w.headers = t.wire.headers /\ w.code = t.wire.code
        /\ w.framing = t.wire.framing /\ w.keep = t.wire.keep
        /\ w.length = t.wire.length /\ w.body = t.wire.body + n
    BY <1>1 DEF Wires
  <2> HIDE DEF w
  <2>2. /\ Kept(t, u) /\ u.exc = "no" /\ u.alive /\ u.gzip = t.gzip /\ u.wire = w
        /\ u.mode = t.mode /\ u.headerSent = t.headerSent /\ u.buffer = t.buffer
    BY <1>1, <1>3, <2>1 DEF Same, Kept, Transactions, w
  <2>3. t.headerSent /\ t.wire.headers = 1
    BY <1>3 DEF Sound, Untold, Sent
  <2>4. Sent(u)
    BY <2>1, <2>2, <2>3 DEF Sound, Sent, Same, Kept
  <2> QED BY <1>3, <2>1, <2>2, <2>3, <2>4
          DEF Wrote, Told, Sound, Same, Kept, Untold, Bodyless, Bounded
<1> QED BY <1>2, <1>3, SendBodyIs

LEMMA transferKeeps ==
  ASSUME NEW t, Open(t), NEW n \in Nat, NEW u \in transfer(t, n)
  PROVE  Wrote(t, u) /\ u.gzip = t.gzip /\ Adds(t, u, n)
<1> USE DEF Open, Adds
<1>1. t \in Transactions /\ t.wire \in Wires /\ t.mode \in Modes
  BY DEF Sound, Transactions
<1>2. CASE t.mode \in {"SIMPLE", "CHUNKED"}
  BY <1>2, SendBodyKeeps DEF transfer
<1>3. CASE t.mode \notin {"SIMPLE", "CHUNKED", "UNDECIDED"}
  <2>1. u = t
    BY <1>3 DEF transfer
  <2> QED BY <1>1, <1>3, <2>1 DEF Wrote, Told, Same, Kept
<1>4. CASE t.mode = "UNDECIDED"
  <2> DEFINE v == [t EXCEPT !.buffer = @ + n]
  <2>1. /\ Kept(t, v) /\ v.exc = "no" /\ v.gzip = t.gzip /\ v.wire = t.wire
        /\ v.mode = "UNDECIDED" /\ v.headerSent = t.headerSent
        /\ v.alive = t.alive
    BY <1>1, <1>4 DEF Same, Kept, Transactions
  <2>2. ~t.headerSent /\ t.wire.headers = 0 /\ t.wire.body = 0 /\ ~t.wire.ended
    BY <1>1, <1>4 DEF Sound, Sent, Wires
  <2>3. CASE v.buffer <= ChunkMin
    <3>1. u = v
      BY <1>4, <2>3 DEF transfer
    <3> HIDE DEF v
    <3> QED BY <1>4, <2>1, <2>2, <2>3, <3>1
            DEF Wrote, Told, Same, Kept, Sound, Sent, Untold, Bodyless, Bounded
  <2>4. CASE ~(v.buffer <= ChunkMin)
    <3>1. u \in Then(Then(start_transfer(v, "CHUNKED"),
                          LAMBDA x : SendBody(x, x.buffer)),
                     LAMBDA x : {[x EXCEPT !.buffer = 0]})
      BY <1>4, <2>4 DEF transfer
    <3> HIDE DEF v
    <3>2. PICK x \in start_transfer(v, "CHUNKED") :
            \/ x.exc # "no" /\ u = x
            \/ /\ x.exc = "no"
               /\ \E y \in SendBody(x, x.buffer) :
                    u = IF y.exc = "no" THEN [y EXCEPT !.buffer = 0] ELSE y
      BY <3>1 DEF Then
    <3>3. /\ v \in Transactions /\ "CHUNKED" \in Modes /\ ~v.headerSent
          /\ v.wire.headers = 0 /\ v.exc = "no"
      BY <2>1, <2>2 DEF Same, Kept, Modes
    <3>4. /\ Kept(v, x) /\ x.mode = "CHUNKED" /\ x.gzip = v.gzip
          /\ \/ x.exc = "io" /\ ~x.alive /\ ~x.headerSent /\ x.wire = v.wire
             \/ x.exc = "null" /\ v.code \notin Codes /\ ~x.headerSent /\ x.wire = v.wire
             \/ /\ x.exc = "no" /\ x.headerSent /\ x.wire.headers = 1
                /\ x.wire.code = v.code /\ x.wire.framing = "chunked"
                /\ x.wire.keep = v.keep_alive
      BY <3>2, <3>3, StartIs DEF Framing
    <3>5. CASE x.exc # "no"
      BY <1>4, <2>1, <2>2, <3>2, <3>4, <3>5
         DEF Wrote, Told, Same, Kept, Sound, Sent, Untold, Bodyless, Bounded
    <3>6. CASE x.exc = "no"
      <4>1. Sound(x)
        BY <2>1, <2>2, <3>4, <3>6 DEF Same, Kept, Sound, Sent, Untold, Bodyless
      <4>2. PICK y \in SendBody(x, x.buffer) :
              u = IF y.exc = "no" THEN [y EXCEPT !.buffer = 0] ELSE y
        BY <3>2, <3>6
      <4>3. x \in Transactions /\ x.buffer \in Nat /\ x.wire \in Wires /\ x.wire.headers = 1
        BY <3>4, <3>6 DEF Same, Kept, Transactions
      <4>4. CASE y = [x EXCEPT !.alive = FALSE, !.exc = "io"]
        <5>1. u = y
          BY <4>2, <4>3, <4>4 DEF Transactions
        <5>2. /\ Kept(x, u) /\ u.exc = "io" /\ ~u.alive /\ u.gzip = x.gzip /\ u.wire = x.wire
              /\ u.mode = x.mode /\ u.headerSent = x.headerSent
          BY <4>3, <4>4, <5>1 DEF Same, Kept, Transactions
        <5> QED BY <1>4, <2>1, <2>2, <3>4, <4>1, <4>3, <3>6, <5>2
                DEF Wrote, Told, Sound, Same, Kept, Sent, Untold, Bodyless, Bounded
      <4>5. CASE x.alive /\ y = [x EXCEPT !.wire = [x.wire EXCEPT !.body = @ + x.buffer]]
        <5> DEFINE w == [x.wire EXCEPT !.body = @ + x.buffer]
        <5>1. /\ w \in Wires /\ w.headers = x.wire.headers /\ w.code = x.wire.code
              /\ w.framing = x.wire.framing /\ w.keep = x.wire.keep
          BY <4>3 DEF Wires
        <5> HIDE DEF w
        <5>2. y = [x EXCEPT !.wire = w]
          BY <4>5 DEF w
        <5>3. u = [y EXCEPT !.buffer = 0]
          BY <3>6, <4>2, <4>3, <5>2 DEF Transactions
        <5>4. /\ Kept(x, u) /\ u.exc = "no" /\ u.gzip = x.gzip /\ u.wire = w
              /\ u.mode = x.mode /\ u.headerSent = x.headerSent /\ u.buffer = 0
          BY <3>6, <4>3, <5>1, <5>2, <5>3 DEF Same, Kept, Transactions
        <5>5. Sent(u)
          BY <3>4, <3>6, <4>1, <5>1, <5>4 DEF Sound, Sent, Same, Kept
        <5> QED BY <1>4, <2>1, <2>2, <3>4, <3>6, <4>1, <4>3, <5>1, <5>4, <5>5,
                   TransactionAssumption
                DEF Wrote, Told, Sound, Same, Kept, Untold, Bodyless, Bounded
      <4>6. \/ y = [x EXCEPT !.alive = FALSE, !.exc = "io"]
            \/ x.alive /\ y = [x EXCEPT !.wire = [x.wire EXCEPT !.body = @ + x.buffer]]
        BY <4>2, SendBodyIs
      <4> QED BY <4>4, <4>5, <4>6
    <3> QED BY <3>5, <3>6
  <2> QED BY <2>3, <2>4
<1> QED BY <1>2, <1>3, <1>4

LEMMA deflateKeeps ==
  ASSUME NEW t, Open(t), NEW n \in Nat, NEW u \in deflate(t, n)
  PROVE  Wrote(t, u)
<1>1. CASE u = t
  BY <1>1 DEF Open, Wrote, Told, Same, Kept, Sound
<1>2. CASE \E k \in 1..n : u \in transfer(t, k)
  <2>1. PICK k \in Nat : u \in transfer(t, k)
    BY <1>2
  <2> QED BY <2>1, transferKeeps
<1> QED BY <1>1, <1>2 DEF deflate

LEMMA WroteTwice ==
  ASSUME NEW t, NEW x, NEW u, Wrote(t, x), x.exc = "no", Wrote(x, u)
  PROVE  Wrote(t, u)
BY DEF Wrote, Told, Same, Kept

\* What write() may be called on.
Writable(t) ==
  /\ Sound(t) /\ Bounded(t) /\ t.exc = "no"
  /\ t.finished \/ t.headerSent \/ t.code \notin NoBody

LEMMA WroteNothing ==
  ASSUME NEW t, Writable(t)
  PROVE  Wrote(t, t) /\ Adds(t, t, 0)
BY DEF Writable, Wrote, Told, Same, Kept, Sound, Adds, Transactions, Wires

LEMMA writeKeeps ==
  ASSUME NEW t, Writable(t), NEW n \in Nat, NEW u \in write(t, n)
  PROVE  Wrote(t, u) /\ (~t.gzip => Adds(t, u, n) /\ (t.mode = "SIMPLE" => ~u.gzip))
<1> USE DEF Writable
<1>1. CASE t.finished
  <2>1. u = [t EXCEPT !.exc = "rt"] /\ t \in Transactions
    BY <1>1 DEF write, Throw, Sound
  <2>2. /\ Kept(t, u) /\ u.exc = "rt" /\ u.gzip = t.gzip /\ u.wire = t.wire
        /\ u.mode = t.mode /\ u.headerSent = t.headerSent /\ u.alive = t.alive
        /\ u.buffer = t.buffer
    BY <2>1 DEF Same, Kept, Transactions
  <2> QED BY <1>1, <2>2 DEF Wrote, Told, Sound, Same, Kept, Sent, Untold, Bodyless, Bounded, Adds
<1>2. CASE ~t.finished /\ n = 0
  <2>1. u = t
    BY <1>2 DEF write
  <2> QED BY <1>2, <2>1, WroteNothing
<1>3. CASE ~t.finished /\ n # 0 /\ t.gzip
  <2>1. u \in deflate(t, n) /\ Open(t)
    BY <1>3 DEF write, Open
  <2> QED BY <1>3, <2>1, deflateKeeps
<1>4. CASE ~t.finished /\ n # 0 /\ ~t.gzip
  <2>1. Open(t)
    BY <1>4 DEF Open
  <2>2. PICK x \in transfer(t, n) :
          \/ u = x
          \/ /\ x.exc = "no" /\ x.mode = "UNDECIDED" /\ ~x.noGzip
             /\ u \in deflate([x EXCEPT !.gzip = TRUE, !.buffer = 0], x.buffer)
    BY <1>4 DEF write, Then
  <2>3. Wrote(t, x) /\ x.gzip = t.gzip /\ Adds(t, x, n)
    BY <2>1, <2>2, transferKeeps
  <2>4. CASE u = x
    BY <1>4, <2>3, <2>4
  <2>5. CASE /\ x.exc = "no" /\ x.mode = "UNDECIDED" /\ ~x.noGzip
             /\ u \in deflate([x EXCEPT !.gzip = TRUE, !.buffer = 0], x.buffer)
    <3> DEFINE y == [x EXCEPT !.gzip = TRUE, !.buffer = 0]
    <3>1. x \in Transactions /\ x.buffer \in Nat
      BY <2>3 DEF Wrote, Told, Same, Kept, Transactions
    <3>2. /\ Kept(x, y) /\ y.exc = "no" /\ y.gzip /\ y.buffer = 0 /\ y.wire = x.wire
          /\ y.mode = x.mode /\ y.headerSent = x.headerSent /\ y.alive = x.alive
      BY <2>5, <3>1 DEF Same, Kept, Transactions
    <3> HIDE DEF y
    <3>3. Open(y) /\ Wrote(x, y)
      BY <1>4, <2>3, <2>5, <3>2, TransactionAssumption
         DEF Open, Wrote, Told, Same, Kept, Sound, Sent, Untold, Bodyless, Bounded
    <3>4. Wrote(y, u)
      BY <2>5, <3>1, <3>3, deflateKeeps DEF y
    <3>5. Wrote(t, u)
      BY <2>3, <2>5, <3>2, <3>3, <3>4, WroteTwice
    <3>6. t.mode # "SIMPLE"
      BY <2>3, <2>5 DEF Wrote, Told
    <3> QED BY <3>5, <3>6 DEF Adds
  <2> QED BY <2>2, <2>4, <2>5
<1> QED BY <1>1, <1>2, <1>3, <1>4

\* A loop over the pieces of a body, by induction on its length.
LEMMA PiecesKeep ==
  ASSUME NEW t, Writable(t), NEW n \in Nat, NEW u \in Pieces(t, n)
  PROVE  Wrote(t, u) /\ (~t.gzip => Adds(t, u, n) /\ (t.mode = "SIMPLE" => ~u.gzip))
<1> DEFINE Last(i) == 1..(IF i = 1 THEN 1 ELSE 2)
           Step(f, i) ==
             IF i = 0 THEN {t}
             ELSE UNION {Then(f[i-k], LAMBDA x : write(x, k)) : k \in Last(i)}
           Loop(f, m) == f = [i \in 0..m |-> Step(f, i)]
           Good(x, i) ==
             Wrote(t, x) /\ (~t.gzip => Adds(t, x, i) /\ (t.mode = "SIMPLE" => ~x.gzip))
<1>1. ASSUME NEW f, NEW g, NEW i \in Nat, \A j \in Nat : j < i => f[j] = g[j]
      PROVE  Step(f, i) = Step(g, i)
  <2>1. CASE i # 0
    <3>1. \A k \in Last(i) : f[i-k] = g[i-k]
      BY <1>1, <2>1
    <3> QED BY <2>1, <3>1 DEF Then
  <2> QED BY <2>1
<1>2. ASSUME NEW f, NEW i \in Nat, i # 0, NEW x \in Step(f, i)
      PROVE  \E k \in Last(i) : \E y \in f[i-k] :
               IF y.exc = "no" THEN x \in write(y, k) ELSE x = y
  BY <1>2 DEF Then
<1>3. \A f : Step(f, 0) = {t}
  OBVIOUS
<1>4. Pieces(t, n) = (CHOOSE f : Loop(f, n))[n]
  BY DEF Pieces
<1> HIDE DEF Step
<1>5. \A m \in Nat : \E f : Loop(f, m)
  <2> DEFINE S == {m \in Nat : \E f : Loop(f, m)}
  <2>1. 0 \in S
    <3> DEFINE f == [i \in 0..0 |-> {t}]
    <3>1. Loop(f, 0)
      BY <1>3
    <3> QED BY <3>1
  <2>2. ASSUME NEW m \in S PROVE m + 1 \in S
    <3>1. PICK f : Loop(f, m)
      OBVIOUS
    <3> DEFINE g == [i \in 0..(m + 1) |-> IF i = m + 1 THEN Step(f, m + 1) ELSE f[i]]
    <3>2. \A i \in 0..(m + 1) : Step(g, i) = Step(f, i)
      <4> SUFFICES ASSUME NEW i \in 0..(m + 1) PROVE Step(g, i) = Step(f, i)
        OBVIOUS
      <4>1. i \in Nat /\ \A j \in Nat : j < i => g[j] = f[j]
        OBVIOUS
      <4> HIDE DEF g
      <4> QED BY <4>1, <1>1
    <3>3. \A i \in 0..(m + 1) : g[i] = Step(f, i)
      BY SMTT(30), <3>1
    <3>4. Loop(g, m + 1)
      <4>1. \A i \in 0..(m + 1) : g[i] = Step(g, i)
        BY <3>2, <3>3
      <4> QED BY <4>1
    <3> HIDE DEF g, Loop
    <3>5. \E h : Loop(h, m + 1)
      BY <3>4
    <3> QED BY <3>5
  <2> HIDE DEF S
  <2>3. S = Nat
    <3>1. S \in SUBSET Nat
      BY DEF S
    <3> QED BY <3>1, <2>1, <2>2, SetInduction
  <2> QED BY <2>3 DEF S
<1> DEFINE f == CHOOSE f : Loop(f, n)
<1>6. Loop(f, n)
  BY <1>5
<1>7. \A i \in 0..n : f[i] = Step(f, i)
  BY <1>6
<1>8. Pieces(t, n) = f[n]
  BY <1>4
<1> HIDE DEF f, Good
<1>9. \A x \in f[n] : Good(x, n)
  <2> DEFINE S == {i \in Nat : \A j \in 0..i : j <= n => \A x \in f[j] : Good(x, j)}
  <2>1. 0 \in S
    <3>1. Good(t, 0)
      BY WroteNothing DEF Good
    <3> QED BY <1>3, <1>7, <3>1
  <2>2. ASSUME NEW i \in S PROVE i + 1 \in S
    <3> SUFFICES ASSUME i + 1 <= n, NEW x \in f[i + 1] PROVE Good(x, i + 1)
      OBVIOUS
    <3>1. PICK k \in Last(i + 1) : \E y \in f[i + 1 - k] :
            IF y.exc = "no" THEN x \in write(y, k) ELSE x = y
      BY <1>2, <1>7
    <3>2. PICK y \in f[i + 1 - k] : IF y.exc = "no" THEN x \in write(y, k) ELSE x = y
      BY <3>1
    <3>3. k \in Nat /\ i + 1 - k \in 0..i /\ i + 1 - k <= n
      OBVIOUS
    <3>4. Good(y, i + 1 - k)
      BY <3>2, <3>3
    <3>5. CASE y.exc # "no"
      BY <3>2, <3>4, <3>5 DEF Good, Adds
    <3>6. CASE y.exc = "no"
      <4>1. Writable(y)
        BY <3>4, <3>6 DEF Good, Wrote, Told, Same, Kept, Writable
      <4>2. Wrote(y, x) /\ (~y.gzip => Adds(y, x, k) /\ (y.mode = "SIMPLE" => ~x.gzip))
        BY <3>2, <3>3, <3>6, <4>1, writeKeeps
      <4>3. Wrote(t, x)
        BY <3>4, <3>6, <4>2, WroteTwice DEF Good
      <4>4. ASSUME ~t.gzip PROVE Adds(t, x, i + 1) /\ (t.mode = "SIMPLE" => ~x.gzip)
        <5> SUFFICES ASSUME t.mode = "SIMPLE" PROVE Adds(t, x, i + 1) /\ ~x.gzip
          BY DEF Adds
        <5>1. y.mode = "SIMPLE" /\ ~y.gzip /\ t.wire.body \in Nat
          BY <3>4, <3>6, <4>4 DEF Good, Wrote, Told, Writable, Sound, Transactions, Wires
        <5> QED BY <3>3, <3>4, <3>6, <4>2, <4>4, <5>1 DEF Good, Adds
      <4> QED BY <4>3, <4>4 DEF Good
    <3> QED BY <3>5, <3>6
  <2> HIDE DEF S
  <2>3. S = Nat
    <3>1. S \in SUBSET Nat
      BY DEF S
    <3> QED BY <3>1, <2>1, <2>2, SetInduction
  <2> QED BY <2>3 DEF S
<1> QED BY <1>8, <1>9 DEF Good

-----------------------------------------------------------------------------
(* Finishing.                                                              *)

\* A response to HEAD, for which nothing is sent.
Headless(t) == t.mode = "HEADONLY" /\ t.method = "HEAD"

\* What finish() may be called on: a body of known length is all there, and
\* nothing but a body follows a header.
Finishable(t) ==
  /\ Sound(t) /\ Bounded(t) /\ t.exc = "no"
  /\ ~t.finished =>
       /\ t.mode = "SIMPLE" =>
            /\ t.headerSent /\ t.code \notin NoBody /\ ~t.gzip
            /\ t.wire.body = t.wire.length \/ ~t.keep_alive
       /\ IF t.headerSent THEN t.mode \in {"SIMPLE", "CHUNKED"}
          ELSE t.mode \in {"UNDECIDED", "CHUNKED"} \/ Headless(t)

\* What finish() makes of it, before it sets _finished.
Rested(t, u) ==
  /\ Same(t, u) /\ Sound(u) /\ Bounded(u) /\ Told(t, u)
  /\ u.exc # "rt" /\ (u.exc = "io" => ~u.alive)
  /\ u.exc = "no" => Final(u) /\ (u.headerSent \/ Headless(u))

\* The last chunk.
LEMMA LastChunk ==
  ASSUME NEW t, Finishable(t), ~t.finished, t.mode = "CHUNKED", NEW u \in SendRest(t)
  PROVE  Rested(t, u)
<1> USE DEF Finishable
<1>1. t \in Transactions /\ t.wire \in Wires
  BY DEF Sound, Transactions
<1> DEFINE w == [t.wire EXCEPT !.ended = TRUE]
<1>2. /\ w \in Wires /\ w.headers = t.wire.headers /\ w.code = t.wire.code
      /\ w.framing = t.wire.framing /\ w.keep = t.wire.keep /\ w.ended
  BY <1>1 DEF Wires
<1>3. u \in Send(t, w)
  BY DEF SendRest
<1> HIDE DEF w
<1>4. CASE u = [t EXCEPT !.alive = FALSE, !.exc = "io"]
  <2>1. /\ Kept(t, u) /\ u.exc = "io" /\ ~u.alive /\ u.gzip = t.gzip /\ u.wire = t.wire
        /\ u.mode = t.mode /\ u.headerSent = t.headerSent
    BY <1>1, <1>4 DEF Same, Kept, Transactions
  <2> QED BY <2>1 DEF Rested, Told, Sound, Same, Kept, Sent, Untold, Bodyless, Bounded
<1>5. CASE t.alive /\ u = [t EXCEPT !.wire = w]
  <2>1. /\ Kept(t, u) /\ u.exc = "no" /\ u.alive /\ u.gzip = t.gzip /\ u.wire = w
        /\ u.mode = t.mode /\ u.headerSent = t.headerSent /\ u.buffer = t.buffer
    BY <1>1, <1>2, <1>5 DEF Same, Kept, Transactions
  <2>2. t.headerSent /\ t.wire.headers = 1
    BY <1>5 DEF Sound, Untold, Sent
  <2> QED BY <1>2, <1>5, <2>1, <2>2
          DEF Rested, Told, Final, Sound, Sent, Same, Kept, Untold, Bodyless, Bounded,
              Headless
<1> QED BY <1>3, <1>4, <1>5, SendIs

\* The header of a response without a body.
LEMMA HeadOnly ==
  ASSUME NEW t, Finishable(t), ~t.finished, t.mode # "CHUNKED", t.code \in NoBody,
         NEW u \in SendRest(t)
  PROVE  Rested(t, u)
<1> USE DEF Finishable
<1>1. /\ t \in Transactions /\ ~t.headerSent /\ t.wire.headers = 0 /\ t.wire.body = 0
      /\ ~t.wire.ended
  BY DEF Sound, Sent, Transactions, Wires
<1>2. u \in start_transfer(t, "HEADONLY") /\ "HEADONLY" \in Modes
  BY DEF SendRest, Modes
<1>3. /\ Kept(t, u) /\ u.mode = "HEADONLY" /\ u.gzip = t.gzip /\ u.buffer = t.buffer
      /\ \/ u.exc = "io" /\ ~u.alive /\ ~u.headerSent /\ u.wire = t.wire
         \/ u.exc = "null" /\ t.code \notin Codes /\ ~u.headerSent /\ u.wire = t.wire
         \/ /\ u.exc = "no" /\ u.headerSent /\ t.alive /\ u.wire.headers = 1
            /\ u.wire.code = t.code /\ u.wire.framing = "nobody"
            /\ u.wire.keep = t.keep_alive
            /\ u.wire.body = t.wire.body
  BY <1>1, <1>2, StartIs DEF Framing
<1> QED BY <1>1, <1>3
        DEF Rested, Told, Final, Sound, Same, Kept, Sent, Untold, Bodyless, Bounded

\* A response that was held back goes out whole.
LEMMA WholeBody ==
  ASSUME NEW t, Finishable(t), ~t.finished, t.mode = "UNDECIDED", t.code \notin NoBody,
         NEW u \in SendRest(t)
  PROVE  Rested(t, u)
<1> USE DEF Finishable
<1> DEFINE v == [t EXCEPT !.length = t.buffer]
<1>1. /\ t \in Transactions /\ ~t.headerSent /\ t.wire.headers = 0 /\ t.wire.body = 0
      /\ ~t.wire.ended
  BY DEF Sound, Sent, Transactions, Wires
<1>2. /\ Kept(t, v) /\ v.exc = "no" /\ v.gzip = t.gzip /\ v.buffer = t.buffer /\ v.wire = t.wire
      /\ v.mode = t.mode /\ v.headerSent = t.headerSent /\ v.length = t.buffer
      /\ v.alive = t.alive
  BY <1>1 DEF Same, Kept, Transactions
<1>3. u \in Then(start_transfer(v, "SIMPLE"), LAMBDA x :
              IF x.buffer = 0 THEN {x}
              ELSE Then(SendBody(x, x.buffer),
                        LAMBDA y : {[y EXCEPT !.buffer = 0]}))
  BY DEF SendRest
<1> HIDE DEF v
<1>4. PICK x \in start_transfer(v, "SIMPLE") :
        \/ (x.exc # "no" \/ x.buffer = 0) /\ u = x
        \/ /\ x.exc = "no"
           /\ \E y \in SendBody(x, x.buffer) :
                u = IF y.exc = "no" THEN [y EXCEPT !.buffer = 0] ELSE y
  BY <1>3 DEF Then
<1>5. v \in Transactions /\ "SIMPLE" \in Modes /\ ~v.headerSent /\ v.wire.headers = 0
  BY <1>1, <1>2 DEF Same, Kept, Modes
<1>6. /\ Kept(v, x) /\ x.mode = "SIMPLE" /\ x.gzip = v.gzip /\ x.buffer = t.buffer
      /\ \/ x.exc = "io" /\ ~x.alive /\ ~x.headerSent /\ x.wire = v.wire
         \/ x.exc = "null" /\ v.code \notin Codes /\ ~x.headerSent /\ x.wire = v.wire
         \/ /\ x.exc = "no" /\ x.headerSent /\ v.alive /\ x.alive /\ x.wire.headers = 1
            /\ x.wire.code = v.code /\ x.wire.framing = "length"
            /\ x.wire.keep = v.keep_alive /\ x.wire.length = t.buffer
            /\ x.wire.body = 0
  BY <1>1, <1>2, <1>4, <1>5, StartIs DEF Framing, Same, Kept
<1>7. Sound(x) /\ Bounded(x) /\ Told(t, x) /\ Same(t, x)
  BY <1>1, <1>2, <1>6
     DEF Told, Sound, Same, Kept, Sent, Untold, Bodyless, Bounded
<1>8. CASE (x.exc # "no" \/ x.buffer = 0) /\ u = x
  BY <1>6, <1>7, <1>8 DEF Rested, Final
<1>9. CASE /\ x.exc = "no"
           /\ \E y \in SendBody(x, x.buffer) :
                u = IF y.exc = "no" THEN [y EXCEPT !.buffer = 0] ELSE y
  <2>1. PICK y \in SendBody(x, x.buffer) :
          u = IF y.exc = "no" THEN [y EXCEPT !.buffer = 0] ELSE y
    BY <1>9
  <2>2. x \in Transactions /\ x.buffer \in Nat /\ x.wire \in Wires
    BY <1>7 DEF Same, Transactions
  <2>3. CASE y = [x EXCEPT !.alive = FALSE, !.exc = "io"]
    <3>1. u = y
      BY <2>1, <2>2, <2>3 DEF Transactions
    <3>2. /\ Kept(x, u) /\ u.exc = "io" /\ ~u.alive /\ u.gzip = x.gzip /\ u.wire = x.wire
          /\ u.mode = x.mode /\ u.headerSent = x.headerSent
      BY <2>2, <2>3, <3>1 DEF Same, Kept, Transactions
    <3> QED BY <1>6, <1>7, <3>2
            DEF Rested, Told, Sound, Same, Kept, Sent, Untold, Bodyless, Bounded
  <2>4. CASE x.alive /\ y = [x EXCEPT !.wire = [x.wire EXCEPT !.body = @ + x.buffer]]
    <3> DEFINE w == [x.wire EXCEPT !.body = @ + x.buffer]
    <3>1. /\ w \in Wires /\ w.headers = x.wire.headers /\ w.code = x.wire.code
          /\ w.framing = x.wire.framing /\ w.keep = x.wire.keep
          /\ w.length = x.wire.length /\ w.body = x.wire.body + x.buffer
      BY <2>2 DEF Wires
    <3> HIDE DEF w
    <3>2. y = [x EXCEPT !.wire = w]
      BY <2>4 DEF w
    <3>3. u = [y EXCEPT !.buffer = 0]
      BY <1>9, <2>1, <2>2, <3>2 DEF Transactions
    <3>4. /\ Kept(x, u) /\ u.exc = "no" /\ u.gzip = x.gzip /\ u.wire = w
          /\ u.mode = x.mode /\ u.headerSent = x.headerSent /\ u.buffer = 0
      BY <1>9, <2>2, <3>1, <3>2, <3>3 DEF Same, Kept, Transactions
    <3>5. Sent(u) /\ Final(u)
      BY <1>6, <1>7, <1>9, <2>2, <3>1, <3>4 DEF Sound, Sent, Same, Kept, Final
    <3> QED BY <1>6, <1>7, <1>9, <3>1, <3>4, <3>5, TransactionAssumption
            DEF Rested, Told, Sound, Same, Kept, Untold, Bodyless, Bounded
  <2>5. \/ y = [x EXCEPT !.alive = FALSE, !.exc = "io"]
        \/ x.alive /\ y = [x EXCEPT !.wire = [x.wire EXCEPT !.body = @ + x.buffer]]
    BY ZenonT(30), <2>1, SendBodyIs
  <2> QED BY <2>3, <2>4, <2>5
<1> QED BY <1>4, <1>8, <1>9

\* After finish() a response is complete, unless an exception says otherwise;
\* a second finish() does nothing.
Finished(t, u) ==
  IF t.finished THEN u = t
  ELSE /\ Same(t, u) /\ Sound(u) /\ Bounded(u) /\ Told(t, u)
       /\ u.exc # "rt" /\ (u.exc = "io" => ~u.alive)
       /\ u.exc = "no" => u.finished /\ Final(u) /\ (u.headerSent \/ Headless(u))

LEMMA finishEnds ==
  ASSUME NEW t, Finishable(t), NEW u \in finish(t)
  PROVE  Finished(t, u)
<1>1. CASE t.finished
  BY <1>1 DEF finish, Finished
<1>2. CASE ~t.finished
  <2>1. u \in Then(Then((IF t.gzip THEN transfer(t, 1) ELSE {t}), SendRest),
                   LAMBDA x : {[x EXCEPT !.finished = TRUE]})
    BY <1>2 DEF finish
  <2>2. \E x \in (IF t.gzip THEN transfer(t, 1) ELSE {t}) :
          \/ x.exc # "no" /\ u = x
          \/ /\ x.exc = "no"
             /\ \E y \in SendRest(x) :
                  u = IF y.exc = "no" THEN [y EXCEPT !.finished = TRUE] ELSE y
    BY <2>1 DEF Then
  <2>3. PICK x \in (IF t.gzip THEN transfer(t, 1) ELSE {t}) :
          \/ x.exc # "no" /\ u = x
          \/ /\ x.exc = "no"
             /\ \E y \in SendRest(x) :
                  u = IF y.exc = "no" THEN [y EXCEPT !.finished = TRUE] ELSE y
    BY <2>2
  <2>4. Wrote(t, x) /\ (x.exc = "no" => Finishable(x) /\ ~x.finished)
    <3>1. CASE t.gzip
      <4>1. Open(t)
        BY <1>2, <3>1 DEF Open, Finishable, Sound, Bodyless
      <4>2. Wrote(t, x)
        BY <2>3, <3>1, <4>1, transferKeeps
      <4> QED BY <1>2, <3>1, <4>2 DEF Finishable, Wrote, Kept, Same, Headless
    <3>2. CASE ~t.gzip
      <4>1. x = t
        BY <2>3, <3>2
      <4> QED BY <1>2, <4>1 DEF Finishable, Wrote, Told, Kept, Same, Sound
    <3> QED BY <3>1, <3>2
  <2>5. CASE x.exc # "no" /\ u = x
    BY <1>2, <2>4, <2>5 DEF Finished, Wrote, Kept
  <2>6. CASE x.exc = "no" /\ \E y \in SendRest(x) :
                  u = IF y.exc = "no" THEN [y EXCEPT !.finished = TRUE] ELSE y
    <3>1. PICK y \in SendRest(x) : u = IF y.exc = "no" THEN [y EXCEPT !.finished = TRUE] ELSE y
      BY <2>6
    <3>2. Rested(x, y)
      <4>1. CASE x.mode = "CHUNKED"
        BY <2>4, <2>6, <3>1, <4>1, LastChunk
      <4>2. CASE x.mode # "CHUNKED" /\ x.code \in NoBody
        BY <2>4, <2>6, <3>1, <4>2, HeadOnly
      <4>3. CASE x.mode = "UNDECIDED" /\ x.code \notin NoBody
        BY <2>4, <2>6, <3>1, <4>3, WholeBody
      <4>4. CASE x.mode \notin {"CHUNKED", "UNDECIDED"} /\ x.code \notin NoBody
        <5>1. y = x
          BY <3>1, <4>4 DEF SendRest
        <5> QED BY <2>4, <2>6, <4>4, <5>1
                DEF Rested, Finishable, Final, Told, Same, Sound, Headless
      <4> QED BY <4>1, <4>2, <4>3, <4>4
    <3>3. CASE y.exc # "no"
      <4>1. u = y
        BY <3>1, <3>3
      <4> QED BY <1>2, <2>4, <2>6, <3>2, <3>3, <4>1
              DEF Finished, Rested, Wrote, Kept, Same, Told
    <3>4. CASE y.exc = "no"
      <4>1. u = [y EXCEPT !.finished = TRUE] /\ y \in Transactions
        BY <3>1, <3>2, <3>4 DEF Rested, Sound
      <4>2. /\ Same(y, u) /\ u.finished /\ u.mode = y.mode /\ u.wire = y.wire /\ u.exc = "no"
            /\ u.headerSent = y.headerSent /\ u.buffer = y.buffer /\ u.gzip = y.gzip
            /\ u.alive = y.alive
        BY <3>4, <4>1 DEF Same, Transactions
      <4>3. Sound(u) /\ Bounded(u) /\ Final(u)
        BY <3>2, <3>4, <4>2
           DEF Rested, Sound, Sent, Untold, Bodyless, Bounded, Final, Same, Headless
      <4> QED BY <1>2, <2>4, <2>6, <3>2, <3>4, <4>2, <4>3
              DEF Finished, Rested, Wrote, Kept, Same, Told, Headless
    <3> QED BY <3>3, <3>4
  <2> QED BY <2>3, <2>5, <2>6
<1> QED BY <1>1, <1>2

-----------------------------------------------------------------------------
(* The methods.                                                            *)

\* A transaction that takes another call: it is finished and complete, or a
\* body may follow its header, or its header has not been sent.
Ready(t) ==
  /\ Sound(t) /\ Bounded(t) /\ t.exc = "no"
  /\ IF t.finished THEN Final(t) ELSE t.headerSent => t.mode = "CHUNKED"
  /\ t.headerSent \/ t.mode = "UNDECIDED" \/ Headless(t)

\* What every method makes of it.
Ends(t, u) ==
  /\ Sound(u) /\ Bounded(u) /\ u.method = t.method /\ u.threw = t.threw
  /\ t.finished => u.finished /\ u.wire = t.wire
  /\ u.exc = "no" => Ready(u)

\* A method that answers the request has finished the response.
Finishes(u) == u.exc = "no" => u.finished

\* What write() may be called on that may be called on at all.
Bodied(t) == t.finished \/ t.headerSent \/ t.code \notin NoBody

LEMMA ReadyIs ==
  ASSUME NEW t, Ready(t)
  PROVE  /\ Finishable(t) /\ (Bodied(t) => Writable(t)) /\ Ends(t, t)
         /\ t \in Transactions /\ t.wire \in Wires /\ t.exc = "no" /\ t.buffer \in Nat
BY DEF Ready, Finishable, Headless, Bodied, Writable, Ends, Sound, Transactions

LEMMA EndsTwice ==
  ASSUME NEW t, NEW x, NEW u, Ends(t, x), Ends(x, u)
  PROVE  Ends(t, u)
BY DEF Ends

LEMMA ThrowEnds ==
  ASSUME NEW t, Ready(t), NEW e \in {"rt", "io"}, NEW u \in Throw(t, e)
  PROVE  Ends(t, u) /\ Finishes(u) /\ u.exc = e
<1>1. u = [t EXCEPT !.exc = e] /\ t \in Transactions
  BY ReadyIs DEF Throw
<1>2. /\ Kept(t, u) /\ u.exc = e /\ u.gzip = t.gzip /\ u.wire = t.wire /\ u.mode = t.mode
      /\ u.headerSent = t.headerSent /\ u.alive = t.alive /\ u.buffer = t.buffer
  BY <1>1 DEF Same, Kept, Transactions
<1> QED BY <1>2 DEF Finishes, Ready, Ends, Sound, Bounded, Sent, Untold, Bodyless, Same, Kept

LEMMA finishLast ==
  ASSUME NEW t, Ready(t), NEW u \in finish(t)
  PROVE  Ends(t, u) /\ u.exc # "rt" /\ Finishes(u)
<1>1. Finished(t, u)
  BY ReadyIs, finishEnds
<1>2. CASE t.finished
  BY <1>1, <1>2, ReadyIs DEF Finished, Finishes
<1>3. CASE ~t.finished
  BY <1>1, <1>3 DEF Finished, Finishes, Ends, Ready, Same
<1> QED BY <1>2, <1>3

LEMMA WroteEnds ==
  ASSUME NEW t, Ready(t), NEW u, Wrote(t, u)
  PROVE  Ends(t, u)
BY DEF Ready, Wrote, Ends, Same, Kept, Final, Sound, Untold, Headless

LEMMA writeEnds ==
  ASSUME NEW t, Ready(t), Bodied(t), NEW n \in Nat, NEW u \in write(t, n)
  PROVE  Ends(t, u) /\ u.code = t.code
BY ReadyIs, writeKeeps, WroteEnds DEF Wrote, Kept, Same

LEMMA PiecesEnd ==
  ASSUME NEW t, Ready(t), Bodied(t), NEW n \in Nat, NEW u \in Pieces(t, n)
  PROVE  Ends(t, u)
BY ReadyIs, PiecesKeep, WroteEnds

\* Whether the code of a response can become c.
MayTake(t, c) ==
  /\ c \in Codes \cup UpstreamCodes
  /\ t.headerSent \/ c \notin NoBody \/ (t.buffer = 0 /\ ~t.gzip)

LEMMA CodeSet ==
  ASSUME NEW t, Ready(t), NEW c, MayTake(t, c), NEW u, u = [t EXCEPT !.code = c]
  PROVE  /\ Ready(u) /\ Ends(t, u)
         /\ u.code = c /\ u.mode = t.mode /\ u.headerSent = t.headerSent
         /\ u.finished = t.finished /\ u.buffer = t.buffer /\ u.gzip = t.gzip
         /\ u.noGzip = t.noGzip /\ u.wire = t.wire /\ u.method = t.method
<1>1. t \in Transactions
  BY ReadyIs
<1>2. /\ u \in Transactions
      /\ u.code = c /\ u.mode = t.mode /\ u.headerSent = t.headerSent
      /\ u.finished = t.finished /\ u.buffer = t.buffer /\ u.gzip = t.gzip
      /\ u.noGzip = t.noGzip /\ u.wire = t.wire /\ u.method = t.method
      /\ u.threw = t.threw /\ u.exc = t.exc /\ u.alive = t.alive
      /\ u.keep_alive = t.keep_alive /\ u.upgraded = t.upgraded
  BY <1>1 DEF Transactions, MayTake
<1>3. Ready(u)
  BY <1>2 DEF Ready, Sound, Bounded, Sent, Untold, Bodyless, Final, Headless, MayTake
<1> QED BY <1>2, <1>3 DEF Ends, Ready

LEMMA get_responseEnds ==
  ASSUME NEW t, Ready(t), NEW c, MayTake(t, c), NEW u \in get_response(t, c)
  PROVE  /\ Ends(t, u) /\ u.exc \in {"no", "rt"}
         /\ u.exc = "no" => ~t.headerSent /\ u = [t EXCEPT !.code = c]
<1>1. CASE t.headerSent
  <2>1. u \in Throw(t, "rt")
    BY <1>1 DEF get_response
  <2> QED BY <2>1, ThrowEnds
<1>2. CASE ~t.headerSent
  <2>1. u = [t EXCEPT !.code = c]
    BY <1>2 DEF get_response
  <2>2. Ready(u) /\ Ends(t, u)
    BY <2>1, CodeSet
  <2> QED BY <1>2, <2>1, <2>2 DEF Ready
<1> QED BY <1>1, <1>2

LEMMA display_errorEnds ==
  ASSUME NEW t, Ready(t), NEW c \in Codes \ NoBody, NEW u \in display_error(t, c)
  PROVE  Ends(t, u) /\ Finishes(u) /\ u.exc # "null"
<1>1. PICK x \in get_response(t, c) :
        \/ x.exc # "no" /\ u = x
        \/ /\ x.exc = "no"
           /\ \E y \in (IF x.mode = "UNDECIDED" /\ x.buffer = 0 THEN write(x, 1) ELSE {x}) :
                IF y.exc = "no" THEN u \in finish(y) ELSE u = y
  BY DEF display_error, Then
<1>2. /\ Ends(t, x) /\ x.exc \in {"no", "rt"}
      /\ x.exc = "no" => ~t.headerSent /\ x = [t EXCEPT !.code = c]
  BY <1>1, get_responseEnds DEF MayTake
<1>3. CASE x.exc # "no" /\ u = x
  BY <1>2, <1>3 DEF Finishes
<1>4. CASE x.exc = "no"
  <2>1. PICK y \in (IF x.mode = "UNDECIDED" /\ x.buffer = 0 THEN write(x, 1) ELSE {x}) :
                IF y.exc = "no" THEN u \in finish(y) ELSE u = y
    BY <1>1, <1>4
  <2>2. Ready(x) /\ x.code = c
    BY <1>2, <1>4, CodeSet DEF MayTake
  <2>3. Ends(x, y) /\ y.code = c
    BY <2>1, <2>2, ReadyIs, writeEnds DEF Bodied
  <2>4. CASE y.exc # "no" /\ u = y
    BY <1>2, <2>3, <2>4, EndsTwice DEF Finishes, Ends, Sound
  <2>5. CASE y.exc = "no" /\ u \in finish(y)
    <3>1. Ends(y, u) /\ Finishes(u) /\ u.code = c
      <4>1. Ready(y)
        BY <2>3, <2>5 DEF Ends
      <4>2. Finished(y, u)
        BY <2>5, <4>1, ReadyIs, finishEnds
      <4> QED BY <2>3, <2>5, <4>1, <4>2, finishLast DEF Finished, Same
    <3> QED BY <1>2, <2>3, <3>1, EndsTwice DEF Ends, Sound
  <2> QED BY <2>1, <2>4, <2>5
<1> QED BY <1>1, <1>3, <1>4

LEMMA redirect_toEnds ==
  ASSUME NEW t, Ready(t), NEW u \in redirect_to(t)
  PROVE  Ends(t, u) /\ Finishes(u)
<1>1. PICK x \in get_response(t, 302) :
        IF x.exc = "no" THEN u \in finish(x) ELSE u = x
  BY DEF redirect_to, Then
<1>2. Ends(t, x)
  BY <1>1, get_responseEnds DEF MayTake, Codes, NoBody
<1>3. CASE x.exc = "no"
  BY <1>1, <1>2, <1>3, finishLast, EndsTwice DEF Ends
<1> QED BY <1>1, <1>2, <1>3 DEF Finishes

\* A call that sets up a new response: nothing was collected, the header is
\* not out, and the response may have a body.
Fresh(t) ==
  Ready(t) /\ ~t.headerSent /\ t.mode = "UNDECIDED" /\ t.buffer = 0 /\ ~t.gzip

\* The length is known: header first, then as much of the file as there is.
LEMMA SendPlainFile ==
  ASSUME NEW t, Fresh(t), t.code \notin NoBody, t.noGzip,
         NEW rest \in Nat, NEW there \in 0..rest, NEW u \in SendFile(t, rest, there)
  PROVE  Ends(t, u) /\ Finishes(u)
<1> DEFINE v == [t EXCEPT !.length = rest, !.buffer = 0]
<1>1. t \in Transactions /\ t.exc = "no" /\ ~t.finished /\ t.wire.headers = 0
      /\ t.wire.body = 0 /\ ~t.wire.ended /\ there \in Nat /\ t.wire \in Wires
  BY ReadyIs DEF Fresh, Ready, Sound, Untold, Sent, Wires
<1>2. /\ Kept(t, v) /\ v.exc = "no" /\ v.gzip = t.gzip /\ v.buffer = 0 /\ v.wire = t.wire
      /\ ~v.headerSent /\ v.length = rest
  BY <1>1 DEF Same, Kept, Transactions, Fresh
<1>3. u \in Then(start_transfer(v, "SIMPLE"),
           LAMBDA x : Then(Then(Pieces(x, there),
                                LAMBDA y : IF there < rest THEN Truncated(y) ELSE {y}),
                           finish))
  BY DEF SendFile
<1> HIDE DEF v
<1>4. PICK x \in start_transfer(v, "SIMPLE") :
        \/ x.exc # "no" /\ u = x
        \/ /\ x.exc = "no"
           /\ u \in Then(Then(Pieces(x, there),
                              LAMBDA y : IF there < rest THEN Truncated(y) ELSE {y}),
                         finish)
  BY <1>3 DEF Then
<1>5. /\ Kept(v, x) /\ x.mode = "SIMPLE" /\ x.gzip = v.gzip /\ x.buffer = 0
      /\ \/ x.exc = "io" /\ ~x.alive /\ ~x.headerSent /\ x.wire = v.wire
         \/ x.exc = "null" /\ v.code \notin Codes /\ ~x.headerSent /\ x.wire = v.wire
         \/ /\ x.exc = "no" /\ x.headerSent /\ x.wire.headers = 1
            /\ x.wire.code = v.code /\ x.wire.framing = "length"
            /\ x.wire.keep = v.keep_alive /\ x.wire.length = rest /\ x.wire.body = 0
  <2>1. /\ v \in Transactions /\ "SIMPLE" \in Modes /\ ~v.headerSent /\ v.exc = "no"
        /\ v.wire.headers = 0 /\ v.wire.body = 0 /\ v.code \notin NoBody
    BY <1>1, <1>2 DEF Same, Kept, Modes
  <2>2. Framing("SIMPLE", v.code) = "length"
    BY <2>1 DEF Framing
  <2>3. x \in start_transfer(v, "SIMPLE")
    BY <1>4
  <2> QED BY <1>2, <2>1, <2>2, <2>3, StartIs
<1>6. Sound(x) /\ Bounded(x) /\ Same(t, x) /\ ~x.finished /\ ~x.gzip
  BY <1>1, <1>2, <1>5, TransactionAssumption
     DEF Fresh, Ready, Sound, Same, Kept, Sent, Untold, Bodyless, Bounded
<1>7. CASE x.exc # "no" /\ u = x
  BY <1>1, <1>6, <1>7 DEF Finishes, Ends, Same
<1>8. CASE /\ x.exc = "no"
           /\ u \in Then(Then(Pieces(x, there),
                              LAMBDA y : IF there < rest THEN Truncated(y) ELSE {y}),
                         finish)
  <2>1. PICK y \in Pieces(x, there) :
          \/ y.exc # "no" /\ u = y
          \/ /\ y.exc = "no"
             /\ \E z \in (IF there < rest THEN Truncated(y) ELSE {y}) :
                  IF z.exc = "no" THEN u \in finish(z) ELSE u = z
    BY <1>8 DEF Then
  <2>2. Wrote(x, y) /\ Adds(x, y, there) /\ ~y.gzip
    BY <1>1, <1>5, <1>6, <1>8, <2>1, PiecesKeep DEF Writable
  <2>3. CASE y.exc # "no" /\ u = y
    BY <1>1, <1>6, <2>2, <2>3 DEF Finishes, Ends, Same, Wrote, Kept
  <2>4. CASE /\ y.exc = "no"
             /\ \E z \in (IF there < rest THEN Truncated(y) ELSE {y}) :
                  IF z.exc = "no" THEN u \in finish(z) ELSE u = z
    <3>1. PICK z \in (IF there < rest THEN Truncated(y) ELSE {y}) :
                  IF z.exc = "no" THEN u \in finish(z) ELSE u = z
      BY <2>4
    <3>2. /\ z \in Transactions /\ z.method = y.method /\ z.noGzip = y.noGzip
          /\ z.code = y.code /\ z.threw = y.threw /\ z.upgraded = y.upgraded
          /\ z.mode = y.mode /\ z.headerSent = y.headerSent /\ z.wire = y.wire
          /\ z.exc = y.exc /\ z.gzip = y.gzip /\ z.buffer = y.buffer
          /\ z.finished = y.finished /\ z.alive = y.alive
          /\ z.keep_alive => y.keep_alive /\ ~(there < rest)
      <4>1. z = y \/ z = [y EXCEPT !.keep_alive = FALSE]
        BY <3>1 DEF Truncated
      <4>2. z.keep_alive => ~(there < rest) /\ z = y
        BY <2>2, <3>1 DEF Truncated, Wrote, Kept, Same, Transactions
      <4> QED BY ZenonT(30), <2>2, <4>1, <4>2 DEF Wrote, Kept, Same, Transactions
    <3>3. Finishable(z) /\ ~z.finished
      <4>1. Sound(z) /\ Bounded(z)
        BY <2>2, <3>2 DEF Wrote, Sound, Bounded, Sent, Untold, Bodyless
      <4>2. z.wire.body = z.wire.length \/ ~z.keep_alive
        <5>1. /\ x.mode = "SIMPLE" /\ x.wire.length = rest /\ x.wire.body = 0
              /\ y.exc = "no"
          BY <1>5, <1>8, <2>4
        <5>2. y.wire.body = 0 + there /\ y.wire.length = rest
          BY <2>2, <5>1 DEF Adds
        <5>3. z.wire = y.wire /\ (z.keep_alive => there = rest)
          BY <3>2
        <5> QED BY <1>1, <5>2, <5>3
      <4> QED BY ZenonT(30), <1>2, <1>5, <1>6, <1>8, <2>2, <2>4, <3>2, <4>1, <4>2
              DEF Finishable, Wrote, Kept, Same, Headless
    <3>4. Finished(z, u)
      BY <2>4, <3>1, <3>2, <3>3, finishEnds
    <3> QED BY <1>1, <1>6, <2>2, <3>2, <3>3, <3>4
            DEF Finishes, Ends, Ready, Finished, Same, Wrote, Kept
  <2> QED BY <2>1, <2>3, <2>4
<1> QED BY <1>4, <1>7, <1>8

\* The connection is told not to go on.
LEMMA TruncatedReady ==
  ASSUME NEW t, Ready(t), NEW u \in Truncated(t)
  PROVE  Ready(u) /\ Ends(t, u)
<1>1. t \in Transactions /\ u = [t EXCEPT !.keep_alive = FALSE]
  BY ReadyIs DEF Truncated
<1>2. /\ u \in Transactions
      /\ u.code = t.code /\ u.mode = t.mode /\ u.headerSent = t.headerSent
      /\ u.finished = t.finished /\ u.buffer = t.buffer /\ u.gzip = t.gzip
      /\ u.noGzip = t.noGzip /\ u.wire = t.wire /\ u.method = t.method
      /\ u.threw = t.threw /\ u.exc = t.exc /\ u.alive = t.alive
      /\ ~u.keep_alive /\ u.upgraded = t.upgraded
  BY <1>1 DEF Transactions
<1>3. Ready(u)
  BY <1>2 DEF Ready, Sound, Bounded, Sent, Untold, Bodyless, Final, Headless
<1> QED BY <1>2, <1>3 DEF Ends, Ready

LEMMA SendFileEnds ==
  ASSUME NEW t, Fresh(t), t.code \notin NoBody,
         NEW rest \in Nat, NEW there \in 0..rest, NEW u \in SendFile(t, rest, there)
  PROVE  Ends(t, u) /\ Finishes(u)
<1>1. CASE t.noGzip
  BY <1>1, SendPlainFile
<1>2. CASE ~t.noGzip
  <2>1. u \in Then({t}, LAMBDA x : Then(Then(Pieces(x, there),
                                LAMBDA y : IF there < rest THEN Truncated(y) ELSE {y}),
                           finish))
    BY <1>2 DEF SendFile
  <2>2. u \in Then(Then(Pieces(t, there),
                        LAMBDA y : IF there < rest THEN Truncated(y) ELSE {y}), finish)
    BY <2>1, ReadyIs DEF Then, Fresh
  <2>3. PICK y \in Pieces(t, there) :
          \/ y.exc # "no" /\ u = y
          \/ /\ y.exc = "no"
             /\ \E z \in (IF there < rest THEN Truncated(y) ELSE {y}) :
                  IF z.exc = "no" THEN u \in finish(z) ELSE u = z
    BY <2>2 DEF Then
  <2>4. Ends(t, y)
    BY <2>3, PiecesEnd DEF Fresh, Bodied
  <2>5. CASE y.exc = "no"
    <3>1. PICK z \in (IF there < rest THEN Truncated(y) ELSE {y}) :
                  IF z.exc = "no" THEN u \in finish(z) ELSE u = z
      BY <2>3, <2>5
    <3>2. Ready(y)
      BY <2>4, <2>5 DEF Ends
    <3>3. Ready(z) /\ Ends(y, z)
      BY <3>1, <3>2, ReadyIs, TruncatedReady
    <3>4. Ends(z, u) /\ Finishes(u)
      BY <3>1, <3>3, ReadyIs, finishLast
    <3> QED BY <2>4, <3>3, <3>4, EndsTwice
  <2> QED BY <2>3, <2>4, <2>5 DEF Finishes
<1> QED BY <1>1, <1>2

\* When a service may ask for a file or an upstream.
Replaceable(t) ==
  /\ Ready(t)
  /\ t.finished \/ t.code \notin NoBody
  /\ t.headerSent \/ (t.buffer = 0 /\ ~t.gzip)

\* A response to HEAD that has the length of the file.
LEMMA LengthSet ==
  ASSUME NEW t, Ready(t), NEW n \in Nat, NEW u, u = [t EXCEPT !.length = n]
  PROVE  Ready(u) /\ Ends(t, u)
<1>1. /\ u \in Transactions
      /\ u.code = t.code /\ u.mode = t.mode /\ u.headerSent = t.headerSent
      /\ u.finished = t.finished /\ u.buffer = t.buffer /\ u.gzip = t.gzip
      /\ u.noGzip = t.noGzip /\ u.wire = t.wire /\ u.method = t.method
      /\ u.threw = t.threw /\ u.exc = t.exc /\ u.alive = t.alive
      /\ u.keep_alive = t.keep_alive /\ u.upgraded = t.upgraded
  BY ReadyIs DEF Transactions
<1>2. Ready(u)
  BY <1>1 DEF Ready, Sound, Bounded, Sent, Untold, Bodyless, Final, Headless
<1> QED BY <1>1, <1>2 DEF Ends, Ready

LEMMA serve_fileEnds ==
  ASSUME NEW t, Replaceable(t), NEW u \in serve_file(t)
  PROVE  Ends(t, u) /\ Finishes(u)
<1>1. Ready(t) /\ {403, 404, 405, 416} \subseteq Codes \ NoBody /\ MayTake(t, 304)
  BY DEF Replaceable, MayTake, Codes, NoBody
<1>2. CASE \E c \in {403, 404, 405, 416} : u \in display_error(t, c)
  BY <1>1, <1>2, display_errorEnds
<1>3. CASE u \in Then(get_response(t, 304), finish)
  <2>1. PICK x \in get_response(t, 304) : IF x.exc = "no" THEN u \in finish(x) ELSE u = x
    BY <1>3 DEF Then
  <2>2. Ends(t, x)
    BY <1>1, <2>1, get_responseEnds
  <2>3. CASE x.exc = "no"
    BY <2>1, <2>2, <2>3, finishLast, EndsTwice DEF Ends
  <2> QED BY <2>1, <2>2, <2>3 DEF Finishes
<1>4. CASE \E n \in 0..MaxFile : u \in finish([t EXCEPT !.length = n])
  <2>1. PICK n \in 0..MaxFile : u \in finish([t EXCEPT !.length = n])
    BY <1>4
  <2> DEFINE x == [t EXCEPT !.length = n]
  <2>2. Ready(x) /\ Ends(t, x)
    BY <1>1, TransactionAssumption, LengthSet
  <2> HIDE DEF x
  <2>3. u \in finish(x)
    BY <2>1 DEF x
  <2> QED BY <2>2, <2>3, finishLast, EndsTwice
<1>5. CASE u \in Throw(t, "rt")
  BY <1>1, <1>5, ThrowEnds
<1>6. CASE /\ t.mode # "HEADONLY" /\ ~t.headerSent
           /\ \E rest \in 0..MaxFile : \E c \in {t.code, 206}, there \in 0..rest :
                u \in SendFile([t EXCEPT !.code = c], rest, there)
  <2>6. PICK rest \in 0..MaxFile : \E c \in {t.code, 206}, there \in 0..rest :
                u \in SendFile([t EXCEPT !.code = c], rest, there)
    BY <1>6
  <2>1. PICK c \in {t.code, 206}, there \in 0..rest :
                u \in SendFile([t EXCEPT !.code = c], rest, there)
    BY <2>6
  <2> DEFINE x == [t EXCEPT !.code = c]
  <2>2. t.mode = "UNDECIDED" /\ t.code \notin NoBody /\ t.code \in Codes \cup UpstreamCodes
    BY <1>6 DEF Replaceable, Ready, Sound, Untold, Transactions, Headless
  <2>3. MayTake(t, c) /\ c \notin NoBody
    BY <2>2 DEF MayTake, Codes, NoBody
  <2>4. Fresh(x) /\ Ends(t, x) /\ x.code = c
    BY <1>1, <1>6, <2>2, <2>3, CodeSet DEF Fresh, Replaceable
  <2> HIDE DEF x
  <2>5. u \in SendFile(x, rest, there) /\ rest \in Nat
    BY <2>1, TransactionAssumption DEF x
  <2> QED BY <2>3, <2>4, <2>5, SendFileEnds, EndsTwice
<1>7. CASE t.method = "POST"
  <2>1. u \in display_error(t, 405)
    BY <1>7 DEF serve_file
  <2> QED BY <1>2, <2>1
<1>8. CASE t.method # "POST"
  <2> DEFINE Errors == UNION {display_error(t, code) : code \in {403, 404, 405}}
             Unmodified == Then(get_response(t, 304), finish)
             Heads == UNION {finish([t EXCEPT !.length = size]) : size \in 0..MaxFile}
             Files == UNION {UNION {SendFile([t EXCEPT !.code = c], rest, there) :
                                     c \in {t.code, 206}, there \in 0..rest} :
                              rest \in 0..MaxFile}
  <2>1. serve_file(t) =
          Errors \cup Unmodified
            \cup (IF t.mode = "HEADONLY" THEN Heads
                  ELSE IF t.headerSent THEN Throw(t, "rt")
                  ELSE display_error(t, 416) \cup Files)
    <3> DEFINE Responses == Errors \cup Unmodified
            \cup (IF t.mode = "HEADONLY" THEN Heads
                  ELSE IF t.headerSent THEN Throw(t, "rt")
                  ELSE display_error(t, 416) \cup Files)
    <3>1. serve_file(t) = IF t.method = "POST" THEN display_error(t, 405) ELSE Responses
      BY DEF serve_file, Then
    <3> HIDE DEF Responses
    <3>2. serve_file(t) = Responses
      BY <1>8, <3>1
    <3> QED BY <3>2 DEF Responses
  <2>2. CASE u \in Errors
    BY <1>2, <2>2
  <2>3. CASE u \in Unmodified
    BY <1>3, <2>3
  <2>4. CASE u \in Heads
    BY <1>4, <2>4
  <2>5. ASSUME u \in Files, t.mode # "HEADONLY", ~t.headerSent PROVE Ends(t, u) /\ Finishes(u)
    <3>1. PICK rest \in 0..MaxFile :
            u \in UNION {SendFile([t EXCEPT !.code = c], rest, there) :
                          c \in {t.code, 206}, there \in 0..rest}
      BY <2>5
    <3>2. \E c \in {t.code, 206}, there \in 0..rest :
            u \in SendFile([t EXCEPT !.code = c], rest, there)
      BY <3>1
    <3> QED BY <1>6, <2>5, <3>2
  <2>6. CASE u \in display_error(t, 416)
    BY <1>2, <2>6
  <2> HIDE DEF Errors, Unmodified, Heads, Files
  <2>7. \/ u \in Errors \/ u \in Unmodified \/ u \in Heads
        \/ u \in Throw(t, "rt")
        \/ u \in display_error(t, 416)
        \/ u \in Files /\ t.mode # "HEADONLY" /\ ~t.headerSent
    BY <2>1
  <2> QED BY <1>5, <2>2, <2>3, <2>4, <2>5, <2>6, <2>7
<1> QED BY <1>7, <1>8

\* The response of an upstream that is a stream: whatever stops its body, the
\* client's own connection included, the response is finished.
LEMMA SwallowsEnds ==
  ASSUME NEW t, Replaceable(t), ~t.headerSent,
         NEW c \in UpstreamCodes, NEW n \in 0..MaxFile, NEW v \in Upstream(t, c),
         NEW x \in Pieces(v, n), NEW y, y = Swallow(x),
         NEW u, IF y.exc = "no" THEN u \in finish(y) ELSE u = y
  PROVE  Ends(t, u) /\ Finishes(u)
<1>1. t \in Transactions /\ c \notin NoBody /\ n \in Nat
  BY ReadyIs, TransactionAssumption DEF Replaceable, NoBody
<1>2. /\ v \in Transactions
      /\ v.code = c /\ v.mode = t.mode /\ v.headerSent = t.headerSent
      /\ v.finished = t.finished /\ v.buffer = t.buffer /\ v.gzip = t.gzip
      /\ v.wire = t.wire /\ v.method = t.method
      /\ v.threw = t.threw /\ v.exc = t.exc /\ v.alive = t.alive
      /\ v.keep_alive = t.keep_alive /\ v.upgraded = t.upgraded
  BY ZenonT(30), <1>1 DEF Transactions, Upstream
<1>3. Ready(v) /\ Ends(t, v) /\ Bodied(v) /\ ~v.headerSent
  <2>1. Ready(v)
    BY <1>1, <1>2 DEF Replaceable, Ready, Sound, Bounded, Sent, Untold, Bodyless, Final,
                      Headless
  <2> QED BY <1>1, <1>2, <2>1 DEF Ends, Ready, Bodied
<1>4. Wrote(v, x)
  BY <1>1, <1>3, ReadyIs, PiecesKeep
<1>5. Ends(t, x)
  BY <1>3, <1>4, WroteEnds, EndsTwice
<1>6. x \in Transactions
  BY <1>5 DEF Ends, Sound
<1>7. CASE x.exc \notin {"rt", "io"}
  <2>1. y = x
    BY <1>6, <1>7 DEF Transactions, Swallow
  <2>2. CASE x.exc = "no"
    BY <1>5, <2>1, <2>2, finishLast, EndsTwice DEF Ends
  <2>3. CASE x.exc # "no"
    BY <1>5, <2>1, <2>3 DEF Finishes
  <2> QED BY <2>2, <2>3
<1>8. CASE x.exc \in {"rt", "io"}
  <2>1. /\ y \in Transactions /\ y.noGzip = x.noGzip /\ y.exc = "no"
        /\ y.code = x.code /\ y.mode = x.mode /\ y.headerSent = x.headerSent
        /\ y.finished = x.finished /\ y.buffer = x.buffer /\ y.gzip = x.gzip
        /\ y.wire = x.wire /\ y.method = x.method
        /\ y.threw = x.threw /\ y.alive = x.alive
        /\ y.keep_alive = x.keep_alive /\ y.upgraded = x.upgraded
    BY <1>6, <1>8 DEF Transactions, Swallow
  <2>2. Sound(y) /\ Bounded(y)
    BY <1>1, <1>2, <1>4, <1>5, <1>8, <2>1
       DEF Ends, Sound, Bounded, Sent, Untold, Bodyless, Wrote, Kept, Same
  <2>3. Finishable(y)
    BY <1>2, <1>3, <1>4, <2>1, <2>2
       DEF Finishable, Ready, Wrote, Kept, Same, Headless
  <2>4. Finished(y, u)
    BY <2>1, <2>3, finishEnds
  <2>5. CASE y.finished
    <3>1. Ready(y)
      BY <1>3, <1>4, <2>1, <2>2, <2>5
         DEF Ready, Wrote, Kept, Same, Final, Headless, Sound, Untold
    <3> QED BY <1>5, <2>1, <2>4, <2>5, <3>1 DEF Finishes, Finished, Ends, Ready
  <2>6. CASE ~y.finished
    BY <1>5, <2>1, <2>4, <2>6 DEF Finishes, Finished, Ends, Ready, Same
  <2> QED BY <2>5, <2>6
<1> QED BY <1>7, <1>8

LEMMA forward_to_streamEnds ==
  ASSUME NEW t, Replaceable(t), NEW u \in forward_to_stream(t)
  PROVE  Ends(t, u) /\ Finishes(u)
<1>1. Ready(t)
  BY DEF Replaceable
<1>2. CASE t.headerSent
  BY <1>1, <1>2, ThrowEnds DEF forward_to_stream
<1>3. CASE ~t.headerSent
  <2> DEFINE Bodiless == UNION {finish([t EXCEPT !.code = c]) : c \in NoBody}
             Relayed == UNION {UNION {Relay(x, n) : n \in 0..MaxFile, x \in Upstream(t, code)} :
                                code \in UpstreamCodes}
  <2>1. forward_to_stream(t) =
          Throw(t, "io") \cup display_error([t EXCEPT !.code = 101], 502)
            \cup Bodiless \cup Relayed
    BY <1>3 DEF forward_to_stream
  <2>2. CASE u \in Throw(t, "io")
    BY <1>1, <2>2, ThrowEnds
  <2>3. CASE u \in display_error([t EXCEPT !.code = 101], 502)
    <3> DEFINE x == [t EXCEPT !.code = 101]
    <3>1. MayTake(t, 101) /\ 502 \in Codes \ NoBody
      BY DEF MayTake, Codes, NoBody
    <3>2. Ready(x) /\ Ends(t, x)
      BY <1>1, <3>1, CodeSet
    <3> HIDE DEF x
    <3>3. u \in display_error(x, 502)
      BY <2>3 DEF x
    <3> QED BY <3>1, <3>2, <3>3, display_errorEnds, EndsTwice
  <2>4. CASE u \in Bodiless
    <3>1. PICK c \in NoBody : u \in finish([t EXCEPT !.code = c])
      BY <2>4
    <3> DEFINE x == [t EXCEPT !.code = c]
    <3>2. MayTake(t, c)
      BY DEF MayTake, Codes, NoBody, Replaceable
    <3>3. Ready(x) /\ Ends(t, x)
      BY <1>1, <3>2, CodeSet
    <3> HIDE DEF x
    <3>4. u \in finish(x)
      BY <3>1 DEF x
    <3> QED BY <3>3, <3>4, finishLast, EndsTwice
  <2>5. CASE u \in Relayed
    <3>1. PICK c \in UpstreamCodes :
            u \in UNION {Relay(x, n) : n \in 0..MaxFile, x \in Upstream(t, c)}
      BY <2>5
    <3>2. PICK n \in 0..MaxFile, v \in Upstream(t, c) : u \in Relay(v, n)
      BY <3>1
    <3>3. PICK x \in Pieces(v, n) :
            IF Swallow(x).exc = "no" THEN u \in finish(Swallow(x)) ELSE u = Swallow(x)
      BY <3>2 DEF Relay, Then
    <3> QED BY <1>3, <3>3, SwallowsEnds
  <2> HIDE DEF Bodiless, Relayed
  <2> QED BY <2>1, <2>2, <2>3, <2>4, <2>5
<1> QED BY <1>2, <1>3

LEMMA forward_to_fcgiEnds ==
  ASSUME NEW t, Replaceable(t), NEW u \in forward_to_fcgi(t)
  PROVE  Ends(t, u) /\ Finishes(u)
<1>1. Ready(t) /\ t \in Transactions
  BY ReadyIs DEF Replaceable
<1>2. \/ u \in Throw(t, "io") \/ u \in Throw(t, "rt") \/ u \in display_error(t, 502)
      \/ \E y \in {[t EXCEPT !.code = c] : c \in NoBody}
                    \cup UNION {Pieces([t EXCEPT !.code = code], n) :
                                  n \in 0..MaxFile, code \in UpstreamCodes} :
           IF y.exc = "no" THEN u \in finish(y) \cup Throw(y, "io") \cup Throw(y, "rt")
           ELSE u = y
  BY DEF forward_to_fcgi, Then
<1>3. CASE u \in Throw(t, "io") \/ u \in Throw(t, "rt")
  BY <1>1, <1>3, ThrowEnds
<1>4. CASE u \in display_error(t, 502)
  BY <1>1, <1>4, display_errorEnds DEF Codes, NoBody
<1>5. ASSUME NEW y \in {[t EXCEPT !.code = c] : c \in NoBody}
                    \cup UNION {Pieces([t EXCEPT !.code = code], n) :
                                  n \in 0..MaxFile, code \in UpstreamCodes},
             IF y.exc = "no" THEN u \in finish(y) \cup Throw(y, "io") \cup Throw(y, "rt")
             ELSE u = y
      PROVE  Ends(t, u) /\ Finishes(u)
  <2>1. Ends(t, y)
    <3>1. CASE y \in {[t EXCEPT !.code = c] : c \in NoBody}
      <4>1. PICK c \in NoBody : y = [t EXCEPT !.code = c]
        BY <3>1
      <4>2. MayTake(t, c)
        BY DEF MayTake, Codes, NoBody, Replaceable
      <4> QED BY <1>1, <4>1, <4>2, CodeSet
    <3>2. CASE \E n \in 0..MaxFile, c \in UpstreamCodes : y \in Pieces([t EXCEPT !.code = c], n)
      <4>1. PICK n \in 0..MaxFile, c \in UpstreamCodes : y \in Pieces([t EXCEPT !.code = c], n)
        BY <3>2
      <4> DEFINE x == [t EXCEPT !.code = c]
      <4>2. MayTake(t, c) /\ c \notin NoBody /\ n \in Nat
        BY TransactionAssumption DEF MayTake, NoBody
      <4>3. Ready(x) /\ Ends(t, x) /\ Bodied(x)
        BY <1>1, <4>2, CodeSet DEF Bodied
      <4> HIDE DEF x
      <4>4. y \in Pieces(x, n)
        BY <4>1 DEF x
      <4> QED BY <4>2, <4>3, <4>4, PiecesEnd, EndsTwice
    <3> QED BY <1>5, <3>1, <3>2
  <2>2. CASE y.exc = "no"
    <3>1. Ready(y)
      BY <2>1, <2>2 DEF Ends
    <3>2. Ends(y, u) /\ Finishes(u)
      BY <1>5, <2>2, <3>1, finishLast, ThrowEnds
    <3> QED BY <2>1, <3>2, EndsTwice
  <2> QED BY <1>5, <2>1, <2>2 DEF Finishes
<1> QED BY <1>2, <1>3, <1>4, <1>5

LEMMA upgradeEnds ==
  ASSUME NEW t, Ready(t), NEW flush \in BOOLEAN, NEW u \in upgrade(t, flush)
  PROVE  Ends(t, u) /\ Finishes(u)
<1>1. CASE t.mode # "UNDECIDED" \/ t.gzip
  BY <1>1, ThrowEnds DEF upgrade
<1>2. CASE t.mode = "UNDECIDED" /\ ~t.gzip
  <2> DEFINE v == [t EXCEPT !.buffer = 0]
  <2>1. t \in Transactions /\ ~t.headerSent /\ ~t.finished /\ t.exc = "no"
        /\ t.wire.headers = 0 /\ t.wire.body = 0 /\ ~t.wire.ended
    BY <1>2, ReadyIs DEF Ready, Sound, Sent, Untold, Wires
  <2>2. /\ Kept(t, v) /\ v.exc = "no" /\ v.gzip = t.gzip /\ v.buffer = 0 /\ v.wire = t.wire
        /\ ~v.headerSent /\ v.mode = "UNDECIDED"
    BY <1>2, <2>1 DEF Same, Kept, Transactions
  <2>3. PICK x \in (IF flush THEN start_transfer(v, "UPGRADE")
                    ELSE {[v EXCEPT !.mode = "UPGRADE", !.headerSent = TRUE]}) :
          u = IF x.exc = "no" THEN [x EXCEPT !.finished = TRUE, !.upgraded = TRUE] ELSE x
    BY <1>2 DEF upgrade, Then
  <2> HIDE DEF v
  <2>4. /\ Kept(t, x) /\ x.mode = "UPGRADE" /\ x.gzip = t.gzip /\ x.buffer = 0
        /\ \/ x.exc \in {"io", "null"} /\ ~x.headerSent /\ x.wire = t.wire
              /\ (x.exc = "io" => ~x.alive) /\ (x.exc = "null" => t.code \notin Codes)
           \/ /\ x.exc = "no" /\ x.headerSent
              /\ \/ x.wire = t.wire
                 \/ x.wire.headers = 1 /\ x.wire.keep = t.keep_alive
    <3>1. CASE flush
      <4>1. v \in Transactions /\ "UPGRADE" \in Modes /\ v.wire.headers = 0
        BY <2>1, <2>2 DEF Same, Kept, Modes
      <4>2. x \in start_transfer(v, "UPGRADE")
        BY <2>3, <3>1
      <4> QED BY <2>2, <4>1, <4>2, StartIs DEF Same, Kept
    <3>2. CASE ~flush
      <4>1. x = [v EXCEPT !.mode = "UPGRADE", !.headerSent = TRUE]
        BY <2>3, <3>2
      <4> QED BY <2>2, <4>1 DEF Same, Kept, Transactions, Modes
    <3> QED BY <3>1, <3>2
  <2>5. CASE x.exc # "no"
    BY <1>2, <2>1, <2>3, <2>4, <2>5
       DEF Finishes, Ends, Ready, Sound, Bounded, Sent, Untold, Bodyless, Same, Kept
  <2>6. CASE x.exc = "no"
    <3>1. /\ u \in Transactions /\ u.method = x.method /\ u.noGzip = x.noGzip
          /\ u.code = x.code /\ u.threw = x.threw /\ u.keep_alive = x.keep_alive
          /\ u.mode = x.mode /\ u.headerSent = x.headerSent /\ u.wire = x.wire
          /\ u.exc = x.exc /\ u.gzip = x.gzip /\ u.buffer = x.buffer
          /\ u.finished /\ u.upgraded
      <4>1. x \in Transactions /\ u = [x EXCEPT !.finished = TRUE, !.upgraded = TRUE]
        BY <2>3, <2>4, <2>6 DEF Kept, Same
      <4> QED BY <4>1 DEF Transactions
    <3>2. Sound(u) /\ Bounded(u) /\ Final(u)
      BY <1>2, <2>1, <2>4, <2>6, <3>1, TransactionAssumption
         DEF Sound, Bounded, Sent, Untold, Bodyless, Same, Kept, Final
    <3> QED BY <2>1, <2>4, <2>6, <3>1, <3>2 DEF Finishes, Ends, Ready, Same, Kept
  <2> QED BY <2>5, <2>6
<1> QED BY <1>1, <1>2

LEMMA accept_websocketEnds ==
  ASSUME NEW t, Ready(t), NEW u \in accept_websocket(t)
  PROVE  Ends(t, u) /\ Finishes(u)
<1>1. MayTake(t, 101) /\ 405 \in Codes \ NoBody
  BY DEF MayTake, Codes, NoBody
<1>2. CASE t.method # "GET"
  <2>1. PICK x \in display_error(t, 405) :
          IF x.exc = "no" THEN u \in Throw(x, "rt") ELSE u = x
    BY <1>2 DEF accept_websocket, Then
  <2>2. Ends(t, x)
    BY <1>1, <2>1, display_errorEnds
  <2>3. CASE x.exc = "no"
    BY <2>1, <2>2, <2>3, ThrowEnds, EndsTwice DEF Ends
  <2> QED BY <2>1, <2>2, <2>3 DEF Finishes
<1>3. CASE t.method = "GET"
  <2>1. CASE u \in Throw(t, "rt")
    BY <2>1, ThrowEnds
  <2>2. CASE \E x \in get_response(t, 101) :
               IF x.exc = "no" THEN u \in upgrade(x, TRUE) ELSE u = x
    <3>1. PICK x \in get_response(t, 101) :
               IF x.exc = "no" THEN u \in upgrade(x, TRUE) ELSE u = x
      BY <2>2
    <3>2. Ends(t, x)
      BY <1>1, <3>1, get_responseEnds
    <3>3. CASE x.exc = "no"
      BY <3>1, <3>2, <3>3, upgradeEnds, EndsTwice DEF Ends
    <3> QED BY <3>1, <3>2, <3>3 DEF Finishes
  <2> QED BY <1>3, <2>1, <2>2 DEF accept_websocket, Then
<1> QED BY <1>2, <1>3

-----------------------------------------------------------------------------
(* A connection that broke before the header.                              *)

Broken(t) ==
  t \in Transactions /\ ~t.alive /\ ~t.headerSent /\ t.wire.headers = 0 /\ t.exc = "no"

\* Nothing reaches the client any more.
Stays(t, u) ==
  /\ u \in Transactions /\ ~u.alive /\ ~u.headerSent /\ u.wire = t.wire
  /\ u.method = t.method /\ u.threw = t.threw /\ u.code = t.code
  /\ u.exc = "null" => u.code \notin Codes

LEMMA StaysBroken ==
  ASSUME NEW t, Broken(t), NEW x, Stays(t, x)
  PROVE  /\ x.exc = "no" => Broken(x)
         /\ \A u : Stays(x, u) => Stays(t, u)
BY DEF Broken, Stays

LEMMA SendBodyStays ==
  ASSUME NEW t, Broken(t), NEW n, NEW u \in SendBody(t, n)
  PROVE  Stays(t, u)
<1>1. u = [t EXCEPT !.alive = FALSE, !.exc = "io"] /\ t \in Transactions
  BY SendBodyIs DEF Broken
<1> QED BY <1>1 DEF Broken, Stays, Transactions

LEMMA StartStays ==
  ASSUME NEW t, Broken(t), NEW m \in Modes, NEW u \in start_transfer(t, m)
  PROVE  Stays(t, u) /\ u.exc # "no"
<1>1. /\ Kept(t, u)
      /\ \/ u.exc = "io" /\ ~u.alive /\ ~u.headerSent /\ u.wire = t.wire
         \/ u.exc = "null" /\ t.code \notin Codes /\ ~u.headerSent /\ u.wire = t.wire
  BY StartIs DEF Broken
<1>2. ~u.alive
  <2>1. CASE t.code \notin Codes
    <3>1. \E x \in Throw([t EXCEPT !.mode = m], "null") :
            u = IF x.exc = "no" THEN [x EXCEPT !.headerSent = TRUE] ELSE x
      BY <2>1 DEF start_transfer, Then, Broken, Transactions
    <3>2. u = [[t EXCEPT !.mode = m] EXCEPT !.exc = "null"]
      BY <3>1 DEF Throw, Broken, Transactions
    <3> QED BY <3>2 DEF Broken, Transactions
  <2>2. CASE t.code \in Codes
    BY <1>1, <2>2
  <2> QED BY <2>1, <2>2
<1> QED BY <1>1, <1>2 DEF Stays, Kept, Same

LEMMA transferStays ==
  ASSUME NEW t, Broken(t), NEW n \in Nat, NEW u \in transfer(t, n)
  PROVE  Stays(t, u)
<1>1. CASE t.mode \in {"SIMPLE", "CHUNKED"}
  BY <1>1, SendBodyStays DEF transfer
<1>2. CASE t.mode \notin {"SIMPLE", "CHUNKED", "UNDECIDED"}
  <2>1. u = t
    BY <1>2 DEF transfer
  <2> QED BY <2>1 DEF Stays, Broken
<1>3. CASE t.mode = "UNDECIDED"
  <2> DEFINE v == [t EXCEPT !.buffer = @ + n]
  <2>1. Broken(v) /\ Stays(t, v)
    BY DEF Broken, Stays, Transactions
  <2>2. CASE v.buffer <= ChunkMin
    <3>1. u = v
      BY <1>3, <2>2 DEF transfer
    <3> QED BY <2>1, <3>1
  <2>3. CASE ~(v.buffer <= ChunkMin)
    <3>1. u \in Then(Then(start_transfer(v, "CHUNKED"),
                          LAMBDA x : SendBody(x, x.buffer)),
                     LAMBDA x : {[x EXCEPT !.buffer = 0]})
      BY <1>3, <2>3 DEF transfer
    <3> HIDE DEF v
    <3>2. PICK x \in start_transfer(v, "CHUNKED") : x.exc # "no" => u = x
      BY <3>1 DEF Then
    <3>3. Stays(v, x) /\ x.exc # "no"
      BY <2>1, <3>2, StartStays DEF Modes
    <3> QED BY <2>1, <3>2, <3>3 DEF Stays
  <2> QED BY <2>2, <2>3
<1> QED BY <1>1, <1>2, <1>3

LEMMA deflateStays ==
  ASSUME NEW t, Broken(t), NEW n \in Nat, NEW u \in deflate(t, n)
  PROVE  Stays(t, u)
<1>1. CASE u = t
  BY <1>1 DEF Stays, Broken
<1>2. CASE \E k \in 1..n : u \in transfer(t, k)
  <2>1. PICK k \in Nat : u \in transfer(t, k)
    BY <1>2
  <2> QED BY <2>1, transferStays
<1> QED BY <1>1, <1>2 DEF deflate

LEMMA writeStays ==
  ASSUME NEW t, Broken(t), NEW n \in Nat, n # 0, NEW u \in write(t, n)
  PROVE  Stays(t, u)
<1>1. CASE t.finished
  <2>1. u = [t EXCEPT !.exc = "rt"]
    BY <1>1 DEF write, Throw
  <2> QED BY <2>1 DEF Broken, Stays, Transactions
<1>2. CASE ~t.finished /\ t.gzip
  BY <1>2, deflateStays DEF write
<1>3. CASE ~t.finished /\ n # 0 /\ ~t.gzip
  <2>1. PICK x \in transfer(t, n) :
          \/ u = x
          \/ /\ x.exc = "no" /\ x.mode = "UNDECIDED" /\ ~x.noGzip
             /\ u \in deflate([x EXCEPT !.gzip = TRUE, !.buffer = 0], x.buffer)
    BY <1>3 DEF write, Then
  <2>2. Stays(t, x)
    BY <2>1, transferStays
  <2>3. CASE u = x
    BY <2>2, <2>3
  <2>4. CASE x.exc = "no" /\ u \in deflate([x EXCEPT !.gzip = TRUE, !.buffer = 0], x.buffer)
    <3> DEFINE y == [x EXCEPT !.gzip = TRUE, !.buffer = 0]
    <3>1. Broken(x) /\ x.buffer \in Nat
      BY <2>2, <2>4, StaysBroken DEF Stays, Transactions
    <3>2. Broken(y) /\ Stays(x, y)
      BY <3>1 DEF Broken, Stays, Transactions
    <3> HIDE DEF y
    <3>3. Stays(y, u)
      BY <2>4, <3>1, <3>2, deflateStays DEF y
    <3> QED BY <2>2, <3>1, <3>2, <3>3, StaysBroken
  <2> QED BY <2>1, <2>3, <2>4
<1> QED BY <1>1, <1>2, <1>3

LEMMA SendRestStays ==
  ASSUME NEW t, Broken(t), NEW u \in SendRest(t)
  PROVE  Stays(t, u)
<1>1. CASE t.mode = "CHUNKED"
  <2>1. u = [t EXCEPT !.alive = FALSE, !.exc = "io"]
    BY <1>1, SendIs DEF SendRest, Broken
  <2> QED BY <2>1 DEF Broken, Stays, Transactions
<1>2. CASE t.mode # "CHUNKED" /\ t.code \in NoBody
  BY <1>2, StartStays DEF SendRest, Modes
<1>3. CASE t.mode \notin {"CHUNKED", "UNDECIDED"} /\ t.code \notin NoBody
  <2>1. u = t
    BY <1>3 DEF SendRest
  <2> QED BY <2>1 DEF Stays, Broken
<1>4. CASE t.mode = "UNDECIDED" /\ t.code \notin NoBody
  <2> DEFINE v == [t EXCEPT !.length = t.buffer]
  <2>1. Broken(v) /\ Stays(t, v)
    BY DEF Broken, Stays, Transactions
  <2> HIDE DEF v
  <2>2. PICK x \in start_transfer(v, "SIMPLE") : x.exc # "no" => u = x
    BY <1>4 DEF SendRest, Then, v
  <2>3. Stays(v, x) /\ x.exc # "no"
    BY <2>1, <2>2, StartStays DEF Modes
  <2> QED BY <2>1, <2>2, <2>3 DEF Stays
<1> QED BY <1>1, <1>2, <1>3, <1>4

LEMMA finishStays ==
  ASSUME NEW t, Broken(t), NEW u \in finish(t)
  PROVE  Stays(t, u)
<1>1. CASE t.finished
  BY <1>1 DEF finish, Stays, Broken
<1>2. CASE ~t.finished
  <2>1. \E x \in (IF t.gzip THEN transfer(t, 1) ELSE {t}) :
          \/ x.exc # "no" /\ u = x
          \/ /\ x.exc = "no"
             /\ \E y \in SendRest(x) :
                  u = IF y.exc = "no" THEN [y EXCEPT !.finished = TRUE] ELSE y
    BY <1>2 DEF finish, Then
  <2>2. PICK x \in (IF t.gzip THEN transfer(t, 1) ELSE {t}) :
          \/ x.exc # "no" /\ u = x
          \/ /\ x.exc = "no"
             /\ \E y \in SendRest(x) :
                  u = IF y.exc = "no" THEN [y EXCEPT !.finished = TRUE] ELSE y
    BY <2>1
  <2>3. Stays(t, x)
    BY <2>2, transferStays DEF Stays, Broken
  <2>4. CASE x.exc # "no" /\ u = x
    BY <2>3, <2>4
  <2>5. CASE x.exc = "no" /\ \E y \in SendRest(x) :
                  u = IF y.exc = "no" THEN [y EXCEPT !.finished = TRUE] ELSE y
    <3>1. PICK y \in SendRest(x) : u = IF y.exc = "no" THEN [y EXCEPT !.finished = TRUE] ELSE y
      BY <2>5
    <3>2. Broken(x)
      BY <2>3, <2>5, StaysBroken
    <3>3. Stays(x, y)
      BY <3>1, <3>2, SendRestStays
    <3>4. Stays(x, u)
      <4>1. CASE y.exc = "no"
        BY <3>1, <3>3, <4>1 DEF Stays, Transactions
      <4> QED BY <3>1, <3>3, <4>1
    <3> QED BY <2>3, <3>4, StaysBroken
  <2> QED BY <2>2, <2>4, <2>5
<1> QED BY <1>1, <1>2

-----------------------------------------------------------------------------
(* The invariant.                                                          *)

\* The transaction from which the loop starts.
FirstTx == [New("GET", TRUE, TRUE) EXCEPT !.wire =
              [NoWire EXCEPT !.headers = 1, !.framing = "nobody", !.keep = TRUE]]
First(t) == t \in {FirstTx, [FirstTx EXCEPT !.strm = FALSE, !.keep_alive = FALSE]}

Answered(t) ==
  t.threw /\ t.alive /\ t.method # "HEAD" => t.wire.headers = 1 /\ t.wire.code = 500

\* A request that has been served, or could not be.
Over(t) ==
  /\ t \in Transactions /\ Bounded(t) /\ Answered(t)
  /\ t.wire.headers = 0 => t.wire.body = 0 /\ ~t.wire.ended
  /\ t.exc = "null" => t.code \notin Codes

\* Another request may follow it on the connection.
Complete(t) ==
  /\ t.exc = "no"
  /\ t.strm /\ t.alive => Sound(t) /\ t.finished /\ Final(t)

ConnInv ==
  /\ phase \in {"idle", "serving", "closed"} /\ calls \in 0..MaxCalls
  /\ phase = "serving" => Ready(tx) /\ ~tx.threw
  /\ phase # "serving" => First(tx) \/ Over(tx)
  /\ phase = "idle" => First(tx) \/ Complete(tx)
-----------------------------------------------------------------------------
(* invoke_service.                                                         *)

\* What is left of a transaction when the service is through with it.
Served(t, u) ==
  /\ Over(u) /\ (u.exc = "no" => Complete(u))
  /\ t.finished => u.wire = t.wire

LEMMA EndsOver ==
  ASSUME NEW t, NEW u, Ends(t, u), ~t.threw
  PROVE  Over(u)
BY DEF Ends, Over, Answered, Sound, Sent

\* The page of the catch blocks is the answer, or there is none to give it to.
LEMMA ErrorPageAnswers ==
  ASSUME NEW t, Sound(t), Bounded(t), t.exc \in {"rt", "io"}, ~t.headerSent,
         NEW u \in ErrorPage([t EXCEPT !.exc = "no", !.threw = TRUE])
  PROVE  Served(t, u)
<1> DEFINE v == [t EXCEPT !.exc = "no", !.threw = TRUE]
           x == [v EXCEPT !.code = 500]
<1>1. t \in Transactions /\ t.wire.headers = 0 /\ t.wire.body = 0 /\ ~t.wire.ended
  BY DEF Sound, Sent, Transactions, Wires
<1>2. /\ x \in Transactions /\ x.noGzip = t.noGzip /\ x.exc = "no"
      /\ x.code = 500 /\ x.mode = t.mode /\ ~x.headerSent
      /\ x.finished = t.finished /\ x.buffer = t.buffer /\ x.gzip = t.gzip
      /\ x.wire = t.wire /\ x.method = t.method
      /\ x.threw /\ x.alive = t.alive
      /\ x.keep_alive = t.keep_alive /\ x.upgraded = t.upgraded
  <2>1. /\ v \in Transactions /\ v.noGzip = t.noGzip /\ v.exc = "no"
        /\ v.mode = t.mode /\ v.headerSent = t.headerSent
        /\ v.finished = t.finished /\ v.buffer = t.buffer /\ v.gzip = t.gzip
        /\ v.wire = t.wire /\ v.method = t.method
        /\ v.threw /\ v.alive = t.alive
        /\ v.keep_alive = t.keep_alive /\ v.upgraded = t.upgraded
    BY <1>1 DEF Transactions
  <2>2. 500 \in Codes \cup UpstreamCodes
    BY DEF Codes
  <2> HIDE DEF v
  <2> QED BY <2>1, <2>2 DEF Transactions
<1>3. PICK n \in 1..2 : \E y \in write(x, n) : IF y.exc = "no" THEN u \in finish(y) ELSE u = y
  <2>1. v.headerSent = FALSE /\ x.exc = "no"
    BY <1>1, <1>2 DEF Transactions
  <2>2. get_response(v, 500) = {x}
    BY <2>1 DEF get_response
  <2>3. u \in Then(Then({x}, LAMBDA y : UNION {write(y, n) : n \in 1..2}), finish)
    BY ZenonT(30), <2>2 DEF ErrorPage
  <2> HIDE DEF x
  <2> QED BY <2>1, <2>3 DEF Then
<1> HIDE DEF v, x
<1>4. PICK y \in write(x, n) : IF y.exc = "no" THEN u \in finish(y) ELSE u = y
  BY <1>3
<1>5. n \in Nat /\ n # 0 /\ x.code \in Codes \ NoBody
  BY <1>2 DEF Codes, NoBody
<1>6. CASE ~t.alive
  <2>1. Broken(x)
    BY <1>1, <1>2, <1>6 DEF Broken
  <2>2. Stays(x, y)
    BY <1>4, <1>5, <2>1, writeStays
  <2>3. Stays(x, u)
    <3>1. CASE y.exc = "no"
      BY <1>4, <2>1, <2>2, <3>1, StaysBroken, finishStays
    <3> QED BY <1>4, <2>2, <3>1
  <2> QED BY <1>1, <1>2, <2>3 DEF Stays, Served, Over, Complete, Answered, Bounded
<1>7. CASE t.alive
  <2>1. Writable(x) /\ (x.mode = "UNDECIDED" \/ Headless(x)) /\ (x.finished => Headless(x))
        /\ ~x.upgraded
    BY <1>1, <1>2, <1>5, <1>7
       DEF Writable, Sound, Bounded, Sent, Untold, Bodyless, Headless
  <2>2. Wrote(x, y)
    BY <1>4, <1>5, <2>1, writeKeeps
  <2>3. CASE y.exc # "no"
    <3>1. u = y
      BY <1>4, <2>3
    <3>2. Answered(u)
      BY <1>5, <2>1, <2>2, <2>3, <3>1
         DEF Answered, Wrote, Kept, Same, Sound, Headless, Transactions
    <3> QED BY <1>2, <2>2, <2>3, <3>1, <3>2 DEF Served, Over, Wrote, Sound, Sent
  <2>4. CASE y.exc = "no"
    <3>1. ~x.finished /\ ~y.finished
      <4>1. CASE x.finished
        <5>1. y = [x EXCEPT !.exc = "rt"]
          BY <1>4, <4>1 DEF write, Throw
        <5> QED BY <1>2, <2>4, <5>1 DEF Transactions
      <4> QED BY <2>2, <4>1 DEF Wrote, Kept
    <3>2. Finishable(y)
      BY <1>2, <2>1, <2>2, <2>4 DEF Finishable, Wrote, Kept, Same, Headless
    <3>3. Finished(y, u) /\ ~y.finished
      BY <1>4, <2>4, <3>1, <3>2, finishEnds
    <3>4. Answered(u)
      <4>1. /\ u.code = 500 /\ u.upgraded = FALSE /\ Sound(u)
            /\ u.wire.headers = 1 => u.wire.code = 500
        BY <1>1, <1>2, <2>1, <2>2, <3>3 DEF Finished, Same, Told, Wrote, Kept, Transactions
      <4>2. u.exc = "no" => u.headerSent \/ Headless(u)
        BY <3>3 DEF Finished
      <4>3. u.exc # "no" => ~u.alive
        BY <1>5, <3>3, <4>1, <1>2 DEF Finished, Sound, Transactions
      <4> QED BY <4>1, <4>2, <4>3 DEF Answered, Sound, Sent, Headless
    <3> QED BY <1>2, <3>1, <3>3, <3>4 DEF Served, Over, Complete, Finished, Sound, Sent
  <2> QED BY <2>3, <2>4
<1> QED BY <1>1, <1>6, <1>7 DEF Transactions

LEMMA CaughtServed ==
  ASSUME NEW t, Sound(t), Bounded(t), ~t.threw, t.exc \in {"rt", "io"}, NEW u \in Caught(t)
  PROVE  Served(t, u)
<1>1. CASE t.headerSent
  <2>1. u = [t EXCEPT !.exc = "no", !.strm = FALSE] /\ t \in Transactions
    BY <1>1 DEF Caught, Sound
  <2>2. /\ u \in Transactions /\ u.exc = "no" /\ ~u.strm /\ u.threw = t.threw
        /\ u.wire = t.wire /\ u.alive = t.alive /\ u.buffer = t.buffer
    BY <2>1 DEF Transactions
  <2> QED BY <2>2 DEF Served, Over, Complete, Answered, Bounded, Sound, Sent
<1>2. CASE ~t.headerSent
  BY <1>2, ErrorPageAnswers DEF Caught
<1> QED BY <1>1, <1>2

LEMMA ConcludeServes ==
  ASSUME NEW t, NEW x, Ends(t, x), ~t.threw, NEW u \in Conclude({x})
  PROVE  Served(t, u)
<1>1. u \in IF x.exc \in {"rt", "io"} THEN Caught(x)
            ELSE IF x.exc = "no" THEN finish(x) ELSE {x}
  BY DEF Conclude
<1>2. CASE x.exc \in {"rt", "io"}
  <2>1. Served(x, u)
    BY <1>1, <1>2, CaughtServed DEF Ends
  <2> QED BY <2>1 DEF Served, Ends
<1>3. CASE x.exc = "no"
  <2>1. Ends(x, u) /\ (u.exc = "no" => u.finished)
    BY <1>1, <1>3, finishLast DEF Ends, Finishes
  <2>2. Ends(t, u)
    BY <2>1, EndsTwice
  <2>3. u.exc = "no" => Complete(u)
    BY <2>1 DEF Ends, Ready, Complete
  <2> QED BY <2>2, <2>3, EndsOver DEF Served, Ends
<1>4. CASE x.exc \notin {"rt", "io", "no"}
  BY <1>1, <1>4, EndsOver DEF Served, Ends
<1> QED BY <1>2, <1>3, <1>4
-----------------------------------------------------------------------------
(* The actions.                                                            *)

Silent == tx.finished /\ phase = "serving" => tx'.wire = tx.wire

LEMMA NewReady ==
  ASSUME NEW method \in Methods, NEW noGzip \in BOOLEAN, NEW keep \in BOOLEAN,
         NEW t, t = New(method, noGzip, keep) \/ t = [New(method, noGzip, keep) EXCEPT !.mode = "UNDECIDED"]
  PROVE  Ready(t) /\ ~t.threw
<1>1. NoWire \in Wires /\ NoLength \in Nat
  BY TransactionAssumption DEF NoWire, Wires, NoLength
<1> DEFINE w == NoWire
<1>2. w \in Wires /\ w.headers = 0 /\ w.body = 0 /\ ~w.ended
  BY <1>1 DEF NoWire
<1> HIDE DEF w
<1>3. /\ t \in Transactions /\ t.method = method /\ ~t.gzip
      /\ t.mode = "UNDECIDED" \/ Headless(t)
      /\ ~t.headerSent /\ ~t.finished /\ t.buffer = 0 /\ t.code = 200
      /\ t.wire = w /\ t.exc = "no" /\ ~t.threw /\ ~t.upgraded
  <2>1. New(method, noGzip, keep) =
          [method |-> method, noGzip |-> noGzip, gzip |-> FALSE,
           mode |-> IF method = "HEAD" THEN "HEADONLY" ELSE "UNDECIDED",
           headerSent |-> FALSE, finished |-> FALSE, buffer |-> 0,
           code |-> 200, length |-> NoLength, wire |-> w, exc |-> "no",
           threw |-> FALSE,
           strm |-> TRUE, alive |-> TRUE, keep_alive |-> keep, upgraded |-> FALSE]
    BY DEF New, w
  <2> DEFINE n == New(method, noGzip, keep)
  <2>2. /\ n \in Transactions /\ n.method = method /\ ~n.gzip
        /\ n.mode = IF method = "HEAD" THEN "HEADONLY" ELSE "UNDECIDED"
        /\ ~n.headerSent /\ ~n.finished /\ n.buffer = 0 /\ n.code = 200
        /\ n.wire = w /\ n.exc = "no" /\ ~n.threw /\ ~n.upgraded
    BY <1>1, <1>2, <2>1 DEF Transactions, Modes, Codes
  <2>3. t = n \/ t = [n EXCEPT !.mode = "UNDECIDED"]
    OBVIOUS
  <2> HIDE DEF n
  <2>4. CASE t = n
    BY <2>2, <2>4 DEF Headless
  <2>5. CASE t = [n EXCEPT !.mode = "UNDECIDED"]
    BY <2>2, <2>5 DEF Transactions, Modes
  <2> QED BY <2>3, <2>4, <2>5
<1> QED BY <1>2, <1>3, TransactionAssumption
        DEF Ready, Sound, Bounded, Sent, Untold, Bodyless, NoBody, Headless

LEMMA ReturnKeeps ==
  ASSUME ConnInv, phase = "serving", NEW u, Served(tx, u), Return(u)
  PROVE  ConnInv' /\ Silent
<1>1. CASE u.exc = "no"
  BY <1>1 DEF ConnInv, Return, Served, Silent
<1>2. CASE u.exc # "no"
  BY <1>2 DEF ConnInv, Return, Close, Served, Silent
<1> QED BY <1>1, <1>2

LEMMA CallsKeep ==
  ASSUME ConnInv, NEW S, \A u \in S : Ends(tx, u), Calls(S)
  PROVE  ConnInv' /\ Silent
<1>1. /\ phase = "serving" /\ calls < MaxCalls /\ calls \in Nat /\ MaxCalls \in Nat
      /\ Ready(tx) /\ ~tx.threw
  BY ConnectionAssumption DEF Calls, ConnInv
<1>2. PICK t \in S :
       IF t.exc = "no"
       THEN tx' = t /\ calls' = calls + 1 /\ UNCHANGED phase
       ELSE \E u \in Conclude({t}) : Return(u)
  BY DEF Calls
<1>3. CASE t.exc = "no"
  <2>1. Ready(t) /\ ~t.threw /\ (tx.finished => t.wire = tx.wire)
    BY <1>1, <1>2, <1>3 DEF Ends
  <2> QED BY <1>1, <1>2, <1>3, <2>1 DEF ConnInv, Silent
<1>4. CASE t.exc # "no"
  <2>1. PICK u \in Conclude({t}) : Return(u)
    BY <1>2, <1>4
  <2>2. Served(tx, u)
    BY <1>1, <1>2, <2>1, ConcludeServes
  <2> QED BY <1>1, <2>1, <2>2, ReturnKeeps
<1> QED BY <1>3, <1>4

LEMMA NextRequestKeeps ==
  ASSUME ConnInv, NEW method \in Methods, NEW keep \in BOOLEAN, NextRequest(method, keep)
  PROVE  ConnInv' /\ Silent
<1>1. PICK noGzip \in BOOLEAN :
       \/ /\ phase' = "serving" /\ calls' = 0
          /\ tx' = New(method, noGzip, keep)
       \/ \E u \in display_error([New(method, noGzip, keep) EXCEPT !.mode = "UNDECIDED"], 413) :
            Close(u)
       \/ Close(New(method, noGzip, keep))
  BY DEF NextRequest
<1> DEFINE t == New(method, noGzip, keep)
           v == [t EXCEPT !.mode = "UNDECIDED"]
<1>2. phase = "idle" /\ Ready(t) /\ ~t.threw /\ Ready(v) /\ ~v.threw /\ MaxCalls \in Nat
  BY NewReady, ConnectionAssumption DEF NextRequest
<1> HIDE DEF t, v
<1>3. CASE phase' = "serving" /\ calls' = 0 /\ tx' = t
  BY <1>2, <1>3 DEF ConnInv, Silent
<1>4. CASE \E u \in display_error(v, 413) : Close(u)
  <2>1. PICK u \in display_error(v, 413) : Close(u)
    BY <1>4
  <2>2. Over(u)
    BY <1>2, <2>1, display_errorEnds, EndsOver DEF Codes, NoBody
  <2> QED BY <1>2, <2>1, <2>2 DEF ConnInv, Close, Silent
<1>5. CASE Close(t)
  BY <1>2, <1>5, ReadyIs, EndsOver DEF ConnInv, Close, Silent
<1> QED BY <1>1, <1>3, <1>4, <1>5 DEF t, v

LEMMA CloseIdleKeeps ==
  ASSUME ConnInv, CloseIdle
  PROVE  ConnInv' /\ Silent
<1> DEFINE u == [tx EXCEPT !.strm = FALSE, !.keep_alive = FALSE]
<1>1. phase = "idle" /\ phase' = "closed" /\ tx' = u /\ calls' = calls
  BY DEF CloseIdle, Close
<1>2. First(u) \/ Over(u)
  <2>1. CASE First(tx)
    BY ZenonT(30), <2>1 DEF First, FirstTx, New
  <2>2. CASE Over(tx)
    <3>1. tx \in Transactions
      BY <2>2 DEF Over
    <3>2. /\ u \in Transactions /\ u.exc = tx.exc /\ u.threw = tx.threw /\ u.alive = tx.alive
          /\ u.method = tx.method /\ u.wire = tx.wire /\ u.buffer = tx.buffer
          /\ u.code = tx.code
      BY <3>1 DEF Transactions
    <3> QED BY <2>2, <3>2 DEF Over, Answered, Bounded
  <2> QED BY <1>1, <2>1, <2>2 DEF ConnInv
<1> HIDE DEF u
<1> QED BY <1>1, <1>2 DEF ConnInv, Silent

LEMMA BadRequestKeeps ==
  ASSUME ConnInv, BadRequest
  PROVE  ConnInv' /\ Silent
<1>1. phase = "serving" /\ Ready(tx) /\ ~tx.threw
  BY DEF BadRequest, ConnInv
<1>2. PICK t \in display_error(tx, 400) :
       IF t.exc = "no" THEN Close([t EXCEPT !.strm = FALSE])
       ELSE \E u \in Caught(t) : Return(u)
  BY DEF BadRequest
<1>3. Ends(tx, t) /\ t.exc # "null" /\ t \in Transactions
  BY <1>1, <1>2, display_errorEnds DEF Codes, NoBody, Ends, Sound
<1>4. CASE t.exc = "no"
  <2> DEFINE u == [t EXCEPT !.strm = FALSE]
  <2>1. /\ u \in Transactions /\ u.exc = t.exc /\ u.threw = t.threw /\ u.alive = t.alive
        /\ u.method = t.method /\ u.wire = t.wire /\ u.buffer = t.buffer
        /\ u.code = t.code
    BY <1>3 DEF Transactions
  <2>2. Over(u)
    BY <1>1, <1>3, <2>1, EndsOver DEF Over, Answered, Bounded
  <2>3. Close(u)
    BY <1>2, <1>4
  <2> HIDE DEF u
  <2> QED BY <1>1, <1>3, <2>1, <2>2, <2>3 DEF ConnInv, Close, Silent, Ends
<1>5. CASE t.exc # "no"
  <2>1. PICK u \in Caught(t) : Return(u)
    BY <1>2, <1>5
  <2>2. t.exc \in {"rt", "io"}
    BY <1>3, <1>5 DEF Transactions
  <2>3. Served(t, u)
    BY <1>1, <1>3, <2>1, <2>2, CaughtServed DEF Ends
  <2>4. Served(tx, u)
    BY <1>3, <2>3 DEF Served, Ends
  <2> QED BY <1>1, <2>1, <2>4, ReturnKeeps
<1> QED BY <1>4, <1>5

\* The service returns, without an answer or with one.
LEMMA ServiceReturnsKeeps ==
  ASSUME ConnInv, ServiceReturns
  PROVE  ConnInv' /\ Silent
<1>1. phase = "serving" /\ Ready(tx) /\ ~tx.threw
  BY DEF ServiceReturns, ConnInv
<1>2. PICK u \in Conclude(IF tx.headerSent THEN {tx} ELSE display_error(tx, 404)) : Return(u)
  BY DEF ServiceReturns
<1>3. PICK x \in (IF tx.headerSent THEN {tx} ELSE display_error(tx, 404)) : u \in Conclude({x})
  BY <1>2 DEF Conclude
<1>4. Ends(tx, x)
  BY <1>1, <1>3, ReadyIs, display_errorEnds DEF Codes, NoBody
<1>5. Served(tx, u)
  BY <1>1, <1>3, <1>4, ConcludeServes
<1> QED BY <1>1, <1>2, <1>5, ReturnKeeps

LEMMA ServiceThrowsKeeps ==
  ASSUME ConnInv, ServiceThrows
  PROVE  ConnInv' /\ Silent
<1>1. phase = "serving" /\ Ready(tx) /\ ~tx.threw
  BY DEF ServiceThrows, ConnInv
<1>2. PICK u \in Conclude(Throw(tx, "rt")) : Return(u)
  BY DEF ServiceThrows
<1>3. PICK x \in Throw(tx, "rt") : u \in Conclude({x})
  BY <1>2 DEF Conclude
<1>4. Served(tx, u)
  BY <1>1, <1>3, ThrowEnds, ConcludeServes
<1> QED BY <1>1, <1>2, <1>4, ReturnKeeps

-----------------------------------------------------------------------------
(* Theorems.                                                               *)

LEMMA ConnInit == Init => ConnInv
BY ConnectionAssumption DEF Init, ConnInv, First, FirstTx, New

LEMMA ConnStep == ConnInv /\ [Next]_vars => ConnInv' /\ (Silent \/ UNCHANGED vars)
<1> SUFFICES ASSUME ConnInv, [Next]_vars PROVE ConnInv' /\ (Silent \/ UNCHANGED vars)
  OBVIOUS
<1>1. phase = "serving" => Ready(tx)
  BY DEF ConnInv
<1>2. CASE \E method \in Methods, keep \in BOOLEAN : NextRequest(method, keep)
  BY <1>2, NextRequestKeeps
<1>3. CASE CloseIdle
  BY <1>3, CloseIdleKeeps
<1>4. CASE BadRequest
  BY <1>4, BadRequestKeeps
<1>5. CASE ServiceReturns
  BY <1>5, ServiceReturnsKeeps
<1>6. CASE ServiceThrows
  BY <1>6, ServiceThrowsKeeps
<1>7. CASE ServiceWrites
  <2>1. PICK n \in 1..2 : Calls(write(tx, n))
    BY <1>7 DEF ServiceWrites
  <2>2. Ready(tx) /\ Bodied(tx) /\ n \in Nat
    BY <1>1, <1>7, <2>1 DEF ServiceWrites, MayHaveBody, Bodied, Calls
  <2>3. \A u \in write(tx, n) : Ends(tx, u)
    BY <2>2, writeEnds
  <2> QED BY <2>1, <2>3, CallsKeep
<1>8. CASE ServiceFinishes
  <2>1. \A u \in finish(tx) : Ends(tx, u)
    BY <1>1, <1>8, finishLast DEF ServiceFinishes, Calls
  <2> QED BY <1>8, <2>1, CallsKeep DEF ServiceFinishes
<1>9. CASE ServiceSetsCode
  <2>1. PICK c \in {200, 204} : Calls(get_response(tx, c))
    BY <1>9 DEF ServiceSetsCode
  <2>2. Ready(tx) /\ MayTake(tx, c)
    BY <1>1, <1>9, <2>1 DEF ServiceSetsCode, Calls, Empty, MayTake, Codes
  <2>3. \A u \in get_response(tx, c) : Ends(tx, u)
    BY <2>2, get_responseEnds
  <2> QED BY <2>1, <2>3, CallsKeep
<1>10. CASE ServiceDisplaysError
  <2>1. PICK c \in {403, 502} : Calls(display_error(tx, c))
    BY <1>10 DEF ServiceDisplaysError
  <2>2. \A u \in display_error(tx, c) : Ends(tx, u)
    BY <1>1, <2>1, display_errorEnds DEF Calls, Codes, NoBody
  <2> QED BY <2>1, <2>2, CallsKeep
<1>11. CASE ServiceRedirects
  <2>1. \A u \in redirect_to(tx) : Ends(tx, u)
    BY <1>1, <1>11, redirect_toEnds DEF ServiceRedirects, Calls
  <2> QED BY <1>11, <2>1, CallsKeep DEF ServiceRedirects
<1>12. MayReplace /\ phase = "serving" => Replaceable(tx)
  BY <1>1 DEF MayReplace, MayHaveBody, Empty, Replaceable
<1>13. CASE ServiceServesFile
  <2>1. \A u \in serve_file(tx) : Ends(tx, u)
    BY <1>12, <1>13, serve_fileEnds DEF ServiceServesFile, Calls
  <2> QED BY <1>13, <2>1, CallsKeep DEF ServiceServesFile
<1>14. CASE ServiceForwardsToStream
  <2>1. \A u \in forward_to_stream(tx) : Ends(tx, u)
    BY <1>12, <1>14, forward_to_streamEnds DEF ServiceForwardsToStream, Calls
  <2> QED BY <1>14, <2>1, CallsKeep DEF ServiceForwardsToStream
<1>15. CASE ServiceForwardsToFcgi
  <2>1. \A u \in forward_to_fcgi(tx) : Ends(tx, u)
    BY <1>12, <1>15, forward_to_fcgiEnds DEF ServiceForwardsToFcgi, Calls
  <2> QED BY <1>15, <2>1, CallsKeep DEF ServiceForwardsToFcgi
<1>16. CASE ServiceUpgrades
  <2>1. PICK flush \in BOOLEAN : Calls(upgrade(tx, flush))
    BY <1>16 DEF ServiceUpgrades
  <2>2. \A u \in upgrade(tx, flush) : Ends(tx, u)
    BY <1>1, <2>1, upgradeEnds DEF Calls
  <2> QED BY <2>1, <2>2, CallsKeep
<1>17. CASE ServiceAcceptsWebSocket
  <2>1. \A u \in accept_websocket(tx) : Ends(tx, u)
    BY <1>1, <1>17, accept_websocketEnds DEF ServiceAcceptsWebSocket, Calls
  <2> QED BY <1>17, <2>1, CallsKeep DEF ServiceAcceptsWebSocket
<1>18. CASE UNCHANGED vars
  BY <1>18 DEF vars, ConnInv
<1> QED BY <1>2, <1>3, <1>4, <1>5, <1>6, <1>7, <1>8, <1>9, <1>10, <1>11, <1>13, <1>14,
           <1>15, <1>16, <1>17, <1>18 DEF Next

\* The invariant holds of every connection.
THEOREM ConnectionInvariant == Spec => []ConnInv
BY ConnInit, ConnStep, PTL DEF Spec

LEMMA FirstIs ==
  ASSUME First(tx)
  PROVE  /\ tx.method = "GET" /\ tx.mode = "UNDECIDED" /\ tx.code = 200 /\ tx.buffer = 0
         /\ tx.exc = "no" /\ ~tx.threw /\ tx.wire.headers = 1 /\ tx.wire.framing = "nobody"
         /\ tx.wire.body = 0 /\ ~tx.wire.ended /\ tx.wire.keep
<1> DEFINE n == New("GET", TRUE, TRUE)
           w == [NoWire EXCEPT !.headers = 1, !.framing = "nobody", !.keep = TRUE]
           f == [n EXCEPT !.wire = w]
<1>1. /\ w.headers = 1 /\ w.framing = "nobody" /\ w.body = 0 /\ ~w.ended /\ w.keep
  BY DEF NoWire
<1> HIDE DEF w
<1> DEFINE Fields(x) ==
             /\ x.method = "GET" /\ x.mode = "UNDECIDED" /\ x.code = 200 /\ x.buffer = 0
             /\ x.exc = "no" /\ x.threw = FALSE /\ x.wire = w
<1>2. Fields(f) /\ Fields([f EXCEPT !.strm = FALSE, !.keep_alive = FALSE])
  <2>1. n = [method |-> "GET", noGzip |-> TRUE, gzip |-> FALSE, mode |-> "UNDECIDED",
             headerSent |-> FALSE, finished |-> FALSE, buffer |-> 0,
             code |-> 200, length |-> NoLength, wire |-> NoWire, exc |-> "no",
             threw |-> FALSE,
             strm |-> TRUE, alive |-> TRUE, keep_alive |-> TRUE, upgraded |-> FALSE]
    BY DEF New
  <2> HIDE DEF n
  <2>2. f = [n EXCEPT !.wire = w]
    OBVIOUS
  <2>3. Fields(f)
    BY <2>1, <2>2
  <2>4. Fields([f EXCEPT !.strm = FALSE, !.keep_alive = FALSE])
    BY <2>1, <2>2
  <2> QED BY <2>3, <2>4
<1>3. tx = f \/ tx = [f EXCEPT !.strm = FALSE, !.keep_alive = FALSE]
  BY DEF First, FirstTx, w
<1> HIDE DEF f
<1>4. Fields(tx)
  <2> HIDE DEF Fields
  <2> QED BY <1>2, <1>3
<1> QED BY <1>1, <1>4

\* Types; no more is held back than the code bounds.
THEOREM ConnectionTypeOK == Spec => []TypeOK
<1>1. ConnInv => TypeOK
  <2> SUFFICES ASSUME ConnInv PROVE TypeOK
    OBVIOUS
  <2>1. CASE First(tx)
    BY <2>1, FirstIs, TransactionAssumption DEF ConnInv, TypeOK, Modes, Codes
  <2>2. CASE tx \in Transactions /\ Bounded(tx) /\ (tx.exc = "null" => tx.code \notin Codes)
    BY <2>2 DEF ConnInv, TypeOK, Transactions, Bounded
  <2> QED BY <2>1, <2>2 DEF ConnInv, Ready, Sound, Over
<1> QED BY <1>1, ConnectionInvariant, PTL

\* Nothing precedes the header of a response, no second one follows it.
THEOREM ResponsesHaveOneHeader == Spec => []OneHeaderFirst
<1>1. ConnInv => OneHeaderFirst
  <2> SUFFICES ASSUME ConnInv PROVE OneHeaderFirst
    OBVIOUS
  <2>1. CASE First(tx)
    BY <2>1, FirstIs DEF OneHeaderFirst
  <2>2. CASE tx \in Transactions /\ (tx.wire.headers = 0 => tx.wire.body = 0 /\ ~tx.wire.ended)
    BY <2>2 DEF OneHeaderFirst, Transactions, Wires
  <2> QED BY <2>1, <2>2 DEF ConnInv, Ready, Sound, Sent, Over
<1> QED BY <1>1, ConnectionInvariant, PTL

\* What a connection that is reused looks like.
LEMMA ReusedIs ==
  ASSUME ConnInv, Reused
  PROVE  \/ First(tx)
         \/ Sound(tx) /\ tx.finished /\ Final(tx) /\ tx.exc = "no" /\ tx.alive
            /\ tx.keep_alive /\ ~tx.upgraded
BY DEF ConnInv, Reused, keep_alive, Complete

\* A connection is reused only behind a response whose end the client can tell.
THEOREM ReusedBehindExactFraming == Spec => []FramingExact
<1>1. ConnInv => FramingExact
  <2> SUFFICES ASSUME ConnInv, Reused, tx.wire.headers = 1 PROVE FramingExact
    BY DEF FramingExact
  <2>1. CASE First(tx)
    BY <2>1, FirstIs DEF FramingExact
  <2>2. CASE ~First(tx)
    <3>1. /\ Sound(tx) /\ Final(tx) /\ tx.finished /\ tx.keep_alive /\ ~tx.upgraded
          /\ tx.mode \in {"SIMPLE", "CHUNKED", "HEADONLY", "UPGRADE"}
      BY <2>2, ReusedIs DEF Sound, Untold, Transactions, Modes
    <3>2. CASE tx.mode = "SIMPLE"
      BY <3>1, <3>2 DEF FramingExact, Sound, Sent, Final
    <3>3. CASE tx.mode = "CHUNKED"
      BY <3>1, <3>3 DEF FramingExact, Sound, Sent, Final
    <3>4. CASE tx.mode = "HEADONLY"
      BY <3>1, <3>4 DEF FramingExact, Sound, Sent, Final
    <3>5. CASE tx.mode = "UPGRADE"
      BY <3>1, <3>5 DEF Sound, Sent
    <3> QED BY <3>1, <3>2, <3>3, <3>4, <3>5
  <2> QED BY <2>1, <2>2
<1> QED BY <1>1, ConnectionInvariant, PTL

\* A connection is reused only when its request has been answered.
THEOREM AnsweredBeforeReuse == Spec => []AnsweredBeforeNext
<1>1. ConnInv => AnsweredBeforeNext
  <2> SUFFICES ASSUME ConnInv, Reused, tx.method # "HEAD"
               PROVE  tx.wire.headers = 1 /\ tx.wire.keep
    BY DEF AnsweredBeforeNext
  <2>1. CASE First(tx)
    BY <2>1, FirstIs
  <2>2. CASE ~First(tx)
    <3>1. /\ Sound(tx) /\ tx.finished /\ tx.keep_alive /\ ~tx.upgraded /\ tx.alive
          /\ tx.exc = "no"
      BY <2>2, ReusedIs
    <3>2. tx.headerSent
      BY <3>1 DEF Sound, Untold
    <3> QED BY <3>1, <3>2 DEF Sound, Sent
  <2> QED BY <2>1, <2>2
<1> QED BY <1>1, ConnectionInvariant, PTL

\* A runtime error before the header is answered with status 500.
THEOREM ErrorsGetAnswers == Spec => []ErrorsAnswered
<1>1. ConnInv => ErrorsAnswered
  BY FirstIs DEF ConnInv, ErrorsAnswered, Over, Answered
<1> QED BY <1>1, ConnectionInvariant, PTL

\* Once a transaction is finished nothing more is sent for it.
THEOREM FinishedSendsNothing == Spec => SilentWhenFinished
<1>1. ConnInv /\ [Next]_vars => [tx.finished /\ phase = "serving" => tx'.wire = tx.wire]_vars
  BY ConnStep DEF Silent
<1> QED BY <1>1, ConnectionInvariant, PTL DEF Spec, SilentWhenFinished
=============================================================================

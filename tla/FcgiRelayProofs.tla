--------------------------- MODULE FcgiRelayProofs ---------------------------
(***************************************************************************)
(* Proofs about module FcgiRelay, for bodies, pieces, thresholds and files *)
(* of any size: what the application is sent and when, that no response is *)
(* cut unnoticed, and that forward_to_fcgi of module HttpTransaction is the *)
(* whole of the method.                                                    *)
(***************************************************************************)
EXTENDS FcgiRelay, SequenceTheorems, WellFoundedInduction, TLAPS

-----------------------------------------------------------------------------
(* What the application is sent.                                           *)

Records == [type : {"BEGIN", "PARAMS", "STDIN"}, n : Nat]

\* How many STDIN records there are.
Count == (post + Piece - 1) \div Piece

LEMMA RequestIs ==
  ASSUME post \in Nat
  PROVE  /\ Count \in Nat /\ Request \in Seq(Records) /\ Len(Request) = 3 + Count
         /\ Request[1] = Record("BEGIN", 8) /\ Request[2] = Record("PARAMS", 1)
         /\ Request[3] = Record("PARAMS", 0)
         /\ \A j \in 1..Count : Request[3 + j] = Record("STDIN", PieceAt(j))
<1> USE RelayAssumption
<1>1. Count \in Nat
  <2> DEFINE m == post + Piece - 1
  <2>1. m \in Nat /\ Piece \in Nat \ {0}
    OBVIOUS
  <2> HIDE DEF m
  <2>2. m \div Piece \in Nat
    BY <2>1
  <2> QED BY <2>2 DEF Count, m
<1> DEFINE first == <<Record("BEGIN", 8), Record("PARAMS", 1), Record("PARAMS", 0)>>
           rest == [i \in 1..Count |-> Record("STDIN", PieceAt(i))]
<1>2. first \in Seq(Records) /\ Len(first) = 3
  BY DEF Record, Records
<1>3. ASSUME NEW i \in 1..Count PROVE PieceAt(i) \in Nat
  <2>1. CASE i * Piece <= post
    BY <2>1 DEF PieceAt
  <2>2. CASE ~(i * Piece <= post)
    <3> DEFINE m == post + Piece - 1
    <3>1. i <= m \div Piece /\ m \in Nat /\ Piece \in Nat \ {0} /\ i \in Nat \ {0}
      BY <1>1 DEF Count
    <3>2. i * Piece <= m
      <4> HIDE DEF m
      <4> QED BY <3>1
    <3>3. (i - 1) * Piece = i * Piece - Piece /\ i * Piece \in Nat
      BY <3>1
    <3>4. (i - 1) * Piece \in Int /\ (i - 1) * Piece <= post
      BY <3>1, <3>2, <3>3
    <3> QED BY <2>2, <3>4 DEF PieceAt
  <2> QED BY <2>1, <2>2
<1>4. rest \in Seq(Records) /\ Len(rest) = Count /\ \A i \in 1..Count : rest[i] = Record("STDIN", PieceAt(i))
  <2>1. rest \in [1..Count -> Records]
    BY <1>3 DEF Record, Records
  <2>2. rest \in Seq(Records)
    BY <1>1, <2>1, SeqDef
  <2> QED BY <1>1, <2>1, <2>2, LenProperties
<1>5. first[1] = Record("BEGIN", 8) /\ first[2] = Record("PARAMS", 1) /\ first[3] = Record("PARAMS", 0)
  OBVIOUS
<1>6. Request = first \o rest
  BY DEF Request, Count
<1> HIDE DEF first, rest
<1>7. /\ first \o rest \in Seq(Records) /\ Len(first \o rest) = 3 + Count
      /\ \A i \in 1..3 : (first \o rest)[i] = first[i]
      /\ \A i \in 1..Count : (first \o rest)[3 + i] = rest[i]
  <2>1. /\ first \o rest \in Seq(Records)
        /\ Len(first \o rest) = Len(first) + Len(rest)
        /\ \A i \in 1 .. Len(first) + Len(rest) : (first \o rest)[i] =
             IF i <= Len(first) THEN first[i] ELSE rest[i - Len(first)]
    BY <1>2, <1>4, ConcatProperties
  <2>2. \A i \in 1..Count : (first \o rest)[3 + i] = rest[i]
    <3> TAKE i \in 1..Count
    <3>1. 3 + i \in 1 .. Len(first) + Len(rest) /\ ~(3 + i <= Len(first))
          /\ (3 + i) - Len(first) = i
      BY <1>1, <1>2, <1>4
    <3> QED BY <2>1, <3>1
  <2>3. \A i \in 1..3 : (first \o rest)[i] = first[i]
    BY <1>1, <1>2, <1>4, <2>1
  <2> QED BY <1>2, <1>4, <2>1, <2>2, <2>3
<1> QED BY <1>1, <1>4, <1>5, <1>6, <1>7

\* The records written so far, n of them, are the first n of the request.
Begins ==
  /\ toApp \in Seq(Records) /\ Len(toApp) <= Len(Request)
  /\ \A i \in 1..Len(toApp) : toApp[i] = Request[i]

\* How far the fiber is with them.
Stage ==
  /\ at = "connect" => Len(toApp) = 0
  /\ at \in {"write", "read"} /\ ~_env_sent => Len(toApp) = 1
  /\ at = "end" => Len(toApp) = 2
  /\ at \in {"connect", "end"} => ~_env_sent
  /\ ~_env_sent => base = 0
  /\ at = "write" => base < post
  /\ at = "read" => base = post
  /\ at = "write" /\ _env_sent =>
       Len(toApp) >= 3 /\ base = (Len(toApp) - 3) * Piece
  /\ at = "read" /\ _env_sent => Len(toApp) = Len(Request)

OrderInv ==
  /\ post \in Nat /\ base \in 0..post /\ _env_sent \in BOOLEAN
  /\ at \in {"connect", "write", "end", "read", "done"}
  /\ Begins /\ Stage
  /\ head \in {"open", "known"} /\ (head = "known" => at \in {"read", "done"} /\ _env_sent)
  /\ head = "open" /\ at # "done" => tx = method

\* The next record is the next of the request.
LEMMA BeginsNext ==
  ASSUME post \in Nat, Begins, NEW r \in Records, post' = post, toApp' = Append(toApp, r),
         Len(toApp) + 1 <= Len(Request), Request[Len(toApp) + 1] = r
  PROVE  Begins' /\ Len(toApp') = Len(toApp) + 1
<1>1. Request' = Request
  BY DEF Request, PieceAt
<1>2. toApp \in Seq(Records) /\ Len(toApp) \in Nat
  BY DEF Begins
<1> DEFINE u == Append(toApp, r)
<1>3. /\ u \in Seq(Records) /\ Len(u) = Len(toApp) + 1 /\ u[Len(toApp) + 1] = r
      /\ \A i \in 1..Len(toApp) : u[i] = toApp[i]
  BY <1>2, AppendProperties
<1>4. toApp' = u
  OBVIOUS
<1> HIDE DEF u
<1>5. \A i \in 1..Len(u) : i \in 1..Len(toApp) \/ i = Len(toApp) + 1
  BY <1>2, <1>3
<1>6. \A i \in 1..Len(u) : u[i] = Request[i]
  BY <1>3, <1>5 DEF Begins
<1> QED BY <1>1, <1>3, <1>4, <1>6 DEF Begins

LEMMA BeginsSame ==
  ASSUME Begins, post' = post, toApp' = toApp
  PROVE  Begins' /\ Len(Request') = Len(Request)
BY DEF Begins, Request, PieceAt

\* The next piece of the body is the next STDIN record of the request, and the
\* last one when nothing is left behind it.
LEMMA NextPiece ==
  ASSUME post \in Nat, NEW j \in Nat, base = j * Piece, base < post
  PROVE  /\ txsize \in Nat \ {0} /\ base + txsize <= post
         /\ j + 1 <= Count /\ txsize = PieceAt(j + 1)
         /\ IF base + txsize < post THEN base + txsize = (j + 1) * Piece
            ELSE j + 1 = Count
<1> USE RelayAssumption
<1>1. /\ j * Piece \in Nat /\ (j + 1) * Piece = j * Piece + Piece
      /\ (j + 1) - 1 = j
  OBVIOUS
<1>2. j + 1 <= Count
  BY DEF Count
<1>3. CASE post - base < Piece
  <2>1. txsize = post - base /\ ~((j + 1) * Piece <= post)
    BY <1>1, <1>3 DEF txsize
  <2>2. j + 1 = Count
    <3>1. (j + 1) * Piece >= post
      BY <1>1, <1>3
    <3> QED BY <3>1 DEF Count
  <2> QED BY <1>1, <1>2, <2>1, <2>2 DEF PieceAt
<1>4. CASE ~(post - base < Piece)
  <2>1. txsize = Piece /\ (j + 1) * Piece <= post
    BY <1>1, <1>4 DEF txsize
  <2>2. base + txsize = (j + 1) * Piece
    BY <1>1, <2>1
  <2>3. ~((j + 1) * Piece < post) => j + 1 = Count
    BY DEF Count
  <2> QED BY <1>1, <1>2, <2>1, <2>2, <2>3 DEF PieceAt
<1> QED BY <1>3, <1>4

\* The steps that write a record, and those that do not.
LEMMA OrderStep ==
  ASSUME OrderInv, [Next]_vars
  PROVE  OrderInv'
<1> USE DEF OrderInv
<1>1. /\ Count \in Nat /\ Len(Request) = 3 + Count
      /\ Request[1] = Record("BEGIN", 8) /\ Request[2] = Record("PARAMS", 1)
      /\ Request[3] = Record("PARAMS", 0)
      /\ \A j \in 1..Count : Request[3 + j] = Record("STDIN", PieceAt(j))
  BY RequestIs
<1>2. /\ Record("BEGIN", 8) \in Records /\ Record("PARAMS", 1) \in Records
      /\ Record("PARAMS", 0) \in Records
      /\ \A n \in Nat : Record("STDIN", n) \in Records
  BY DEF Record, Records
<1>3. Len(toApp) \in Nat
  BY DEF Begins
<1>4. CASE Connect
  <2>1. /\ at = "connect" /\ UNCHANGED <<post, base, _env_sent, head, method>>
        /\ \/ /\ toApp' = Append(toApp, Record("BEGIN", 8))
              /\ at' = (IF post > 0 THEN "write" ELSE "read") /\ tx' = tx
           \/ at' = "done" /\ toApp' = toApp
    BY <1>4 DEF Connect, WriteRecord, Finish
  <2>2. CASE at' = "done" /\ toApp' = toApp
    BY <2>1, <2>2, BeginsSame DEF Stage
  <2>3. CASE /\ toApp' = Append(toApp, Record("BEGIN", 8))
             /\ at' = (IF post > 0 THEN "write" ELSE "read") /\ tx' = tx
    <3>1. Len(toApp) = 0 /\ base = 0 /\ ~_env_sent
      BY <2>1 DEF Stage
    <3>2. Begins' /\ Len(toApp') = 1
      BY <1>1, <1>2, <2>1, <2>3, <3>1, BeginsNext
    <3>3. Stage'
      BY <2>1, <2>3, <3>1, <3>2 DEF Stage
    <3> QED BY <2>1, <2>3, <3>2, <3>3
  <2> QED BY <2>1, <2>2, <2>3
<1>5. CASE flush_env
  <2>1. /\ at \in {"write", "read"} /\ ~_env_sent /\ UNCHANGED <<post, base, _env_sent, head, method>>
        /\ \/ toApp' = Append(toApp, Record("PARAMS", 1)) /\ at' = "end" /\ tx' = tx
           \/ at' = "done" /\ toApp' = toApp
    BY <1>5 DEF flush_env, WriteRecord, Finish
  <2>2. CASE at' = "done" /\ toApp' = toApp
    BY <2>1, <2>2, BeginsSame DEF Stage
  <2>3. CASE toApp' = Append(toApp, Record("PARAMS", 1)) /\ at' = "end" /\ tx' = tx
    <3>1. Len(toApp) = 1 /\ base = 0
      BY <2>1 DEF Stage
    <3>2. Begins' /\ Len(toApp') = 2
      BY <1>1, <1>2, <2>1, <2>3, <3>1, BeginsNext
    <3>3. Stage'
      BY <2>1, <2>3, <3>1, <3>2 DEF Stage
    <3> QED BY <2>1, <2>3, <3>2, <3>3
  <2> QED BY <2>1, <2>2, <2>3
<1>6. CASE EndParams
  <2>1. /\ at = "end" /\ _env_sent' = TRUE /\ UNCHANGED <<post, base, head, method>>
        /\ \/ /\ toApp' = Append(toApp, Record("PARAMS", 0))
              /\ at' = (IF base < post THEN "write" ELSE "read") /\ tx' = tx
           \/ at' = "done" /\ toApp' = toApp
    BY <1>6 DEF EndParams, WriteRecord, Finish
  <2>2. CASE at' = "done" /\ toApp' = toApp
    BY <2>1, <2>2, BeginsSame DEF Stage
  <2>3. CASE /\ toApp' = Append(toApp, Record("PARAMS", 0))
             /\ at' = (IF base < post THEN "write" ELSE "read") /\ tx' = tx
    <3>1. Len(toApp) = 2 /\ base = 0
      BY <2>1 DEF Stage
    <3>2. Begins' /\ Len(toApp') = 3
      BY <1>1, <1>2, <2>1, <2>3, <3>1, BeginsNext
    <3>3. post = 0 => Count = 0
      BY RelayAssumption DEF Count
    <3>4. Len(Request') = Len(Request)
      BY <2>1 DEF Request, PieceAt
    <3>5. Stage'
      BY <1>1, <2>1, <2>3, <3>1, <3>2, <3>3, <3>4, RelayAssumption DEF Stage
    <3> QED BY <2>1, <2>3, <3>2, <3>5
  <2> QED BY <2>1, <2>2, <2>3
<1>7. CASE WriteBody
  <2>1. /\ at = "write" /\ _env_sent /\ base' = base + txsize
        /\ UNCHANGED <<post, _env_sent, head, method>>
        /\ \/ /\ toApp' = Append(toApp, Record("STDIN", txsize))
              /\ at' = (IF base + txsize < post THEN "write" ELSE "read") /\ tx' = tx
           \/ at' = "done" /\ toApp' = toApp
    BY <1>7 DEF WriteBody, WriteRecord, Finish, Advance
  <2> DEFINE j == Len(toApp) - 3
  <2>2. j \in Nat /\ base = j * Piece /\ base < post
    BY <1>3, <2>1 DEF Stage
  <2> HIDE DEF j
  <2>3. /\ txsize \in Nat \ {0} /\ base + txsize <= post
        /\ j + 1 <= Count /\ txsize = PieceAt(j + 1)
        /\ IF base + txsize < post THEN base + txsize = (j + 1) * Piece
           ELSE j + 1 = Count
    BY <2>2, NextPiece
  <2>4. base' \in 0..post
    BY <2>1, <2>3
  <2>5. CASE at' = "done" /\ toApp' = toApp
    BY <2>1, <2>4, <2>5, BeginsSame DEF Stage
  <2>6. CASE /\ toApp' = Append(toApp, Record("STDIN", txsize))
             /\ at' = (IF base + txsize < post THEN "write" ELSE "read") /\ tx' = tx
    <3>1. Len(toApp) = j + 3 /\ Len(toApp) + 1 = 3 + (j + 1) /\ j + 1 \in 1..Count
      BY <1>1, <1>3, <2>2, <2>3 DEF j
    <3>2. Request[Len(toApp) + 1] = Record("STDIN", txsize) /\ Len(toApp) + 1 <= Len(Request)
      BY <1>1, <2>3, <3>1
    <3>3. Record("STDIN", txsize) \in Records
      BY <1>2, <2>3
    <3>4. Begins' /\ Len(toApp') = Len(toApp) + 1
      BY <2>1, <2>6, <3>2, <3>3, BeginsNext
    <3>5. Len(Request') = Len(Request)
      BY <2>1 DEF Request, PieceAt
    <3>6. Len(toApp') - 3 = j + 1 /\ Len(toApp') >= 3 /\ Len(toApp') = 3 + (j + 1)
      BY <2>2, <3>1, <3>4
    <3>7. Stage'
      <4>1. CASE base + txsize < post
        BY <2>1, <2>3, <2>6, <3>6, <4>1 DEF Stage
      <4>2. CASE ~(base + txsize < post)
        <5>1. base' = post /\ at' = "read" /\ Len(toApp') = Len(Request')
          BY <1>1, <2>1, <2>3, <2>6, <3>5, <3>6, <4>2
        <5> QED BY <2>1, <5>1 DEF Stage
      <4> QED BY <4>1, <4>2
    <3> QED BY <2>1, <2>4, <2>6, <3>4, <3>7
  <2> QED BY <2>1, <2>5, <2>6
<1>8. ASSUME UNCHANGED <<post, base, _env_sent, toApp, method>>,
             at' = at \/ (at = "read" /\ at' = "done"),
             \/ head' = head /\ (tx' = tx \/ head = "known" \/ at' = "done")
             \/ head' = "known" /\ at = "read" /\ _env_sent
      PROVE  OrderInv'
  <2>1. Begins' /\ Len(Request') = Len(Request)
    BY <1>8, BeginsSame
  <2>2. Stage'
    BY <1>8, <2>1 DEF Stage
  <2> QED BY <1>8, <2>1, <2>2
<1>9. CASE TakeHead
  BY <1>8, <1>9 DEF TakeHead, Takes, Reading, GoOn, Finish
<1>10. CASE TakeBody
  BY <1>8, <1>10 DEF TakeBody, Takes, Reading, GoOn
<1>11. CASE TakeError \/ TakeEnd \/ TakeOther \/ ReadFails
  BY <1>8, <1>11 DEF TakeError, TakeEnd, TakeOther, ReadFails, Takes, Reading, Finish, appVars
<1>12. CASE AppSends \/ AppDies
  BY <1>8, <1>12 DEF AppSends, AppDies, fiberVars
<1>13. CASE UNCHANGED vars
  BY <1>8, <1>13 DEF vars, fiberVars, appVars
<1> QED BY <1>4, <1>5, <1>6, <1>7, <1>9, <1>10, <1>11, <1>12, <1>13 DEF Next, Relaying

LEMMA OrderInit == Init => OrderInv
<1> SUFFICES ASSUME Init PROVE OrderInv
  OBVIOUS
<1>1. post \in Nat /\ base = 0 /\ _env_sent = FALSE /\ at = "connect" /\ head = "open"
      /\ toApp = <<>> /\ tx = method
  BY RelayAssumption DEF Init
<1>2. <<>> \in Seq(Records) /\ Len(<<>>) = 0
  OBVIOUS
<1>3. Len(Request) \in Nat
  BY <1>1, RequestIs
<1>4. Begins /\ Stage
  BY <1>1, <1>2, <1>3 DEF Begins, Stage
<1>5. base \in 0..post /\ _env_sent \in BOOLEAN
  <2>1. post \in Nat /\ base = 0
    BY <1>1
  <2>2. _env_sent = FALSE
    BY <1>1
  <2>3. base \in 0..post
    BY <2>1
  <2> QED BY <2>2, <2>3
<1>6. "open" # "known"
  OBVIOUS
<1> QED BY <1>1, <1>4, <1>5, <1>6 DEF OrderInv

\* The fiber writes the request in its order and knows how far it is.
THEOREM RelayOrderInvariant == Spec => []OrderInv
BY OrderInit, OrderStep, PTL DEF Spec

LEMMA InOrder ==
  ASSUME OrderInv
  PROVE  RequestInOrder
<1> USE DEF OrderInv
<1> DEFINE n == Len(toApp)
           s == SubSeq(toApp, 1, n)
           t == SubSeq(Request, 1, n)
<1>1. /\ toApp \in Seq(Records) /\ n <= Len(Request)
      /\ \A i \in 1..n : toApp[i] = Request[i]
  BY DEF Begins
<1>2. Request \in Seq(Records)
  BY RequestIs
<1> HIDE DEF n
<1>3. n \in Nat /\ \A i \in 1..n : toApp[i] \in Records /\ Request[i] \in Records
  BY <1>1, <1>2 DEF n
<1>4. /\ s \in Seq(Records) /\ Len(s) = n /\ \A i \in 1..n : s[i] = toApp[i]
      /\ t \in Seq(Records) /\ Len(t) = n /\ \A i \in 1..n : t[i] = Request[i]
  BY <1>3, SubSeqProperties
<1> HIDE DEF s, t
<1>5. s = t
  <2>1. \A i \in 1..Len(s) : s[i] = t[i]
    BY <1>1, <1>4
  <2> QED BY <1>4, <2>1, SeqEqual
<1>6. IsPrefix(toApp, Request)
  BY <1>1, <1>5 DEF IsPrefix, s, t, n
<1>7. ASSUME Reading PROVE toApp = Request
  <2>1. Len(toApp) = Len(Request)
    BY <1>7 DEF Reading, Stage
  <2>2. \A i \in 1..Len(toApp) : toApp[i] = Request[i]
    BY <1>1 DEF n
  <2> QED BY <1>1, <1>2, <2>1, <2>2, SeqEqual
<1> QED BY <1>6, <1>7 DEF RequestInOrder

\* The application gets the whole request in order before the fiber waits for
\* its answer, for a body and pieces of any size.
THEOREM RelayRequestInOrder == Spec => []RequestInOrder
BY RelayOrderInvariant, InOrder, PTL

-----------------------------------------------------------------------------
(* Pieces: a write more is a piece more.                                   *)

\* The natural numbers are the least set with 0 and the successors of its
\* members.
LEMMA SetInduction ==
  ASSUME NEW S \in SUBSET Nat, 0 \in S, \A n \in S : n + 1 \in S
  PROVE  S = Nat
<1> DEFINE B == Nat \ S
<1> SUFFICES ASSUME B # {} PROVE FALSE
  OBVIOUS
<1>1. PICK n \in B : \A m \in B : n <= m
  <2> HIDE DEF B
  <2>1. B \subseteq Nat
    BY DEF B
  <2>2. PICK n \in B : \A m \in B : ~(<<m, n>> \in OpToRel(<, Nat))
    BY <2>1, NatLessThanWellFounded, WFMin
  <2>3. \A m \in B : ~(m < n)
    BY <2>1, <2>2 DEF OpToRel
  <2> QED BY <2>1, <2>3
<1>2. n # 0 /\ n - 1 \in Nat /\ n - 1 \in S
  BY <1>1
<1> QED BY <1>1, <1>2

\* The units of one call of write() when i units are to be written.
Calls(i) == 1..(IF i = 1 THEN 1 ELSE 2)

\* The states after i units, when f has those after fewer.
After(t, f, i) ==
  IF i = 0 THEN {t}
  ELSE UNION {Then(f[i-k], LAMBDA u : write(u, k)) : k \in Calls(i)}

Loop(t, f, n) == f = [i \in 0..n |-> After(t, f, i)]

LEMMA AfterSame ==
  ASSUME NEW t, NEW f, NEW g, NEW i \in Nat, \A j \in Nat : j < i => f[j] = g[j]
  PROVE  After(t, f, i) = After(t, g, i)
<1>1. CASE i # 0
  <2>1. \A k \in Calls(i) : f[i-k] = g[i-k]
    BY <1>1 DEF Calls
  <2> QED BY <1>1, <2>1 DEF After, Then
<1>2. CASE i = 0
  BY <1>2 DEF After
<1> QED BY <1>1, <1>2

LEMMA LoopExists ==
  ASSUME NEW t, NEW n \in Nat
  PROVE  \E f : Loop(t, f, n)
<1> DEFINE S == {m \in Nat : \E f : Loop(t, f, m)}
<1>1. 0 \in S
  <2> DEFINE f == [i \in 0..0 |-> {t}]
  <2>1. Loop(t, f, 0)
    BY DEF Loop, After
  <2> HIDE DEF f
  <2> QED BY <2>1
<1>2. ASSUME NEW m \in S PROVE m + 1 \in S
  <2>1. PICK f : Loop(t, f, m)
    OBVIOUS
  <2> DEFINE g == [i \in 0..(m + 1) |-> IF i = m + 1 THEN After(t, f, m + 1) ELSE f[i]]
  <2>2. ASSUME NEW i \in 0..(m + 1) PROVE After(t, g, i) = After(t, f, i)
    <3>1. i \in Nat /\ \A j \in Nat : j < i => g[j] = f[j]
      OBVIOUS
    <3> HIDE DEF g
    <3> QED BY <3>1, AfterSame
  <2>3. \A i \in 0..(m + 1) : g[i] = After(t, f, i)
    BY <2>1 DEF Loop
  <2>4. \A i \in 0..(m + 1) : g[i] = After(t, g, i)
    BY <2>2, <2>3
  <2>5. Loop(t, g, m + 1)
    BY <2>4 DEF Loop
  <2> HIDE DEF g
  <2> QED BY <2>5
<1>3. S = Nat
  <2>1. S \in SUBSET Nat
    OBVIOUS
  <2> HIDE DEF S
  <2> QED BY <1>1, <1>2, <2>1, SetInduction
<1> QED BY <1>3

LEMMA PiecesLoop ==
  ASSUME NEW t, NEW n \in Nat
  PROVE  \E f : Loop(t, f, n) /\ Pieces(t, n) = f[n]
<1> DEFINE f == CHOOSE f : Loop(t, f, n)
<1>1. Pieces(t, n) = f[n]
  BY DEF Pieces, Loop, After, Calls
<1>2. Loop(t, f, n)
  BY LoopExists
<1> HIDE DEF f
<1> QED BY <1>1, <1>2

\* Two loops agree as far as both go.
LEMMA LoopsAgree ==
  ASSUME NEW t, NEW n \in Nat, NEW m \in Nat, n <= m, NEW f, NEW g,
         Loop(t, f, n), Loop(t, g, m)
  PROVE  f[n] = g[n]
<1> DEFINE S == {i \in Nat : \A j \in 0..i : j <= n => f[j] = g[j]}
<1>1. \A i \in 0..n : f[i] = After(t, f, i)
  BY DEF Loop
<1>2. \A i \in 0..n : g[i] = After(t, g, i)
  <2>1. \A i \in 0..m : g[i] = After(t, g, i)
    BY DEF Loop
  <2> QED BY <2>1
<1>3. 0 \in S
  <2>1. f[0] = {t} /\ g[0] = {t}
    <3>1. After(t, f, 0) = {t} /\ After(t, g, 0) = {t}
      BY DEF After
    <3>2. 0 \in 0..n
      OBVIOUS
    <3> QED BY <1>1, <1>2, <3>1, <3>2
  <2>2. \A j \in 0..0 : j = 0
    OBVIOUS
  <2> QED BY <2>1, <2>2
<1>4. ASSUME NEW i \in S PROVE i + 1 \in S
  <2> SUFFICES ASSUME i + 1 <= n PROVE f[i + 1] = g[i + 1]
    OBVIOUS
  <2>1. \A j \in Nat : j < i + 1 => f[j] = g[j]
    OBVIOUS
  <2>2. After(t, f, i + 1) = After(t, g, i + 1)
    BY <2>1, AfterSame
  <2> QED BY <1>1, <1>2, <2>2
<1>5. S = Nat
  <2>1. S \in SUBSET Nat
    OBVIOUS
  <2> HIDE DEF S
  <2> QED BY <1>3, <1>4, <2>1, SetInduction
<1>6. n \in S
  BY <1>5
<1> QED BY <1>6

LEMMA PiecesNone ==
  ASSUME NEW t
  PROVE  Pieces(t, 0) = {t}
<1>1. PICK f : Loop(t, f, 0) /\ Pieces(t, 0) = f[0]
  BY PiecesLoop
<1> QED BY <1>1 DEF Loop, After

LEMMA PiecesNext ==
  ASSUME NEW t, NEW m \in Nat, NEW k \in 1..2, NEW u \in Pieces(t, m), u.exc = "no",
         NEW w \in write(u, k)
  PROVE  w \in Pieces(t, m + k)
<1>1. PICK f : Loop(t, f, m) /\ Pieces(t, m) = f[m]
  BY PiecesLoop
<1>2. m + k \in Nat /\ m <= m + k /\ m + k # 0 /\ k \in Calls(m + k) /\ (m + k) - k = m
  BY DEF Calls
<1>3. PICK g : Loop(t, g, m + k) /\ Pieces(t, m + k) = g[m + k]
  BY <1>2, PiecesLoop
<1>4. f[m] = g[m]
  BY <1>1, <1>2, <1>3, LoopsAgree
<1>5. g[m + k] = After(t, g, m + k)
  BY <1>2, <1>3 DEF Loop
<1>6. u \in g[(m + k) - k]
  BY <1>1, <1>2, <1>4
<1>7. w \in After(t, g, m + k)
  <2> DEFINE i == m + k
  <2>1. i # 0 /\ k \in Calls(i) /\ u \in g[i - k]
    BY <1>2, <1>6
  <2> HIDE DEF i
  <2>2. w \in UNION {IF x.exc = "no" THEN write(x, k) ELSE {x} : x \in g[i - k]}
    BY <2>1
  <2>3. w \in UNION {UNION {IF x.exc = "no" THEN write(x, l) ELSE {x} : x \in g[i - l]} :
                       l \in Calls(i)}
    BY <2>1, <2>2
  <2>4. w \in After(t, g, i)
    BY <2>1, <2>3 DEF After, Then
  <2> QED BY <2>4 DEF i
<1> QED BY <1>3, <1>5, <1>7

-----------------------------------------------------------------------------
(* The units that a transaction has been given are sent or buffered.        *)

Wires ==
  [headers : Nat, code : Nat,
   framing : {"none", "length", "chunked", "nobody", "upgrade"},
   length : Nat, body : Nat, ended : BOOLEAN, keep : BOOLEAN]

Transactions ==
  [method : Methods, noGzip : BOOLEAN, gzip : BOOLEAN, mode : Modes,
   headerSent : BOOLEAN, finished : BOOLEAN, buffer : Nat, code : Nat,
   length : Nat, wire : Wires, exc : {"no", "rt", "io", "null", "assert"},
   threw : BOOLEAN, strm : BOOLEAN, alive : BOOLEAN, keep_alive : BOOLEAN,
   upgraded : BOOLEAN]

\* A transaction that is being written to.
Counted(t) ==
  /\ t \in Transactions /\ t.exc = "no" /\ ~t.finished
  /\ t.mode \in {"UNDECIDED", "CHUNKED", "HEADONLY"}
  /\ t.mode # "CHUNKED" => t.wire.headers = 0 /\ t.wire.body = 0 /\ ~t.headerSent
  /\ t.mode = "CHUNKED" => t.wire.headers = 1 /\ t.wire.code = t.code /\ t.buffer = 0

\* An exception has left it.
Failed(t) == t.exc # "no" /\ ~t.finished

Taken(t) == t.wire.body + t.buffer

\* n units more are counted, unless none are sent of it.
Counts(t, u, n) ==
  /\ Counted(u) /\ u.code = t.code
  /\ u.mode = "HEADONLY" <=> t.mode = "HEADONLY"
  /\ u.mode # "HEADONLY" => Taken(u) = Taken(t) + n

LEMMA SendIs ==
  ASSUME NEW t, NEW w, NEW u \in Send(t, w)
  PROVE  \/ u = [t EXCEPT !.alive = FALSE, !.exc = "io"]
         \/ u = [t EXCEPT !.wire = w]
BY DEF Send, Throw

LEMMA SendBodyIs ==
  ASSUME NEW t \in Transactions, t.exc = "no", ~t.finished, NEW n \in Nat, NEW u \in SendBody(t, n)
  PROVE  \/ Failed(u)
         \/ /\ u \in Transactions /\ u.exc = "no" /\ ~u.finished
            /\ u.mode = t.mode /\ u.gzip = t.gzip /\ u.code = t.code
            /\ u.buffer = t.buffer /\ u.headerSent = t.headerSent
            /\ u.noGzip = t.noGzip
            /\ u.wire.headers = t.wire.headers /\ u.wire.code = t.wire.code
            /\ u.wire.body = t.wire.body + n
<1> DEFINE w == [t.wire EXCEPT !.body = @ + n]
<1>1. t.wire \in Wires
  BY DEF Transactions
<1>2. /\ w \in Wires /\ w.headers = t.wire.headers /\ w.code = t.wire.code
      /\ w.body = t.wire.body + n
  BY <1>1 DEF Wires
<1>3. u \in Send(t, w)
  BY DEF SendBody
<1> HIDE DEF w
<1>4. CASE u = [t EXCEPT !.alive = FALSE, !.exc = "io"]
  BY <1>4 DEF Failed, Transactions
<1>5. CASE u = [t EXCEPT !.wire = w]
  BY <1>2, <1>5 DEF Transactions
<1> QED BY <1>3, <1>4, <1>5, SendIs

\* The header goes out, or an exception leaves the transaction.
LEMMA StartIs ==
  ASSUME NEW t \in Transactions, NEW m \in Modes, t.exc = "no", ~t.finished, ~t.headerSent,
         t.wire.headers = 0, NEW u \in start_transfer(t, m)
  PROVE  \/ Failed(u)
         \/ /\ u \in Transactions /\ u.exc = "no" /\ ~u.finished /\ u.headerSent
            /\ u.mode = m /\ u.gzip = t.gzip /\ u.code = t.code /\ u.noGzip = t.noGzip
            /\ u.buffer = t.buffer
            /\ u.wire.headers = 1 /\ u.wire.code = t.code /\ u.wire.body = t.wire.body
<1> DEFINE v == [t EXCEPT !.mode = m]
           w == [v.wire EXCEPT !.headers = @ + 1, !.code = v.code,
                               !.framing = Framing(m, v.code),
                               !.length = v.length, !.keep = v.keep_alive]
<1>1. /\ v \in Transactions /\ v.mode = m /\ v.gzip = t.gzip /\ v.buffer = t.buffer
      /\ v.code = t.code /\ v.noGzip = t.noGzip /\ v.exc = "no" /\ ~v.headerSent
      /\ v.wire = t.wire /\ ~v.finished
  BY DEF Transactions
<1>2. w.headers = 1 /\ w.code = t.code /\ w.body = t.wire.body /\ w \in Wires
  <2>1. /\ v.wire \in Wires /\ v.code \in Nat /\ v.length \in Nat /\ v.keep_alive \in BOOLEAN
        /\ v.wire.headers = 0
    BY <1>1 DEF Transactions
  <2>2. Framing(m, v.code) \in {"length", "chunked", "nobody", "upgrade"}
    BY DEF Framing
  <2> DEFINE h == v.wire.headers + 1  c == v.code  g == Framing(m, v.code)
             l == v.length  k == v.keep_alive  x == v.wire
  <2>3. w = [x EXCEPT !.headers = h, !.code = c, !.framing = g, !.length = l, !.keep = k]
    BY <2>1
  <2>4. h = 1 /\ c = t.code /\ x.body = t.wire.body
    BY <1>1, <2>1
  <2>5. /\ x \in Wires /\ c \in Nat /\ l \in Nat /\ k \in BOOLEAN
        /\ g \in {"length", "chunked", "nobody", "upgrade"}
    BY <2>1, <2>2
  <2> HIDE DEF v, w, h, g, c, l, k, x
  <2> QED BY <2>3, <2>4, <2>5 DEF Wires
<1>3. \E x \in IF v.code \notin Codes THEN Throw(v, "null") ELSE Send(v, w) :
        u = IF x.exc = "no" THEN [x EXCEPT !.headerSent = TRUE] ELSE x
  BY DEF start_transfer, Then
<1> HIDE DEF v, w
<1>4. CASE v.code \notin Codes
  <2>1. \E x \in {[v EXCEPT !.exc = "null"]} :
          u = IF x.exc = "no" THEN [x EXCEPT !.headerSent = TRUE] ELSE x
    BY <1>1, <1>3, <1>4 DEF Throw
  <2>2. u = [v EXCEPT !.exc = "null"]
    BY <1>1, <2>1 DEF Transactions
  <2> QED BY <1>1, <2>2 DEF Failed, Transactions
<1>5. CASE v.code \in Codes
  <2>1. PICK x \in Send(v, w) : u = IF x.exc = "no" THEN [x EXCEPT !.headerSent = TRUE] ELSE x
    BY <1>3, <1>5
  <2>2. CASE x = [v EXCEPT !.alive = FALSE, !.exc = "io"]
    <3>1. u = x
      BY <1>1, <2>1, <2>2 DEF Transactions
    <3> QED BY <1>1, <2>2, <3>1 DEF Failed, Transactions
  <2>3. CASE x = [v EXCEPT !.wire = w]
    <3>1. u = [x EXCEPT !.headerSent = TRUE] /\ x.wire = w
      BY <1>1, <2>1, <2>3 DEF Transactions
    <3>2. u.wire = w /\ u.headerSent /\ u.exc = "no"
      BY <1>1, <2>3, <3>1 DEF Transactions
    <3> QED BY <1>1, <1>2, <2>3, <3>1, <3>2 DEF Transactions
  <2> QED BY <2>1, <2>2, <2>3, SendIs
<1> QED BY <1>4, <1>5

LEMMA transferCounts ==
  ASSUME NEW t, Counted(t), NEW n \in Nat, NEW u \in transfer(t, n)
  PROVE  Failed(u) \/ (Counts(t, u, n) /\ u.gzip = t.gzip)
<1> USE DEF Counted, Counts, Taken
<1>1. t \in Transactions /\ t.wire \in Wires /\ t.buffer \in Nat /\ t.wire.body \in Nat
  BY DEF Transactions, Wires
<1>2. CASE t.mode = "CHUNKED"
  <2>1. u \in SendBody(t, n)
    BY <1>2 DEF transfer
  <2> QED BY <1>1, <1>2, <2>1, SendBodyIs
<1>3. CASE t.mode = "HEADONLY"
  <2>1. u = t
    BY <1>3 DEF transfer
  <2> QED BY <1>3, <2>1
<1>4. CASE t.mode = "UNDECIDED"
  <2> DEFINE v == [t EXCEPT !.buffer = @ + n]
  <2>1. /\ v \in Transactions /\ v.exc = "no" /\ v.gzip = t.gzip /\ v.wire = t.wire
        /\ v.mode = "UNDECIDED" /\ v.headerSent = t.headerSent /\ v.code = t.code
        /\ v.buffer = t.buffer + n /\ v.finished = t.finished
    BY <1>1, <1>4 DEF Transactions
  <2>2. CASE v.buffer <= ChunkMin
    <3>1. u = v
      BY <1>4, <2>2 DEF transfer
    <3> HIDE DEF v
    <3> QED BY <1>1, <1>4, <2>1, <3>1
  <2>3. CASE ~(v.buffer <= ChunkMin)
    <3>1. u \in Then(Then(start_transfer(v, "CHUNKED"),
                          LAMBDA x : SendBody(x, x.buffer)),
                     LAMBDA x : {[x EXCEPT !.buffer = 0]})
      BY <1>4, <2>3 DEF transfer
    <3> HIDE DEF v
    <3>2. PICK x \in start_transfer(v, "CHUNKED") :
            \/ x.exc # "no" /\ u = x
            \/ /\ x.exc = "no"
               /\ \E y \in SendBody(x, x.buffer) :
                    u = IF y.exc = "no" THEN [y EXCEPT !.buffer = 0] ELSE y
      BY <3>1 DEF Then
    <3>3. ~v.headerSent /\ v.wire.headers = 0 /\ v.wire.body = 0 /\ "CHUNKED" \in Modes /\ ~v.finished
      BY <1>4, <2>1 DEF Modes
    <3>4. \/ Failed(x)
          \/ /\ x \in Transactions /\ x.exc = "no" /\ ~x.finished /\ x.headerSent
             /\ x.mode = "CHUNKED" /\ x.gzip = v.gzip /\ x.code = v.code
             /\ x.buffer = v.buffer
             /\ x.wire.headers = 1 /\ x.wire.code = v.code /\ x.wire.body = v.wire.body
      BY <2>1, <3>2, <3>3, StartIs
    <3>5. CASE Failed(x)
      BY <3>2, <3>5 DEF Failed
    <3>6. CASE ~Failed(x)
      <4>1. PICK y \in SendBody(x, x.buffer) :
              u = IF y.exc = "no" THEN [y EXCEPT !.buffer = 0] ELSE y
        BY <3>2, <3>4, <3>6
      <4>2. x.buffer \in Nat
        BY <3>4, <3>6 DEF Transactions
      <4>3. \/ Failed(y)
            \/ /\ y \in Transactions /\ y.exc = "no" /\ ~y.finished
               /\ y.mode = x.mode /\ y.gzip = x.gzip /\ y.code = x.code
               /\ y.wire.headers = x.wire.headers /\ y.wire.code = x.wire.code
               /\ y.wire.body = x.wire.body + x.buffer
        BY <3>4, <3>6, <4>1, <4>2, SendBodyIs
      <4>4. CASE Failed(y)
        BY <4>1, <4>4 DEF Failed
      <4>5. CASE ~Failed(y)
        <5>1. u = [y EXCEPT !.buffer = 0] /\ y \in Transactions
          BY <4>1, <4>3, <4>5
        <5>2. /\ u \in Transactions /\ u.exc = y.exc /\ u.finished = y.finished /\ u.mode = y.mode
              /\ u.gzip = y.gzip /\ u.code = y.code /\ u.wire = y.wire /\ u.buffer = 0
          BY <5>1 DEF Transactions
        <5>3. u.wire.body = t.buffer + n /\ u.wire.body + u.buffer = (t.wire.body + t.buffer) + n
          BY <1>1, <1>4, <2>1, <3>3, <3>4, <3>6, <4>3, <4>5, <5>2
        <5> QED BY <1>4, <2>1, <3>4, <3>6, <4>3, <4>5, <5>2, <5>3
      <4> QED BY <4>4, <4>5
    <3> QED BY <3>5, <3>6
  <2> QED BY <2>2, <2>3
<1> QED BY <1>2, <1>3, <1>4 DEF Counted

\* The same but for the units: what deflate has kept is not seen.
Goes(t, u) ==
  /\ Counted(u) /\ u.code = t.code
  /\ u.mode = "HEADONLY" <=> t.mode = "HEADONLY"

LEMMA deflateCounts ==
  ASSUME NEW t, Counted(t), NEW n \in Nat, NEW u \in deflate(t, n)
  PROVE  Failed(u) \/ (Goes(t, u) /\ u.gzip = t.gzip)
<1>1. CASE u = t
  BY <1>1 DEF Goes
<1>2. CASE \E k \in 1..n : u \in transfer(t, k)
  <2>1. PICK k \in Nat : u \in transfer(t, k)
    BY <1>2
  <2> QED BY <2>1, transferCounts DEF Counts, Goes
<1> QED BY <1>1, <1>2 DEF deflate

LEMMA writeCounts ==
  ASSUME NEW t, Counted(t), NEW n \in Nat, NEW u \in write(t, n)
  PROVE  \/ Failed(u)
         \/ Goes(t, u) /\ (~u.gzip => ~t.gzip /\ Counts(t, u, n))
<1>1. ~t.finished /\ t \in Transactions /\ t.buffer \in Nat /\ t.wire.body \in Nat
  BY DEF Counted, Transactions, Wires
<1>2. CASE n = 0
  <2>1. u = t
    BY <1>1, <1>2 DEF write
  <2> QED BY <1>1, <1>2, <2>1 DEF Goes, Counts, Taken
<1>3. CASE n # 0 /\ t.gzip
  <2>1. u \in deflate(t, n)
    BY <1>1, <1>3 DEF write
  <2> QED BY <1>3, <2>1, deflateCounts
<1>4. CASE n # 0 /\ ~t.gzip
  <2>1. PICK x \in transfer(t, n) :
          \/ u = x
          \/ /\ x.exc = "no" /\ x.mode = "UNDECIDED"
             /\ u \in deflate([x EXCEPT !.gzip = TRUE, !.buffer = 0], x.buffer)
    BY <1>1, <1>4 DEF write, Then
  <2>2. Failed(x) \/ (Counts(t, x, n) /\ x.gzip = t.gzip)
    BY <2>1, transferCounts
  <2>3. CASE u = x
    BY <1>4, <2>2, <2>3 DEF Counts, Goes
  <2>4. CASE /\ x.exc = "no" /\ x.mode = "UNDECIDED"
             /\ u \in deflate([x EXCEPT !.gzip = TRUE, !.buffer = 0], x.buffer)
    <3> DEFINE y == [x EXCEPT !.gzip = TRUE, !.buffer = 0]
    <3>1. Counts(t, x, n)
      BY <2>2, <2>4 DEF Failed
    <3>2. x \in Transactions /\ x.buffer \in Nat
      BY <3>1 DEF Counts, Counted, Transactions
    <3>3. /\ y \in Transactions /\ y.gzip = TRUE /\ y.buffer = 0 /\ y.exc = x.exc /\ y.mode = x.mode
          /\ y.wire = x.wire /\ y.code = x.code /\ y.headerSent = x.headerSent
          /\ y.finished = x.finished
      BY <3>2 DEF Transactions
    <3>4. u \in deflate(y, x.buffer)
      BY <2>4
    <3> HIDE DEF y
    <3>5. Counted(y)
      BY <3>1, <3>3 DEF Counts, Counted
    <3>6. Failed(u) \/ (Goes(y, u) /\ u.gzip = y.gzip)
      BY <3>2, <3>4, <3>5, deflateCounts
    <3> QED BY <3>1, <3>3, <3>6 DEF Counts, Goes
  <2> QED BY <2>1, <2>3, <2>4
<1> QED BY <1>2, <1>3, <1>4

\* What finish() leaves of t: the code and all of the units, unless nothing of
\* them is sent.
Ends(t, u) ==
  /\ u.wire.headers = 1 => u.wire.code = t.code
  /\ u.wire.headers = 1 /\ ~u.gzip /\ u.mode # "HEADONLY" =>
       ~t.gzip /\ t.mode # "HEADONLY" /\ u.wire.body = Taken(t)

LEMMA SendRestEnds ==
  ASSUME NEW t, Counted(t), NEW u \in SendRest(t)
  PROVE  \/ Failed(u)
         \/ u \in Transactions /\ u.exc = "no" /\ u.gzip = t.gzip /\ Ends(t, u)
<1> USE DEF Counted, Ends, Taken
<1>1. /\ t \in Transactions /\ t.wire \in Wires /\ t.buffer \in Nat /\ t.wire.body \in Nat
      /\ t.exc = "no" /\ ~t.finished
  BY DEF Transactions, Wires
<1>2. CASE t.mode = "CHUNKED"
  <2> DEFINE w == [t.wire EXCEPT !.ended = TRUE]
  <2>1. /\ w \in Wires /\ w.headers = t.wire.headers /\ w.code = t.wire.code
        /\ w.body = t.wire.body
    BY <1>1 DEF Wires
  <2>2. u \in Send(t, w)
    BY <1>2 DEF SendRest
  <2> HIDE DEF w
  <2>3. CASE u = [t EXCEPT !.alive = FALSE, !.exc = "io"]
    BY <1>1, <2>3 DEF Failed, Transactions
  <2>4. CASE u = [t EXCEPT !.wire = w]
    <3>1. /\ u \in Transactions /\ u.wire = w /\ u.exc = "no" /\ u.gzip = t.gzip
          /\ u.mode = t.mode
      BY <1>1, <2>1, <2>4 DEF Transactions
    <3> QED BY <1>1, <1>2, <2>1, <3>1
  <2> QED BY <2>2, <2>3, <2>4, SendIs
<1>3. CASE t.mode # "CHUNKED" /\ t.code \in NoBody
  <2>1. u \in start_transfer(t, "HEADONLY") /\ "HEADONLY" \in Modes
    BY <1>3 DEF SendRest, Modes
  <2>2. ~t.headerSent /\ t.wire.headers = 0
    BY <1>3
  <2>3. \/ Failed(u)
        \/ /\ u \in Transactions /\ u.exc = "no" /\ u.mode = "HEADONLY" /\ u.gzip = t.gzip
           /\ u.wire.code = t.code
    BY <1>1, <2>1, <2>2, StartIs
  <2> QED BY <2>3
<1>4. CASE t.mode = "HEADONLY" /\ t.code \notin NoBody
  <2>1. u = t
    BY <1>4 DEF SendRest
  <2> QED BY <1>1, <1>4, <2>1
<1>5. CASE t.mode = "UNDECIDED" /\ t.code \notin NoBody
  <2> DEFINE v == [t EXCEPT !.length = t.buffer]
  <2>1. /\ v \in Transactions /\ v.exc = "no" /\ ~v.finished /\ ~v.headerSent
        /\ v.wire = t.wire /\ v.buffer = t.buffer /\ v.code = t.code /\ v.gzip = t.gzip
        /\ v.wire.headers = 0 /\ v.wire.body = 0 /\ "SIMPLE" \in Modes
    BY <1>1, <1>5 DEF Transactions, Modes
  <2>2. u \in Then(start_transfer(v, "SIMPLE"), LAMBDA x :
                 IF x.buffer = 0 THEN {x}
                 ELSE Then(SendBody(x, x.buffer),
                           LAMBDA y : {[y EXCEPT !.buffer = 0]}))
    BY <1>5 DEF SendRest
  <2> HIDE DEF v
  <2>3. PICK x \in start_transfer(v, "SIMPLE") :
          \/ u = x /\ (x.exc # "no" \/ x.buffer = 0)
          \/ /\ x.exc = "no"
             /\ \E y \in SendBody(x, x.buffer) :
                  u = IF y.exc = "no" THEN [y EXCEPT !.buffer = 0] ELSE y
    BY <2>2 DEF Then
  <2>4. \/ Failed(x)
        \/ /\ x \in Transactions /\ x.exc = "no" /\ ~x.finished
           /\ x.mode = "SIMPLE" /\ x.gzip = v.gzip /\ x.code = v.code
           /\ x.buffer = v.buffer
           /\ x.wire.headers = 1 /\ x.wire.code = v.code /\ x.wire.body = v.wire.body
    BY <2>1, <2>3, StartIs
  <2>5. CASE Failed(x)
    <3>1. u = x
      BY <2>3, <2>5 DEF Failed
    <3> QED BY <2>5, <3>1
  <2>6. CASE ~Failed(x) /\ u = x /\ x.buffer = 0
    BY <1>1, <1>5, <2>1, <2>4, <2>6
  <2>7. CASE /\ ~Failed(x)
             /\ \E y \in SendBody(x, x.buffer) :
                  u = IF y.exc = "no" THEN [y EXCEPT !.buffer = 0] ELSE y
    <3>1. PICK y \in SendBody(x, x.buffer) :
            u = IF y.exc = "no" THEN [y EXCEPT !.buffer = 0] ELSE y
      BY <2>7
    <3>2. x.buffer \in Nat
      BY <2>4, <2>7 DEF Transactions
    <3>3. \/ Failed(y)
          \/ /\ y \in Transactions /\ y.exc = "no" /\ ~y.finished
             /\ y.mode = x.mode /\ y.gzip = x.gzip /\ y.code = x.code
             /\ y.wire.headers = x.wire.headers /\ y.wire.code = x.wire.code
             /\ y.wire.body = x.wire.body + x.buffer
      BY <2>4, <2>7, <3>1, <3>2, SendBodyIs
    <3>4. CASE Failed(y)
      BY <3>1, <3>4 DEF Failed
    <3>5. CASE ~Failed(y)
      <4>1. u = [y EXCEPT !.buffer = 0] /\ y \in Transactions
        BY <3>1, <3>3, <3>5
      <4>2. /\ u \in Transactions /\ u.exc = y.exc /\ u.mode = y.mode
            /\ u.gzip = y.gzip /\ u.wire = y.wire
        BY <4>1 DEF Transactions
      <4>3. u.wire.body = t.wire.body + t.buffer
        BY <1>1, <1>5, <2>1, <2>4, <2>7, <3>3, <3>5, <4>2
      <4> QED BY <1>5, <2>1, <2>4, <2>7, <3>3, <3>5, <4>2, <4>3
    <3> QED BY <3>4, <3>5
  <2> QED BY <2>3, <2>4, <2>5, <2>6, <2>7
<1> QED BY <1>2, <1>3, <1>4, <1>5

LEMMA finishEnds ==
  ASSUME NEW t, Counted(t), NEW u \in finish(t)
  PROVE  Failed(u) \/ (u.finished /\ u.exc = "no" /\ Ends(t, u))
<1>1. ~t.finished
  BY DEF Counted
<1>2. PICK x \in IF t.gzip THEN transfer(t, 1) ELSE {t} :
        \/ x.exc # "no" /\ u = x
        \/ /\ x.exc = "no"
           /\ \E y \in SendRest(x) : u = IF y.exc = "no" THEN [y EXCEPT !.finished = TRUE] ELSE y
  BY <1>1 DEF finish, Then
<1>3. Failed(x) \/ (Counted(x) /\ x.gzip = t.gzip /\ x.code = t.code /\ (x = t \/ t.gzip))
  <2>1. CASE t.gzip
    BY <1>2, <2>1, transferCounts DEF Counts
  <2>2. CASE ~t.gzip
    BY <1>2, <2>2
  <2> QED BY <2>1, <2>2
<1>4. CASE Failed(x)
  BY <1>2, <1>4 DEF Failed
<1>5. CASE ~Failed(x)
  <2>1. PICK y \in SendRest(x) : u = IF y.exc = "no" THEN [y EXCEPT !.finished = TRUE] ELSE y
    BY <1>2, <1>3, <1>5 DEF Counted
  <2>2. Failed(y) \/ (y \in Transactions /\ y.exc = "no" /\ y.gzip = x.gzip /\ Ends(x, y))
    BY <1>3, <1>5, <2>1, SendRestEnds
  <2>3. CASE Failed(y)
    BY <2>1, <2>3 DEF Failed
  <2>4. CASE ~Failed(y)
    <3>1. u = [y EXCEPT !.finished = TRUE] /\ y \in Transactions
      BY <2>1, <2>2, <2>4
    <3>2. /\ u.finished = TRUE /\ u.exc = y.exc /\ u.wire = y.wire /\ u.gzip = y.gzip /\ u.mode = y.mode
      BY <3>1 DEF Transactions
    <3>3. Ends(x, y) /\ y.exc = "no" /\ y.gzip = x.gzip
      BY <2>2, <2>4
    <3>4. Ends(t, u)
      BY <1>3, <1>5, <3>2, <3>3 DEF Ends
    <3> QED BY <3>2, <3>3, <3>4
  <2> QED BY <2>3, <2>4
<1> QED BY <1>4, <1>5

\* An error page ends a response that has not begun with its code.
LEMMA ErrorEnds ==
  ASSUME NEW t, Counted(t), t.mode # "CHUNKED", NEW c \in Nat, NEW u \in display_error(t, c)
  PROVE  Failed(u) \/ (u.finished /\ u.exc = "no" /\ (u.wire.headers = 1 => u.wire.code = c))
<1> DEFINE v == [t EXCEPT !.code = c]
<1>1. t \in Transactions /\ t.exc = "no" /\ ~t.headerSent
  BY DEF Counted
<1>2. /\ v \in Transactions /\ v.code = c /\ v.exc = "no" /\ v.finished = t.finished
      /\ v.mode = t.mode /\ v.wire = t.wire /\ v.headerSent = t.headerSent
  BY <1>1 DEF Transactions
<1>3. get_response(t, c) = {v}
  BY <1>1 DEF get_response
<1> HIDE DEF v
<1>4. Counted(v)
  BY <1>2 DEF Counted
<1>5. PICK x : /\ x = v \/ x \in write(v, 1)
               /\ IF x.exc = "no" THEN u \in finish(x) ELSE u = x
  BY <1>2, <1>3 DEF display_error, Then
<1>6. Failed(x) \/ (Counted(x) /\ x.code = c)
  BY <1>2, <1>4, <1>5, writeCounts DEF Goes
<1>7. CASE Failed(x)
  BY <1>5, <1>7 DEF Failed
<1>8. CASE ~Failed(x)
  <2>1. Counted(x) /\ x.code = c /\ u \in finish(x)
    BY <1>5, <1>6, <1>8 DEF Counted
  <2> QED BY <2>1, finishEnds DEF Ends
<1> QED BY <1>7, <1>8

-----------------------------------------------------------------------------
(* The answer of the application: the units it has sent are in records on   *)
(* the way, with the fiber or lost, and lost only when it is gone and its    *)
(* last record with it.                                                     *)

Replies == [type : {"STDOUT", "STDERR", "END", "OTHER"}, n : 0..2]

Unit(s, i) == IF i <= Len(s) /\ s[i].type = "STDOUT" THEN s[i].n ELSE 0

\* The units of the records that are not read yet, two at most.
Flying(s) == Unit(s, 1) + Unit(s, 2)

Closing == {"END", "OTHER"}
Closed(s) == \E i \in 1..Len(s) : s[i].type \in Closing

AppInv ==
  /\ fromApp \in Seq(Replies) /\ Len(fromApp) <= 2
  /\ out \in Nat /\ out <= MaxOut
  /\ app \in {"runs", "ended", "gone"}
  /\ \A i \in 1..Len(fromApp) :
       fromApp[i].type \in Closing => i = Len(fromApp) /\ app # "runs"

\* Nothing of what the application has sent is lost.
Complete == app # "gone" \/ Closed(fromApp)

HeadOpen ==
  /\ buffered < HeadUnits /\ buffered + Flying(fromApp) <= out
  /\ Complete => buffered + Flying(fromApp) = out

\* k units of the body have been written, under a head with code c.
Relayed(k, c) ==
  /\ tx \in Pieces([method EXCEPT !.code = c], k) /\ tx.code = c
  /\ HeadUnits + k + Flying(fromApp) <= out
  /\ c \in NoBody => out = HeadUnits

HeadKnown ==
  /\ Counted(tx)
  /\ \E k \in Nat, c \in UpstreamCodes \cup NoBody : Relayed(k, c)
  /\ Complete /\ ~tx.gzip /\ tx.mode # "HEADONLY" =>
       HeadUnits + Taken(tx) + Flying(fromApp) = out

AnswerInv ==
  /\ AppInv
  /\ \E m \in Methods, noGzip \in BOOLEAN : method = New(m, noGzip, TRUE)
  /\ buffered \in Nat
  /\ at # "done" => IF head = "open" THEN HeadOpen ELSE HeadKnown
  /\ at = "done" => NothingCut /\ MethodCovers

RelayInv == OrderInv /\ AnswerInv

LEMMA FlyingIs ==
  ASSUME NEW s \in Seq(Replies)
  PROVE  /\ Unit(s, 1) \in Nat /\ Unit(s, 2) \in Nat /\ Flying(s) \in Nat
         /\ \A i \in 1..Len(s) : s[i] \in Replies /\ s[i].n \in Nat
<1>1. ASSUME NEW i \in 1..Len(s) PROVE s[i] \in Replies /\ s[i].n \in Nat
  <2>1. s[i] \in Replies
    OBVIOUS
  <2> QED BY <2>1 DEF Replies
<1>2. Unit(s, 1) \in Nat /\ Unit(s, 2) \in Nat
  BY <1>1 DEF Unit
<1> QED BY <1>1, <1>2 DEF Flying

\* The first record is read.
LEMMA FlyingTail ==
  ASSUME NEW s \in Seq(Replies), s # <<>>, Len(s) <= 2
  PROVE  /\ s[1] \in Replies /\ Tail(s) \in Seq(Replies) /\ Len(Tail(s)) = Len(s) - 1
         /\ \A i \in 1..Len(Tail(s)) : i + 1 \in 1..Len(s) /\ Tail(s)[i] = s[i + 1]
         /\ Flying(s) = Unit(s, 1) + Flying(Tail(s))
<1> DEFINE r == Tail(s)
<1>1. /\ Len(s) \in 1..2 /\ r \in Seq(Replies) /\ Len(r) = Len(s) - 1
      /\ \A i \in 1..Len(r) : r[i] = s[i + 1]
  <2>1. Len(s) \in Nat /\ Len(s) # 0
    BY EmptySeq
  <2>2. /\ Tail(s) \in Seq(Replies) /\ Len(Tail(s)) = Len(s) - 1
        /\ \A i \in 1..Len(Tail(s)) : Tail(s)[i] = s[i + 1]
    BY HeadTailProperties
  <2> QED BY <2>1, <2>2
<1> HIDE DEF r
<1>2. s[1] \in Replies /\ \A i \in 1..Len(r) : i + 1 \in 1..Len(s)
  BY <1>1
<1>3. Unit(r, 2) = 0 /\ Unit(r, 1) = Unit(s, 2)
  <2>1. CASE Len(s) = 1
    BY <1>1, <2>1 DEF Unit
  <2>2. CASE Len(s) = 2
    BY <1>1, <2>2 DEF Unit
  <2> QED BY <1>1, <2>1, <2>2
<1>4. Flying(s) = Unit(s, 1) + Flying(r)
  BY <1>1, <1>3, FlyingIs DEF Flying
<1> QED BY <1>1, <1>2, <1>4 DEF r

\* Another record is sent.
LEMMA FlyingAppend ==
  ASSUME NEW s \in Seq(Replies), Len(s) < 2, NEW r \in Replies
  PROVE  /\ Append(s, r) \in Seq(Replies) /\ Len(Append(s, r)) = Len(s) + 1
         /\ Append(s, r)[Len(s) + 1] = r
         /\ \A i \in 1..Len(s) : Append(s, r)[i] = s[i]
         /\ Flying(Append(s, r)) = Flying(s) + IF r.type = "STDOUT" THEN r.n ELSE 0
<1> DEFINE q == Append(s, r)
<1>1. /\ q \in Seq(Replies) /\ Len(q) = Len(s) + 1 /\ q[Len(s) + 1] = r
      /\ \A i \in 1..Len(s) : q[i] = s[i]
  BY AppendProperties
<1>2. Len(s) \in 0..1 /\ r.n \in Nat
  <2>1. r.n \in Nat
    BY DEF Replies
  <2>2. Len(s) \in 0..1
    <3> DEFINE l == Len(s)
    <3>1. l \in Nat /\ l < 2
      BY LenProperties
    <3> HIDE DEF l
    <3>2. l \in 0..1
      BY <3>1
    <3> QED BY <3>2 DEF l
  <2> QED BY <2>1, <2>2
<1> HIDE DEF q
<1>3. CASE Len(s) = 0
  <2>1. /\ Unit(s, 1) = 0 /\ Unit(s, 2) = 0 /\ Unit(q, 2) = 0
        /\ Unit(q, 1) = IF r.type = "STDOUT" THEN r.n ELSE 0
    BY <1>1, <1>3 DEF Unit
  <2>2. Flying(q) = Flying(s) + IF r.type = "STDOUT" THEN r.n ELSE 0
    BY <1>2, <2>1 DEF Flying
  <2> QED BY <1>1, <2>2 DEF q
<1>4. CASE Len(s) = 1
  <2>1. /\ Unit(s, 2) = 0 /\ Unit(q, 1) = Unit(s, 1) /\ Unit(s, 1) \in Nat
        /\ Unit(q, 2) = IF r.type = "STDOUT" THEN r.n ELSE 0
    BY <1>1, <1>4, FlyingIs DEF Unit
  <2>2. Flying(q) = Flying(s) + IF r.type = "STDOUT" THEN r.n ELSE 0
    BY <1>2, <2>1 DEF Flying
  <2> QED BY <1>1, <2>2 DEF q
<1> QED BY <1>2, <1>3, <1>4

\* Only the first k records are left.
LEMMA FlyingPrefix ==
  ASSUME NEW s \in Seq(Replies), Len(s) <= 2, NEW k \in 0..Len(s)
  PROVE  /\ SubSeq(s, 1, k) \in Seq(Replies) /\ Len(SubSeq(s, 1, k)) = k
         /\ \A i \in 1..k : SubSeq(s, 1, k)[i] = s[i]
         /\ Flying(SubSeq(s, 1, k)) <= Flying(s)
         /\ k = Len(s) => Flying(SubSeq(s, 1, k)) = Flying(s)
<1> DEFINE q == SubSeq(s, 1, k)
<1>1. k \in Nat /\ \A i \in 1..k : s[i] \in Replies
  BY FlyingIs
<1>2. q \in Seq(Replies) /\ Len(q) = k /\ \A i \in 1..k : q[i] = s[i]
  BY <1>1, SubSeqProperties
<1> HIDE DEF q
<1>3. \A i \in {1, 2} : Unit(q, i) = (IF i <= k THEN Unit(s, i) ELSE 0)
  BY <1>1, <1>2 DEF Unit
<1>4. Unit(s, 1) \in Nat /\ Unit(s, 2) \in Nat
  BY FlyingIs
<1>5. Unit(q, 1) \in 0..Unit(s, 1) /\ Unit(q, 2) \in 0..Unit(s, 2)
  BY <1>3, <1>4
<1>6. Flying(q) <= Flying(s)
  BY <1>4, <1>5 DEF Flying
<1>7. k = Len(s) => Flying(q) = Flying(s)
  <2> SUFFICES ASSUME k = Len(s) PROVE Unit(q, 1) = Unit(s, 1) /\ Unit(q, 2) = Unit(s, 2)
    BY DEF Flying
  <2> QED BY <1>2 DEF Unit
<1> QED BY <1>2, <1>6, <1>7 DEF q

\* The transaction when the method is called.
LEMMA NewCounted ==
  ASSUME NEW m \in Methods, NEW noGzip \in BOOLEAN
  PROVE  LET t == New(m, noGzip, TRUE) IN
           Counted(t) /\ t.mode # "CHUNKED" /\ Taken(t) = 0
<1> USE TransactionAssumption
<1>1. NoLength \in Nat
  BY DEF NoLength
<1>2. NoWire \in Wires
  BY <1>1 DEF NoWire, Wires
<1> DEFINE t == New(m, noGzip, TRUE)
<1>3. /\ t.wire = NoWire /\ t.mode \in {"UNDECIDED", "HEADONLY"} /\ t.exc = "no"
      /\ t.finished = FALSE /\ t.headerSent = FALSE /\ t.buffer = 0
  BY DEF New
<1>4. t \in Transactions
  BY <1>1, <1>2 DEF New, Transactions, Modes
<1>5. NoWire.headers = 0 /\ NoWire.body = 0
  BY DEF NoWire
<1> HIDE DEF t
<1>6. Counted(t) /\ t.mode # "CHUNKED" /\ Taken(t) = 0
  BY <1>3, <1>4, <1>5 DEF Counted, Taken
<1> QED BY <1>6 DEF t

\* An exception leaves the transaction unfinished.
LEMMA ThrowFails ==
  ASSUME NEW t, Counted(t), NEW e \in {"io", "rt"}, NEW u \in Throw(t, e)
  PROVE  Failed(u)
<1>1. t \in Transactions /\ ~t.finished
  BY DEF Counted
<1> QED BY <1>1 DEF Throw, Failed, Transactions

\* What write() makes of the n units that come next.
LEMMA WriteRelays ==
  ASSUME NEW t, NEW k \in Nat, NEW v \in Pieces(t, k), Counted(v), NEW n \in 0..2,
         NEW u \in write(v, n)
  PROVE  /\ u \in Pieces(t, k + n)
         /\ \/ Failed(u)
            \/ Goes(v, u) /\ (~u.gzip => ~v.gzip /\ Counts(v, u, n))
<1>1. u \in Pieces(t, k + n)
  <2>1. CASE n = 0
    <3>1. u = v
      BY <2>1 DEF write, Counted
    <3> QED BY <2>1, <3>1
  <2>2. CASE n # 0
    <3>1. n \in 1..2 /\ v.exc = "no"
      BY <2>2 DEF Counted
    <3> QED BY <3>1, PiecesNext
  <2> QED BY <2>1, <2>2
<1>2. n \in Nat
  OBVIOUS
<1> QED BY <1>1, <1>2, writeCounts

\* forward_to_fcgi: what it can have written, and how it goes on from there.
Written(t) ==
  {[t EXCEPT !.code = c] : c \in NoBody}
    \cup UNION {Pieces([t EXCEPT !.code = code], n) :
                  n \in 0..MaxFile, code \in UpstreamCodes}

GoesOn(t) ==
  UNION {IF x.exc = "no" THEN finish(x) \cup Throw(x, "io") \cup Throw(x, "rt")
         ELSE {x} : x \in Written(t)}

LEMMA ForwardIs ==
  ASSUME NEW t
  PROVE  forward_to_fcgi(t) =
           Throw(t, "io") \cup Throw(t, "rt") \cup display_error(t, 502) \cup GoesOn(t)
BY DEF forward_to_fcgi, Then, GoesOn, Written

\* The ways in which forward_to_fcgi can end, as the relay comes to them.
LEMMA ForwardWrites ==
  ASSUME NEW t, NEW c \in UpstreamCodes \cup NoBody, NEW k \in Nat, k <= MaxFile,
         c \in NoBody => k = 0,
         NEW v \in Pieces([t EXCEPT !.code = c], k),
         NEW u, IF v.exc = "no" THEN u \in finish(v) \cup Throw(v, "io") \cup Throw(v, "rt")
                ELSE u = v
  PROVE  u \in forward_to_fcgi(t)
<1>1. v \in Written(t)
  <2>1. CASE c \in NoBody
    <3>1. v = [t EXCEPT !.code = c]
      BY <2>1, PiecesNone
    <3> QED BY <2>1, <3>1 DEF Written
  <2>2. CASE c \notin NoBody
    <3>1. c \in UpstreamCodes /\ k \in 0..MaxFile
      BY <2>2, TransactionAssumption
    <3> QED BY <3>1 DEF Written
  <2> QED BY <2>1, <2>2
<1>2. u \in GoesOn(t)
  BY <1>1 DEF GoesOn
<1> QED BY <1>2, ForwardIs

\* The application sends or loses records: what has come stays.
LEMMA OpenStays ==
  ASSUME HeadOpen, buffered \in Nat, buffered' = buffered,
         NEW f \in Nat, f = Flying(fromApp), NEW g \in Nat, g = Flying(fromApp)',
         out \in Nat, out' \in Nat, g + out <= f + out',
         Complete' => Complete /\ g + out = f + out'
  PROVE  HeadOpen'
<1>1. buffered < HeadUnits /\ buffered + f <= out /\ (Complete => buffered + f = out)
  BY DEF HeadOpen
<1>2. buffered' < HeadUnits
  BY <1>1 DEF HeadUnits
<1>3. buffered' + g <= out'
  BY <1>1
<1>4. Complete' => buffered' + g = out'
  BY <1>1
<1> QED BY <1>2, <1>3, <1>4 DEF HeadOpen

LEMMA KnownStays ==
  ASSUME HeadKnown, UNCHANGED <<tx, method>>,
         NEW f \in Nat, f = Flying(fromApp), NEW g \in Nat, g = Flying(fromApp)',
         out \in Nat, out' \in Nat, g + out <= f + out',
         Complete' => Complete /\ g + out = f + out',
         tx.code \in NoBody => out' = out
  PROVE  HeadKnown'
<1>1. PICK k \in Nat, c \in UpstreamCodes \cup NoBody : Relayed(k, c)
  BY DEF HeadKnown
<1>2. /\ tx \in Pieces([method EXCEPT !.code = c], k) /\ tx.code = c
      /\ HeadUnits + k + f <= out /\ (c \in NoBody => out = HeadUnits)
  BY <1>1 DEF Relayed
<1>3. HeadUnits + k + g <= out'
  BY <1>2 DEF HeadUnits
<1>4. Relayed(k, c)'
  BY <1>2, <1>3 DEF Relayed
<1>5. Counted(tx)' /\ Taken(tx) \in Nat
  <2>1. Counted(tx)
    BY DEF HeadKnown
  <2>2. tx.wire \in Wires /\ tx.buffer \in Nat
    BY <2>1 DEF Counted, Transactions
  <2> QED BY <2>1, <2>2 DEF Taken, Wires
<1>6. ASSUME Complete', ~tx.gzip, tx.mode # "HEADONLY" PROVE HeadUnits + Taken(tx) + g = out'
  <2>1. HeadUnits + Taken(tx) + f = out /\ g + out = f + out'
    BY <1>6 DEF HeadKnown
  <2> QED BY <1>5, <2>1 DEF HeadUnits
<1> QED BY <1>4, <1>5, <1>6 DEF HeadKnown

\* The fiber takes the first record.
LEMMA TakesRecord ==
  ASSUME AppInv, fromApp # <<>>, fromApp' = Tail(fromApp), UNCHANGED <<out, app>>
  PROVE  /\ AppInv' /\ fromApp[1] \in Replies
         /\ Flying(fromApp) \in Nat /\ Flying(fromApp)' \in Nat
         /\ Flying(fromApp) = Unit(fromApp, 1) + Flying(fromApp)'
         /\ Complete' => Complete
         /\ fromApp[1].type \in Closing => app # "runs" /\ Flying(fromApp)' = 0
<1> USE DEF AppInv
<1> DEFINE q == Tail(fromApp)
<1>1. /\ fromApp[1] \in Replies /\ q \in Seq(Replies) /\ Len(q) = Len(fromApp) - 1
      /\ \A i \in 1..Len(q) : i + 1 \in 1..Len(fromApp) /\ q[i] = fromApp[i + 1]
      /\ Flying(fromApp) = Unit(fromApp, 1) + Flying(q)
  BY FlyingTail
<1>2. fromApp' = q /\ Len(fromApp) \in 1..2
  <2>1. Len(fromApp) \in Nat /\ Len(fromApp) # 0 /\ Len(fromApp) <= 2
    BY EmptySeq
  <2>2. Len(fromApp) \in 1..2
    <3> DEFINE l == Len(fromApp)
    <3>1. l \in Nat /\ l # 0 /\ l <= 2
      BY <2>1
    <3> HIDE DEF l
    <3>2. l \in 1..2
      BY <3>1
    <3> QED BY <3>2 DEF l
  <2> QED BY <2>2
<1> HIDE DEF q
<1>3. Flying(fromApp) \in Nat /\ Flying(q) \in Nat
  BY <1>1, FlyingIs
<1>4. AppInv'
  <2>1. \A i \in 1..Len(q) : q[i].type \in Closing => i = Len(q) /\ app # "runs"
    BY <1>1, <1>2
  <2>2. Len(q) <= 2
    BY <1>1, <1>2
  <2> QED BY <1>1, <1>2, <2>1, <2>2
<1>5. Complete' => Complete
  <2>1. Closed(q) => Closed(fromApp)
    BY <1>1 DEF Closed
  <2> QED BY <1>2, <2>1 DEF Complete
<1>6. ASSUME fromApp[1].type \in Closing PROVE app # "runs" /\ Flying(q) = 0
  <2>1. 1 = Len(fromApp) /\ app # "runs"
    BY <1>2, <1>6
  <2>2. Len(q) = 0
    BY <1>1, <2>1
  <2> QED BY <2>1, <2>2 DEF Flying, Unit
<1> QED BY <1>1, <1>2, <1>3, <1>4, <1>5, <1>6

\* An exception ends the method.
LEMMA Breaks ==
  ASSUME RelayInv, at # "done", at' = "done", method' = method, AppInv', buffered' \in Nat,
         NEW e \in {"io", "rt"}, tx' \in Throw(tx, e)
  PROVE  AnswerInv'
<1> USE DEF RelayInv, AnswerInv, OrderInv
<1>1. PICK m \in Methods, noGzip \in BOOLEAN : method = New(m, noGzip, TRUE)
  OBVIOUS
<1>2. Counted(tx)
  BY <1>1, NewCounted DEF HeadKnown
<1>3. Failed(tx')
  BY <1>2, ThrowFails
<1>4. NothingCut'
  BY <1>3 DEF NothingCut, Failed
<1>5. tx' \in forward_to_fcgi(method)
  <2>1. CASE head = "open"
    <3>1. tx = method
      BY <2>1
    <3>2. tx' \in Throw(method, "io") \cup Throw(method, "rt")
      BY <3>1
    <3> QED BY <3>2, ForwardIs
  <2>2. CASE head # "open"
    <3>1. PICK k \in Nat, c \in UpstreamCodes \cup NoBody : Relayed(k, c)
      BY <2>2 DEF HeadKnown
    <3>2. /\ tx \in Pieces([method EXCEPT !.code = c], k)
          /\ HeadUnits + k + Flying(fromApp) <= out /\ (c \in NoBody => out = HeadUnits)
      BY <3>1 DEF Relayed
    <3>3. k <= MaxFile /\ (c \in NoBody => k = 0)
      <4>1. Flying(fromApp) \in Nat /\ out \in Nat /\ out <= MaxOut
        BY FlyingIs DEF AppInv
      <4> QED BY <3>2, <4>1, RelayAssumption, TransactionAssumption DEF HeadUnits
    <3>4. IF tx.exc = "no" THEN tx' \in finish(tx) \cup Throw(tx, "io") \cup Throw(tx, "rt")
          ELSE tx' = tx
      BY <1>2 DEF Counted
    <3> QED BY <3>2, <3>3, <3>4, ForwardWrites
  <2> QED BY <2>1, <2>2
<1>6. MethodCovers'
  BY <1>5 DEF MethodCovers
<1>7. \E m1 \in Methods, n1 \in BOOLEAN : method' = New(m1, n1, TRUE)
  BY <1>1
<1> QED BY <1>4, <1>6, <1>7

\* An error page ends it.
LEMMA Refuses ==
  ASSUME RelayInv, at # "done", at' = "done", method' = method, AppInv', buffered' \in Nat,
         head = "open", tx' \in display_error(tx, 502)
  PROVE  AnswerInv'
<1> USE DEF RelayInv, AnswerInv, OrderInv
<1>1. PICK m \in Methods, noGzip \in BOOLEAN : method = New(m, noGzip, TRUE)
  OBVIOUS
<1>2. Counted(tx) /\ tx.mode # "CHUNKED" /\ tx = method
  BY <1>1, NewCounted
<1>3. Failed(tx') \/ (tx'.wire.headers = 1 => tx'.wire.code = 502)
  <2> HIDE DEF RelayInv
  <2> DEFINE error == 502
             t == tx
             u == tx'
  <2>1. error \in Nat /\ Counted(t) /\ t.mode # "CHUNKED"
    BY <1>2
  <2>2. u \in display_error(t, error)
    OBVIOUS
  <2> HIDE DEF error, t, u
  <2>3. Failed(u) \/ (u.finished /\ u.exc = "no" /\ (u.wire.headers = 1 => u.wire.code = error))
    BY <2>1, <2>2, ErrorEnds
  <2> QED BY <2>3 DEF error, u
<1>4. NothingCut'
  BY <1>3 DEF NothingCut, Failed
<1>5. tx' \in forward_to_fcgi(method)
  BY <1>2, ForwardIs
<1>6. MethodCovers'
  BY <1>5 DEF MethodCovers
<1>7. \E m1 \in Methods, n1 \in BOOLEAN : method' = New(m1, n1, TRUE)
  BY <1>1
<1> QED BY <1>4, <1>6, <1>7

\* STDOUT becomes n units of the body behind what t has, of the f units that
\* are still on the way g are left.
LEMMA Continues ==
  ASSUME RelayInv, at # "done", method' = method, UNCHANGED <<out, app>>, AppInv',
         buffered' \in Nat, head' = "known",
         NEW f \in Nat, NEW g \in Nat, g = Flying(fromApp)', NEW n \in 0..2,
         NEW k \in Nat, NEW c \in UpstreamCodes \cup NoBody,
         NEW t \in Pieces([method EXCEPT !.code = c], k), Counted(t), t.code = c,
         HeadUnits + k + f <= out, f = n + g, c \in NoBody => out = HeadUnits,
         Complete' /\ ~t.gzip /\ t.mode # "HEADONLY" => HeadUnits + Taken(t) + f = out,
         NEW u \in write(t, n), tx' = u,
         at' = IF u.exc = "no" THEN "read" ELSE "done"
  PROVE  AnswerInv'
<1> DEFINE m == [method EXCEPT !.code = c]
<1>1. /\ u \in Pieces(m, k + n)
      /\ \/ Failed(u)
         \/ Goes(t, u) /\ (~u.gzip => ~t.gzip /\ Counts(t, u, n))
  BY WriteRelays
<1> HIDE DEF m
<1>2. k + n \in Nat /\ HeadUnits + (k + n) + g <= out /\ out \in Nat /\ out <= MaxOut
  BY SMTT(30) DEF HeadUnits, RelayInv, AnswerInv, AppInv
<1>3. k + n <= MaxFile /\ (c \in NoBody => k + n = 0)
  BY <1>2, RelayAssumption, TransactionAssumption DEF HeadUnits
<1>4. CASE Failed(u)
  <2>1. at' = "done" /\ u.exc # "no"
    BY <1>4 DEF Failed
  <2>2. u \in forward_to_fcgi(method)
    BY <1>1, <1>2, <1>3, <2>1, ForwardWrites DEF m
  <2>3. NothingCut' /\ MethodCovers'
    BY <1>4, <2>2 DEF NothingCut, MethodCovers, Failed
  <2> QED BY <2>1, <2>3 DEF RelayInv, AnswerInv
<1>5. CASE ~Failed(u)
  <2>1. Counted(u) /\ u.code = c /\ at' = "read"
    BY <1>1, <1>5 DEF Goes, Counted
  <2>2. Relayed(k + n, c)'
    BY <1>1, <1>2, <2>1 DEF Relayed, m
  <2>3. Taken(t) \in Nat
    <3>1. t.wire \in Wires /\ t.buffer \in Nat
      BY DEF Counted, Transactions
    <3> QED BY <3>1 DEF Taken, Wires
  <2>4. ASSUME Complete', ~u.gzip, u.mode # "HEADONLY"
        PROVE  HeadUnits + Taken(u) + g = out
    <3>1. ~t.gzip /\ t.mode # "HEADONLY" /\ Taken(u) = Taken(t) + n
      BY <1>1, <1>5, <2>4 DEF Goes, Counts
    <3>2. HeadUnits + Taken(t) + f = out
      BY <2>4, <3>1
    <3> QED BY <1>2, <2>3, <3>1, <3>2 DEF HeadUnits
  <2>5. HeadKnown'
    BY <1>2, <2>1, <2>2, <2>4 DEF HeadKnown
  <2> QED BY <2>1, <2>5 DEF RelayInv, AnswerInv
<1> QED BY <1>4, <1>5

\* What a record of the application is to the transaction.
LEMMA WritesAnswer ==
  ASSUME RelayInv, NEW next, next \in {"write", "read", "end"},
         at \in {"connect", "write", "end", "read"}, ~_env_sent \/ at = "write",
         UNCHANGED <<fromApp, out, app, head, buffered, method>>,
         \/ at' = next /\ tx' = tx
         \/ at' = "done" /\ tx' \in Throw(tx, "io")
         \/ at' = "done" /\ tx' \in display_error(tx, 502)
  PROVE  AnswerInv'
<1>1. head = "open" /\ HeadOpen /\ AppInv /\ buffered \in Nat /\ at # "done" /\ tx = method
  <2>1. head = "open" /\ tx = method
    BY DEF RelayInv, OrderInv
  <2> QED BY <2>1 DEF RelayInv, AnswerInv
<1>2. AppInv' /\ HeadOpen' /\ buffered' \in Nat
  BY <1>1 DEF AppInv, HeadOpen, Complete
<1>3. CASE at' = next /\ tx' = tx
  BY <1>1, <1>2, <1>3 DEF RelayInv, AnswerInv
<1>4. CASE at' = "done" /\ tx' \in Throw(tx, "io")
  BY <1>1, <1>2, <1>4, Breaks
<1>5. CASE at' = "done" /\ tx' \in display_error(tx, 502)
  BY <1>1, <1>2, <1>5, Refuses
<1> QED BY <1>3, <1>4, <1>5

LEMMA TakesHead ==
  ASSUME RelayInv, TakeHead
  PROVE  AnswerInv'
<1> DEFINE d == fromApp[1].n  f == Flying(fromApp)  g == Flying(fromApp)'
           n == buffered + d
<1>1. /\ at = "read" /\ head = "open" /\ fromApp # <<>> /\ fromApp' = Tail(fromApp)
      /\ fromApp[1].type = "STDOUT" /\ UNCHANGED <<method, out, app>>
  BY DEF TakeHead, Takes, Reading
<1>2. AppInv /\ HeadOpen /\ tx = method /\ buffered \in Nat
  BY <1>1 DEF RelayInv, AnswerInv, OrderInv
<1>3. /\ AppInv' /\ fromApp[1] \in Replies /\ f \in Nat /\ g \in Nat
      /\ f = Unit(fromApp, 1) + g /\ (Complete' => Complete)
  BY <1>1, <1>2, TakesRecord
<1>4. d \in 0..2 /\ f = d + g
  <2>1. Len(fromApp) \in Nat /\ Len(fromApp) # 0
    BY <1>1, <1>2, EmptySeq DEF AppInv
  <2>2. Unit(fromApp, 1) = d
    BY <1>1, <2>1 DEF Unit
  <2>3. d \in 0..2
    BY <1>3 DEF Replies
  <2> QED BY <1>3, <2>2, <2>3
<1>5. buffered \in 0..1 /\ out \in Nat /\ buffered + f <= out /\ (Complete => buffered + f = out)
  BY <1>2 DEF HeadOpen, AppInv, HeadUnits
<1>6. \/ n < HeadUnits /\ buffered' = n /\ UNCHANGED <<at, head, tx>>
      \/ /\ n >= HeadUnits /\ buffered' = 0 /\ head' = "known"
         /\ \E code \in CodesFor :
              \E t \in write([tx EXCEPT !.code = code], n - HeadUnits) : GoOn(t)
      \/ at' = "done" /\ tx' \in Throw(tx, "rt") /\ UNCHANGED <<head, buffered>>
  BY DEF TakeHead, Finish
<1> HIDE DEF d, f, g
<1>7. n \in 0..3
  BY <1>4, <1>5
<1>8. CASE n < HeadUnits /\ buffered' = n /\ UNCHANGED <<at, head, tx>>
  <2>1. n + g = buffered + f
    BY <1>3, <1>4, <1>5
  <2>2. HeadOpen'
    BY <1>1, <1>3, <1>5, <1>8, <2>1 DEF HeadOpen, g, HeadUnits
  <2>3. buffered' \in Nat
    BY <1>7, <1>8
  <2>4. at' # "done" /\ head' = "open" /\ method' = method
    BY <1>1, <1>8
  <2> HIDE DEF n
  <2> QED BY <1>3, <2>2, <2>3, <2>4 DEF RelayInv, AnswerInv
<1>9. CASE /\ n >= HeadUnits /\ buffered' = 0 /\ head' = "known"
           /\ \E code \in CodesFor :
                \E t \in write([tx EXCEPT !.code = code], n - HeadUnits) : GoOn(t)
  <2>1. PICK c \in CodesFor : \E t \in write([tx EXCEPT !.code = c], n - HeadUnits) : GoOn(t)
    BY <1>9
  <2> DEFINE t == [method EXCEPT !.code = c]
             b == n - HeadUnits
  <2>2. PICK u \in write(t, b) : GoOn(u)
    BY <1>2, <2>1
  <2>3. c \in UpstreamCodes \cup NoBody /\ (c \in NoBody => out = HeadUnits) /\ c \in Nat
    BY <2>1, TransactionAssumption DEF CodesFor, NoBody
  <2>4. Counted(t) /\ t.code = c /\ Taken(t) = 0
    <3>1. PICK m \in Methods, noGzip \in BOOLEAN : method = New(m, noGzip, TRUE)
      BY DEF RelayInv, AnswerInv
    <3>2. Counted(method) /\ method.mode # "CHUNKED" /\ Taken(method) = 0
      BY <3>1, NewCounted
    <3>3. method \in Transactions
      BY <3>2 DEF Counted
    <3>4. /\ t \in Transactions /\ t.code = c /\ t.exc = method.exc /\ t.mode = method.mode
          /\ t.finished = method.finished /\ t.wire = method.wire /\ t.buffer = method.buffer
          /\ t.headerSent = method.headerSent
      BY <2>3, <3>3 DEF Transactions
    <3> HIDE DEF t
    <3> QED BY <3>2, <3>4 DEF Counted, Taken
  <2>5. b \in 0..2 /\ n = b + HeadUnits
    BY <1>7, <1>9 DEF HeadUnits
  <2> DEFINE z == 0
  <2>6. t \in Pieces([method EXCEPT !.code = c], z) /\ z \in Nat
    BY PiecesNone
  <2> HIDE DEF n, b, t
  <2> DEFINE h == b + g
  <2>7. h \in Nat /\ HeadUnits + z + h <= out /\ (Complete' => HeadUnits + Taken(t) + h = out)
    BY <1>3, <1>4, <1>5, <2>4, <2>5 DEF HeadUnits, n
  <2>8. h = b + g
    OBVIOUS
  <2> HIDE DEF h, z
  <2>9. tx' = u /\ at' = IF u.exc = "no" THEN "read" ELSE "done"
    BY <2>2 DEF GoOn
  <2>10. g = Flying(fromApp)' /\ at # "done" /\ buffered' \in Nat /\ head' = "known"
    BY <1>1, <1>9 DEF g
  <2> QED BY <1>1, <1>3, <2>2, <2>3, <2>4, <2>5, <2>6, <2>7, <2>8, <2>9, <2>10, Continues
<1>10. CASE at' = "done" /\ tx' \in Throw(tx, "rt") /\ UNCHANGED <<head, buffered>>
  BY <1>1, <1>2, <1>3, <1>10, Breaks
<1> QED BY <1>6, <1>8, <1>9, <1>10

LEMMA TakesBody ==
  ASSUME RelayInv, TakeBody
  PROVE  AnswerInv'
<1> DEFINE n == fromApp[1].n  f == Flying(fromApp)  g == Flying(fromApp)'
<1>1. /\ at = "read" /\ head = "known" /\ fromApp # <<>> /\ fromApp' = Tail(fromApp)
      /\ fromApp[1].type = "STDOUT" /\ UNCHANGED <<method, out, app, head, buffered>>
  BY DEF TakeBody, Takes, Reading
<1>2. PICK u \in write(tx, n) : GoOn(u)
  BY DEF TakeBody
<1>3. AppInv /\ HeadKnown /\ buffered \in Nat
  BY <1>1 DEF RelayInv, AnswerInv
<1>4. /\ AppInv' /\ fromApp[1] \in Replies /\ f \in Nat /\ g \in Nat
      /\ f = Unit(fromApp, 1) + g /\ (Complete' => Complete)
  BY <1>1, <1>3, TakesRecord
<1>5. n \in 0..2 /\ f = n + g
  <2>1. Len(fromApp) \in Nat /\ Len(fromApp) # 0
    BY <1>1, <1>3, EmptySeq DEF AppInv
  <2>2. Unit(fromApp, 1) = n
    BY <1>1, <2>1 DEF Unit
  <2>3. n \in 0..2
    BY <1>4 DEF Replies
  <2> QED BY <1>4, <2>2, <2>3
<1>6. PICK k \in Nat, c \in UpstreamCodes \cup NoBody : Relayed(k, c)
  BY <1>3 DEF HeadKnown
<1>7. /\ tx \in Pieces([method EXCEPT !.code = c], k) /\ tx.code = c
      /\ HeadUnits + k + f <= out /\ (c \in NoBody => out = HeadUnits)
  BY <1>6 DEF Relayed
<1>8. Counted(tx) /\ (Complete' /\ ~tx.gzip /\ tx.mode # "HEADONLY" => HeadUnits + Taken(tx) + f = out)
  BY <1>3, <1>4 DEF HeadKnown
<1>9. tx' = u /\ at' = IF u.exc = "no" THEN "read" ELSE "done"
  BY <1>2 DEF GoOn
<1>10. g = Flying(fromApp)' /\ at # "done" /\ buffered' \in Nat /\ head' = "known"
  BY <1>1, <1>3
<1> HIDE DEF n, f, g
<1> QED BY <1>1, <1>2, <1>4, <1>5, <1>7, <1>8, <1>9, <1>10, Continues

LEMMA TakesError ==
  ASSUME RelayInv, TakeError
  PROVE  AnswerInv'
<1> DEFINE f == Flying(fromApp)  g == Flying(fromApp)'
<1>1. /\ at = "read" /\ fromApp # <<>> /\ fromApp' = Tail(fromApp)
      /\ fromApp[1].type = "STDERR" /\ UNCHANGED <<at, tx, method, out, app, head, buffered>>
  BY DEF TakeError, Takes, Reading
<1>2. AppInv /\ buffered \in Nat /\ out \in Nat /\ out' \in Nat
  BY <1>1 DEF RelayInv, AnswerInv, AppInv
<1>3. /\ AppInv' /\ f \in Nat /\ g \in Nat
      /\ f = Unit(fromApp, 1) + g /\ (Complete' => Complete)
  BY <1>1, <1>2, TakesRecord
<1>4. Unit(fromApp, 1) = 0
  BY <1>1 DEF Unit
<1>5. g + out <= f + out' /\ (Complete' => Complete /\ g + out = f + out')
  BY <1>1, <1>2, <1>3, <1>4
<1>6. f = Flying(fromApp) /\ g = Flying(fromApp)'
  OBVIOUS
<1> HIDE DEF f, g
<1>7. HeadOpen => HeadOpen'
  BY <1>1, <1>2, <1>3, <1>5, <1>6, OpenStays
<1>8. HeadKnown => HeadKnown'
  BY <1>1, <1>2, <1>3, <1>5, <1>6, KnownStays
<1> QED BY <1>1, <1>2, <1>3, <1>7, <1>8 DEF RelayInv, AnswerInv

LEMMA TakesEnd ==
  ASSUME RelayInv, TakeEnd
  PROVE  AnswerInv'
<1>1. /\ at = "read" /\ fromApp # <<>> /\ fromApp' = Tail(fromApp) /\ at' = "done"
      /\ fromApp[1].type = "END" /\ UNCHANGED <<method, out, app, head, buffered>>
      /\ tx' \in IF head = "open" THEN display_error(tx, 502) ELSE finish(tx)
  BY DEF TakeEnd, Takes, Reading, Finish
<1>2. AppInv /\ buffered \in Nat /\ out \in Nat /\ out <= MaxOut
  BY DEF RelayInv, AnswerInv, AppInv
<1>3. /\ AppInv' /\ Flying(fromApp) \in Nat /\ Flying(fromApp)' \in Nat
      /\ Flying(fromApp) = Unit(fromApp, 1) + Flying(fromApp)'
      /\ (fromApp[1].type \in Closing => app # "runs" /\ Flying(fromApp)' = 0)
  BY <1>1, <1>2, TakesRecord
<1>4. app # "runs" /\ Flying(fromApp) = 0
  <2>1. Unit(fromApp, 1) = 0
    BY <1>1 DEF Unit
  <2> QED BY <1>1, <1>3, <2>1 DEF Closing
<1>5. Complete
  <2>1. 1 \in 1..Len(fromApp)
    BY <1>1, <1>2, EmptySeq DEF AppInv
  <2> QED BY <1>1, <2>1 DEF Complete, Closed, Closing
<1>6. CASE head = "open"
  BY <1>1, <1>2, <1>3, <1>6, Refuses
<1>7. CASE head # "open"
  <2>1. HeadKnown /\ Counted(tx) /\ tx' \in finish(tx)
    BY <1>1, <1>7 DEF RelayInv, AnswerInv, HeadKnown
  <2>2. Failed(tx') \/ Ends(tx, tx')
    <3>1. PICK u \in finish(tx) : u = tx'
      BY <2>1
    <3>2. Failed(u) \/ Ends(tx, u)
      BY <2>1, finishEnds
    <3> QED BY <3>1, <3>2
  <2>3. NothingCut'
    <3> SUFFICES ASSUME tx'.finished, tx'.wire.headers = 1, ~tx'.gzip, tx'.mode # "HEADONLY"
                 PROVE  app' # "runs" /\ tx'.wire.body = out' - HeadUnits
      BY DEF NothingCut
    <3>1. ~tx.gzip /\ tx.mode # "HEADONLY" /\ tx'.wire.body = Taken(tx)
      BY <2>2 DEF Failed, Ends
    <3>2. HeadUnits + Taken(tx) + 0 = out
      BY <1>4, <1>5, <2>1, <3>1 DEF HeadKnown
    <3>3. Taken(tx) \in Nat
      <4>1. tx.wire \in Wires /\ tx.buffer \in Nat
        BY <2>1 DEF Counted, Transactions
      <4> QED BY <4>1 DEF Taken, Wires
    <3>4. Taken(tx) = out - HeadUnits
      BY <1>2, <3>2, <3>3 DEF HeadUnits
    <3> QED BY <1>1, <1>4, <3>1, <3>4
  <2>4. PICK k \in Nat, c \in UpstreamCodes \cup NoBody : Relayed(k, c)
    BY <2>1 DEF HeadKnown
  <2>5. /\ tx \in Pieces([method EXCEPT !.code = c], k)
        /\ HeadUnits + k + 0 <= out /\ (c \in NoBody => out = HeadUnits)
    BY <1>4, <2>4 DEF Relayed
  <2>6. k <= MaxFile /\ (c \in NoBody => k = 0)
    BY <1>2, <2>5, RelayAssumption, TransactionAssumption DEF HeadUnits
  <2>7. IF tx.exc = "no" THEN tx' \in finish(tx) \cup Throw(tx, "io") \cup Throw(tx, "rt")
        ELSE tx' = tx
    BY <2>1 DEF Counted
  <2>8. tx' \in forward_to_fcgi(method)
    BY <2>5, <2>6, <2>7, ForwardWrites
  <2>9. MethodCovers'
    BY <1>1, <2>8 DEF MethodCovers
  <2> QED BY <1>1, <1>2, <1>3, <2>3, <2>9 DEF RelayInv, AnswerInv
<1> QED BY <1>6, <1>7

LEMMA Sends ==
  ASSUME RelayInv, AppSends
  PROVE  AnswerInv'
<1> DEFINE f == Flying(fromApp)  g == Flying(fromApp)'
<1>1. /\ AppInv /\ buffered \in Nat /\ out \in Nat /\ out <= MaxOut
      /\ fromApp \in Seq(Replies) /\ app = "runs" /\ Len(fromApp) < 2
      /\ UNCHANGED <<at, tx, method, head, buffered>>
  BY DEF RelayInv, AnswerInv, AppInv, AppSends, fiberVars
<1>2. \E r \in Replies, n \in 0..2 :
        /\ fromApp' = Append(fromApp, r) /\ out' = out + n /\ out + n <= MaxOut
        /\ n = IF r.type = "STDOUT" THEN r.n ELSE 0
        /\ tx.code \in NoBody => n = 0
        /\ app' \in {"runs", "ended"} /\ (r.type \in Closing => app' # "runs")
  <2>1. CASE \E n \in 0..2 : /\ out + n <= MaxOut
                             /\ tx.code \in NoBody => n = 0
                             /\ out' = out + n /\ UNCHANGED app
                             /\ fromApp' = Append(fromApp, Record("STDOUT", n))
    <3>1. PICK n \in 0..2 : /\ out + n <= MaxOut
                            /\ tx.code \in NoBody => n = 0
                            /\ out' = out + n /\ UNCHANGED app
                            /\ fromApp' = Append(fromApp, Record("STDOUT", n))
      BY <2>1
    <3> DEFINE r == Record("STDOUT", n)
    <3>2. r \in Replies /\ r.type = "STDOUT" /\ r.n = n
      BY DEF Record, Replies
    <3>3. fromApp' = Append(fromApp, r)
      BY <3>1
    <3> HIDE DEF r
    <3>4. r.type \notin Closing
      BY <3>2 DEF Closing
    <3> QED BY <1>1, <3>1, <3>2, <3>3, <3>4
  <2>2. CASE fromApp = <<>> /\ fromApp' = <<Record("STDERR", 1)>> /\ UNCHANGED <<out, app>>
    <3> DEFINE r == Record("STDERR", 1)
    <3>1. r \in Replies /\ r.type = "STDERR"
      BY DEF Record, Replies
    <3>2. fromApp' = Append(fromApp, r)
      BY <2>2
    <3> HIDE DEF r
    <3>3. r.type \notin Closing /\ out' = out + 0 /\ out + 0 <= MaxOut /\ 0 \in 0..2
      BY <1>1, <2>2, <3>1 DEF Closing
    <3> QED BY <1>1, <2>2, <3>1, <3>2, <3>3
  <2>3. CASE /\ \E type \in {"END", "OTHER"} : fromApp' = Append(fromApp, Record(type, 0))
             /\ app' = "ended" /\ UNCHANGED out
    <3>1. PICK type \in {"END", "OTHER"} : fromApp' = Append(fromApp, Record(type, 0))
      BY <2>3
    <3> DEFINE r == Record(type, 0)
    <3>2. r \in Replies /\ r.type # "STDOUT"
      BY DEF Record, Replies
    <3>3. fromApp' = Append(fromApp, r)
      BY <3>1
    <3> HIDE DEF r
    <3>4. out' = out + 0 /\ out + 0 <= MaxOut /\ 0 \in 0..2
      BY <1>1, <2>3
    <3> QED BY <2>3, <3>2, <3>3, <3>4
  <2> QED BY <2>1, <2>2, <2>3 DEF AppSends
<1>3. PICK r \in Replies, n \in 0..2 :
        /\ fromApp' = Append(fromApp, r) /\ out' = out + n /\ out + n <= MaxOut
        /\ n = IF r.type = "STDOUT" THEN r.n ELSE 0
        /\ tx.code \in NoBody => n = 0
        /\ app' \in {"runs", "ended"} /\ (r.type \in Closing => app' # "runs")
  BY <1>2
<1>4. /\ fromApp' \in Seq(Replies) /\ Len(fromApp') = Len(fromApp) + 1
      /\ fromApp'[Len(fromApp) + 1] = r
      /\ \A i \in 1..Len(fromApp) : fromApp'[i] = fromApp[i]
      /\ g = f + n /\ Len(fromApp) \in Nat
  <2> DEFINE q == Append(fromApp, r)
  <2>1. /\ q \in Seq(Replies) /\ Len(q) = Len(fromApp) + 1 /\ q[Len(fromApp) + 1] = r
        /\ \A i \in 1..Len(fromApp) : q[i] = fromApp[i]
        /\ Flying(q) = Flying(fromApp) + IF r.type = "STDOUT" THEN r.n ELSE 0
    BY <1>1, FlyingAppend
  <2>2. fromApp' = q /\ Len(fromApp) \in Nat
    BY <1>1, <1>3, LenProperties
  <2> HIDE DEF q
  <2> QED BY <1>3, <2>1, <2>2
<1>5. f \in Nat /\ g \in Nat /\ out' \in Nat
  BY SMTT(30), <1>1, <1>3, <1>4, FlyingIs
<1>6. AppInv'
  <2>1. ASSUME NEW i \in 1..Len(fromApp'), fromApp'[i].type \in Closing
        PROVE  i = Len(fromApp') /\ app' # "runs"
    <3>1. CASE i = Len(fromApp) + 1
      BY <1>3, <1>4, <2>1, <3>1
    <3>2. CASE i # Len(fromApp) + 1
      <4>1. i \in 1..Len(fromApp)
        BY <1>4, <3>2
      <4> QED BY <1>1, <1>4, <2>1, <4>1 DEF AppInv
    <3> QED BY <3>1, <3>2
  <2>2. Len(fromApp') <= 2
    BY <1>1, <1>4
  <2> QED BY <1>3, <1>4, <1>5, <2>1, <2>2 DEF AppInv
<1>7. Complete /\ g + out = f + out' /\ g + out <= f + out'
  BY <1>1, <1>3, <1>4, <1>5 DEF Complete
<1>8. f = Flying(fromApp) /\ g = Flying(fromApp)' /\ (tx.code \in NoBody => out' = out)
  BY <1>1, <1>3
<1> HIDE DEF f, g
<1>9. HeadOpen => HeadOpen'
  BY <1>1, <1>5, <1>7, <1>8, OpenStays
<1>10. HeadKnown => HeadKnown'
  BY <1>1, <1>5, <1>7, <1>8, KnownStays
<1>11. at = "done" => NothingCut' /\ MethodCovers'
  BY <1>1 DEF RelayInv, AnswerInv, NothingCut, MethodCovers
<1> QED BY <1>1, <1>6, <1>9, <1>10, <1>11 DEF RelayInv, AnswerInv

LEMMA Dies ==
  ASSUME RelayInv, AppDies
  PROVE  AnswerInv'
<1> DEFINE f == Flying(fromApp)  g == Flying(fromApp)'
<1>1. /\ AppInv /\ buffered \in Nat /\ out \in Nat /\ out' = out
      /\ fromApp \in Seq(Replies) /\ Len(fromApp) <= 2 /\ app # "gone" /\ app' = "gone"
      /\ UNCHANGED <<at, tx, method, head, buffered>>
  BY DEF RelayInv, AnswerInv, AppInv, AppDies, fiberVars
<1>2. PICK k \in 0..Len(fromApp) : fromApp' = SubSeq(fromApp, 1, k)
  BY DEF AppDies
<1>3. /\ fromApp' \in Seq(Replies) /\ Len(fromApp') = k /\ k \in Nat
      /\ \A i \in 1..k : fromApp'[i] = fromApp[i]
      /\ g <= f /\ (k = Len(fromApp) => g = f) /\ Len(fromApp) \in Nat
  <2> DEFINE q == SubSeq(fromApp, 1, k)
  <2>1. /\ q \in Seq(Replies) /\ Len(q) = k /\ \A i \in 1..k : q[i] = fromApp[i]
        /\ Flying(q) <= Flying(fromApp) /\ (k = Len(fromApp) => Flying(q) = Flying(fromApp))
    BY <1>1, FlyingPrefix
  <2>2. fromApp' = q /\ Len(fromApp) \in Nat /\ k \in Nat
    BY <1>1, <1>2, LenProperties
  <2> HIDE DEF q
  <2> QED BY <2>1, <2>2
<1>4. f \in Nat /\ g \in Nat
  BY <1>1, <1>3, FlyingIs
<1>5. ASSUME NEW i \in 1..k, fromApp'[i].type \in Closing
      PROVE  i = k /\ k = Len(fromApp)
  <2>1. i \in 1..Len(fromApp) /\ fromApp[i].type \in Closing
    BY <1>3, <1>5
  <2>2. i = Len(fromApp)
    BY <1>1, <2>1 DEF AppInv
  <2> QED BY <1>3, <2>2
<1>6. AppInv'
  <2>1. Len(fromApp') <= 2
    BY <1>1, <1>3
  <2> QED BY <1>1, <1>3, <1>5, <2>1 DEF AppInv
<1>7. Complete' => k = Len(fromApp)
  BY <1>1, <1>3, <1>5 DEF Complete, Closed
<1>8. Complete
  BY <1>1 DEF Complete
<1>9. g + out <= f + out' /\ (Complete' => Complete /\ g + out = f + out')
  BY <1>1, <1>3, <1>4, <1>7, <1>8
<1>10. f = Flying(fromApp) /\ g = Flying(fromApp)' /\ out' \in Nat
  BY <1>1
<1> HIDE DEF f, g
<1>11. HeadOpen => HeadOpen'
  BY <1>1, <1>4, <1>9, <1>10, OpenStays
<1>12. HeadKnown => HeadKnown'
  BY <1>1, <1>4, <1>9, <1>10, KnownStays
<1>13. at = "done" => NothingCut' /\ MethodCovers'
  BY <1>1 DEF RelayInv, AnswerInv, NothingCut, MethodCovers
<1> QED BY <1>1, <1>6, <1>11, <1>12, <1>13 DEF RelayInv, AnswerInv

LEMMA AnswerStep ==
  ASSUME RelayInv, [Next]_vars
  PROVE  AnswerInv'
<1>1. CASE Connect
  <2>1. at = "connect" /\ ~_env_sent /\ UNCHANGED <<fromApp, out, app, head, buffered, method>>
    BY <1>1 DEF Connect, WriteRecord, RelayInv, OrderInv, Stage
  <2> DEFINE next == IF post > 0 THEN "write" ELSE "read"
  <2>2. \/ at' = next /\ tx' = tx
        \/ at' = "done" /\ tx' \in display_error(tx, 502)
    BY <1>1 DEF Connect, WriteRecord, Finish
  <2>3. next \in {"write", "read", "end"}
    OBVIOUS
  <2> HIDE DEF next
  <2> QED BY <2>1, <2>2, <2>3, WritesAnswer
<1>2. CASE flush_env
  BY <1>2, WritesAnswer DEF flush_env, WriteRecord, Finish
<1>3. CASE EndParams
  <2>1. at = "end" /\ ~_env_sent /\ UNCHANGED <<fromApp, out, app, head, buffered, method>>
    BY <1>3 DEF EndParams, WriteRecord, RelayInv, OrderInv, Stage
  <2> DEFINE next == IF base < post THEN "write" ELSE "read"
  <2>2. \/ at' = next /\ tx' = tx
        \/ at' = "done" /\ tx' \in Throw(tx, "io")
    BY <1>3 DEF EndParams, WriteRecord, Finish
  <2>3. next \in {"write", "read", "end"}
    OBVIOUS
  <2> HIDE DEF next
  <2> QED BY <2>1, <2>2, <2>3, WritesAnswer
<1>4. CASE WriteBody
  <2>1. at = "write" /\ UNCHANGED <<fromApp, out, app, head, buffered, method>>
    BY <1>4 DEF WriteBody, WriteRecord
  <2> DEFINE next == IF base + txsize < post THEN "write" ELSE "read"
  <2>2. \/ at' = next /\ tx' = tx
        \/ at' = "done" /\ tx' \in Throw(tx, "io")
    BY <1>4 DEF WriteBody, WriteRecord, Finish
  <2>3. next \in {"write", "read", "end"}
    OBVIOUS
  <2> HIDE DEF next
  <2> QED BY <2>1, <2>2, <2>3, WritesAnswer
<1>5. CASE TakeOther
  <2>1. /\ at = "read" /\ fromApp # <<>> /\ fromApp' = Tail(fromApp) /\ at' = "done"
        /\ UNCHANGED <<method, out, app, buffered>> /\ tx' \in Throw(tx, "rt")
    BY <1>5 DEF TakeOther, Takes, Reading, Finish
  <2>2. AppInv /\ buffered' \in Nat
    BY <2>1 DEF RelayInv, AnswerInv
  <2>3. AppInv'
    BY <2>1, <2>2, TakesRecord
  <2> QED BY <2>1, <2>2, <2>3, Breaks
<1>6. CASE ReadFails
  <2>1. /\ at = "read" /\ at' = "done" /\ UNCHANGED <<method, out, app, fromApp, buffered>>
        /\ tx' \in Throw(tx, "io")
    BY <1>6 DEF ReadFails, Reading, Finish, appVars
  <2>2. AppInv /\ buffered' \in Nat
    BY <2>1 DEF RelayInv, AnswerInv
  <2>3. AppInv'
    BY <2>1, <2>2 DEF AppInv
  <2> QED BY <2>1, <2>2, <2>3, Breaks
<1>7. CASE UNCHANGED vars
  BY <1>7 DEF vars, fiberVars, appVars, RelayInv, AnswerInv, AppInv, HeadOpen, HeadKnown,
              Relayed, Complete, NothingCut, MethodCovers
<1> QED BY <1>1, <1>2, <1>3, <1>4, <1>5, <1>6, <1>7, TakesHead, TakesBody, TakesError,
           TakesEnd, Sends, Dies DEF Next, Relaying

LEMMA AnswerInit == Init => AnswerInv
<1> SUFFICES ASSUME Init PROVE AnswerInv
  OBVIOUS
<1>1. /\ at = "connect" /\ head = "open" /\ buffered = 0 /\ fromApp = <<>> /\ out = 0
      /\ app = "runs" /\ method = tx
      /\ \E m \in Methods, noGzip \in BOOLEAN : tx = New(m, noGzip, TRUE)
  BY DEF Init
<1>2. <<>> \in Seq(Replies) /\ Len(<<>>) = 0
  OBVIOUS
<1>3. AppInv
  BY <1>1, <1>2, RelayAssumption DEF AppInv
<1>4. Flying(fromApp) = 0
  BY <1>1, <1>2 DEF Flying, Unit
<1>5. HeadOpen
  BY <1>1, <1>4 DEF HeadOpen, HeadUnits
<1> QED BY <1>1, <1>3, <1>5 DEF AnswerInv

\* Every unit of the answer is written, buffered, on the way or, when the
\* application has gone without an end, lost.
THEOREM RelayInvariant == Spec => []RelayInv
<1>1. Init => RelayInv
  BY OrderInit, AnswerInit DEF RelayInv
<1>2. RelayInv /\ [Next]_vars => RelayInv'
  BY OrderStep, AnswerStep DEF RelayInv
<1> QED BY <1>1, <1>2, PTL DEF Spec

\* No response that ends as it should lacks any of what the application sent.
THEOREM RelayNothingCut == Spec => []NothingCut
<1>1. RelayInv => NothingCut
  BY DEF RelayInv, AnswerInv, NothingCut
<1> QED BY <1>1, RelayInvariant, PTL

\* The method in one step stands for all of the ways in which the records go.
THEOREM RelayMethodCovers == Spec => []MethodCovers
<1>1. RelayInv => MethodCovers
  BY DEF RelayInv, AnswerInv, MethodCovers
<1> QED BY <1>1, RelayInvariant, PTL
=============================================================================

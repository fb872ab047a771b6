------------------------ MODULE WebSocketEchoProofs ------------------------
(***************************************************************************)
(* Proofs about module WebSocketEcho, and with it about module WebSocket,  *)
(* for any number of frames, any set of other senders and any page: what   *)
(* read() returns, what the handler sends back, what the peer can inflate  *)
(* and when the loop runs into the null pointer.                           *)
(* Then about the headers of frames, module FrameCodec.                    *)
(***************************************************************************)
EXTENDS WebSocketEcho, FrameCodec, SequenceTheorems, FiniteSetTheorems, WellFoundedInduction, TLAPS

\* A set of numbers that holds 0 and with each number the next holds all.
LEMMA SetInduction ==
  ASSUME NEW S \in SUBSET Nat, 0 \in S, \A n \in S : n + 1 \in S
  PROVE  S = Nat
<1> DEFINE B == Nat \ S
<1> SUFFICES ASSUME B # {} PROVE FALSE
  OBVIOUS
<1>1. PICK n \in B : \A m \in B : n <= m
  <2> HIDE DEF B
  <2>1. B \subseteq Nat
    BY DEF B
  <2>2. PICK n \in B : \A m \in B : ~(<<m, n>> \in OpToRel(<, Nat))
    BY <2>1, NatLessThanWellFounded, WFMin
  <2>3. \A m \in B : ~(m < n)
    BY <2>1, <2>2 DEF OpToRel
  <2> QED BY <2>1, <2>3
<1>2. n # 0 /\ n - 1 \in Nat /\ n - 1 \in S
  BY <1>1
<1> QED BY <1>1, <1>2

-----------------------------------------------------------------------------
(* FlattenSeq, as far as sequences grow at their end.                      *)

\* c joins the first members of s, up to each of them.
Joins(s, c) == \A i \in 1..Len(s) : c[i] = IF i = 1 THEN s[i] ELSE c[i-1] \o s[i]

LEMMA FlattenJoins ==
  ASSUME NEW s, Len(s) \in Nat \ {0}
  PROVE  \E c : Joins(s, c) /\ FlattenSeq(s) = c[Len(s)]
<1> DEFINE Step(c, i) == IF i = 1 THEN s[i] ELSE c[i-1] \o s[i]
           Upto(c, m) == c = [i \in 1..m |-> Step(c, i)]
           Some(m) == \E c : Upto(c, m)
           N == {m \in Nat : m <= Len(s) => Some(m)}
<1>1. Len(s) \in Nat
  OBVIOUS
<1>2. 0 \in N
  <2>1. \A i \in 1..0 : FALSE
    OBVIOUS
  <2>2. [i \in 1..0 |-> i] = [i \in 1..0 |-> Step([j \in 1..0 |-> j], i)]
    BY <2>1, Zenon
  <2>3. Upto([i \in 1..0 |-> i], 0)
    BY <2>2
  <2> HIDE DEF Upto
  <2> QED BY <2>3
<1>3. ASSUME NEW m \in N PROVE m + 1 \in N
  <2> SUFFICES ASSUME m + 1 <= Len(s) PROVE Some(m + 1)
    <3> HIDE DEF Some
    <3> QED OBVIOUS
  <2>1. PICK c : Upto(c, m)
    <3> HIDE DEF Upto
    <3>1. Some(m)
      <4> HIDE DEF Some
      <4> QED BY <1>1
    <3> QED BY <3>1
  <2> DEFINE k == [i \in 1..(m + 1) |-> IF i = m + 1 THEN Step(c, m + 1) ELSE c[i]]
  <2>2. ASSUME NEW i \in 1..(m + 1) PROVE k[i] = Step(k, i)
    <3>1. CASE i = m + 1
      <4>1. i # 1 => k[i-1] = c[i-1]
        BY <3>1
      <4> QED BY <3>1, <4>1
    <3>2. CASE i \in 1..m
      <4>1. k[i] = c[i] /\ c[i] = Step(c, i)
        BY <2>1, <3>2
      <4>2. i # 1 => k[i-1] = c[i-1]
        BY <3>2
      <4> QED BY <4>1, <4>2
    <3> QED BY <3>1, <3>2
  <2>3. Upto(k, m + 1)
    BY <2>2
  <2> HIDE DEF k, Upto
  <2> QED BY <2>3
<1>4. N = Nat
  <2>1. N \in SUBSET Nat
    OBVIOUS
  <2> HIDE DEF N
  <2> QED BY <1>2, <1>3, <2>1, SetInduction
<1> DEFINE c == CHOOSE c : Upto(c, Len(s))
<1>5. Upto(c, Len(s))
  <2>1. Some(Len(s))
    <3> HIDE DEF Some
    <3> QED BY <1>1, <1>4
  <2> HIDE DEF Upto
  <2> QED BY <2>1
<1>6. FlattenSeq(s) = c[Len(s)]
  BY DEF FlattenSeq
<1> HIDE DEF c
<1>7. Joins(s, c)
  BY <1>5 DEF Joins
<1> QED BY <1>6, <1>7

\* Joining two sequences gives the same as long as they agree.
LEMMA JoinsAgree ==
  ASSUME NEW S, NEW s \in Seq(Seq(S)), NEW t \in Seq(Seq(S)), Len(s) <= Len(t),
         \A i \in 1..Len(s) : s[i] = t[i],
         NEW c, Joins(s, c), NEW d, Joins(t, d)
  PROVE  \A i \in 1..Len(s) : c[i] = d[i] /\ c[i] \in Seq(S)
<1> DEFINE Same(m) == c[m] = d[m] /\ c[m] \in Seq(S)
           N == {m \in Nat : m + 1 <= Len(s) => Same(m + 1)}
<1>1. Len(s) \in Nat /\ Len(t) \in Nat /\ \A i \in 1..Len(s) : s[i] \in Seq(S)
  OBVIOUS
<1>2. ASSUME 1 <= Len(s) PROVE Same(1)
  <2>1. 1 \in 1..Len(s) /\ 1 \in 1..Len(t)
    BY <1>1, <1>2
  <2>2. c[1] = s[1] /\ d[1] = t[1]
    BY <2>1, Zenon DEF Joins
  <2>3. s[1] = t[1] /\ s[1] \in Seq(S)
    BY <1>1, <2>1
  <2> QED BY <2>2, <2>3
<1>3. ASSUME NEW m \in Nat, m + 2 <= Len(s), Same(m + 1) PROVE Same(m + 2)
  <2>1. m + 2 \in 1..Len(s) /\ m + 2 \in 1..Len(t) /\ m + 2 # 1 /\ (m + 2) - 1 = m + 1
    BY <1>1, <1>3
  <2>2. c[m + 2] = c[m + 1] \o s[m + 2] /\ d[m + 2] = d[m + 1] \o t[m + 2]
    BY <2>1, Zenon DEF Joins
  <2>3. c[m + 1] = d[m + 1] /\ c[m + 1] \in Seq(S)
    BY <1>3
  <2>4. s[m + 2] \in Seq(S) /\ s[m + 2] = t[m + 2]
    BY <1>1, <2>1
  <2>5. c[m + 1] \o s[m + 2] \in Seq(S)
    BY <2>3, <2>4, ConcatProperties
  <2> QED BY <2>2, <2>3, <2>4, <2>5, Zenon
<1> HIDE DEF Same
<1>4. N = Nat
  <2>1. N \in SUBSET Nat /\ 0 \in N
    BY <1>2
  <2>2. ASSUME NEW m \in N PROVE m + 1 \in N
    BY <1>1, <1>3
  <2> HIDE DEF N
  <2> QED BY <2>1, <2>2, SetInduction
<1>5. ASSUME NEW i \in 1..Len(s) PROVE Same(i)
  <2> DEFINE k == i - 1
  <2>1. k \in Nat /\ k + 1 = i /\ k + 1 <= Len(s)
    BY <1>1
  <2> HIDE DEF k
  <2>2. Same(k + 1)
    BY <1>4, <2>1
  <2> QED BY <2>1, <2>2
<1> QED BY <1>5 DEF Same

LEMMA FlattenEmpty ==
  ASSUME NEW s, Len(s) = 0
  PROVE  FlattenSeq(s) = s
BY DEF FlattenSeq

LEMMA FlattenType ==
  ASSUME NEW S, NEW s \in Seq(Seq(S))
  PROVE  FlattenSeq(s) \in Seq(S)
<1>1. CASE Len(s) = 0
  <2>1. s = <<>>
    BY <1>1
  <2>2. FlattenSeq(s) = s
    BY <1>1, FlattenEmpty
  <2>3. <<>> \in Seq(S)
    OBVIOUS
  <2> QED BY <2>1, <2>2, <2>3
<1>2. CASE Len(s) # 0
  <2>1. PICK c : Joins(s, c) /\ FlattenSeq(s) = c[Len(s)]
    BY <1>2, FlattenJoins
  <2>2. \A i \in 1..Len(s) : c[i] \in Seq(S)
    BY <2>1, JoinsAgree
  <2> QED BY <1>2, <2>1, <2>2
<1> QED BY <1>1, <1>2

\* One member more at the end is joined to what there was.
LEMMA FlattenNext ==
  ASSUME NEW S, NEW s \in Seq(Seq(S)), NEW t \in Seq(Seq(S)), Len(t) = Len(s) + 1,
         \A i \in 1..Len(s) : t[i] = s[i]
  PROVE  FlattenSeq(t) = FlattenSeq(s) \o t[Len(t)]
<1>1. Len(s) \in Nat /\ Len(t) # 0 /\ Len(t) \in 1..Len(t) /\ t[Len(t)] \in Seq(S)
  OBVIOUS
<1>2. PICK d : Joins(t, d) /\ FlattenSeq(t) = d[Len(t)]
  BY <1>1, FlattenJoins
<1>3. CASE Len(s) = 0
  <2>1. s = <<>> /\ FlattenSeq(s) = <<>>
    BY <1>3, FlattenEmpty
  <2>2. FlattenSeq(t) = t[Len(t)]
    BY <1>1, <1>2, <1>3 DEF Joins
  <2>3. <<>> \o t[Len(t)] = t[Len(t)]
    BY <1>1, ConcatEmptySeq
  <2> QED BY <2>1, <2>2, <2>3
<1>4. CASE Len(s) # 0
  <2>1. PICK c : Joins(s, c) /\ FlattenSeq(s) = c[Len(s)]
    BY SMTT(30), <1>4, FlattenJoins
  <2>2. c[Len(s)] = d[Len(s)]
    <3>1. Len(s) \in 1..Len(s) /\ Len(s) <= Len(t)
      BY <1>1, <1>4
    <3>2. \A i \in 1..Len(s) : s[i] = t[i]
      OBVIOUS
    <3>3. Joins(s, c) /\ Joins(t, d)
      BY <1>2, <2>1
    <3>4. \A i \in 1..Len(s) : c[i] = d[i] /\ c[i] \in Seq(S)
      BY <3>1, <3>2, <3>3, JoinsAgree
    <3> QED BY <3>1, <3>4
  <2>3. d[Len(t)] = d[Len(s)] \o t[Len(t)]
    <3>1. Len(t) \in 1..Len(t) /\ Len(t) # 1 /\ Len(t) - 1 = Len(s)
      BY <1>1, <1>4
    <3>2. d[Len(t)] = d[Len(t) - 1] \o t[Len(t)]
      BY <1>2, <3>1, Zenon DEF Joins
    <3> QED BY <3>1, <3>2
  <2> QED BY <1>2, <2>1, <2>2, <2>3
<1> QED BY <1>3, <1>4

LEMMA FlattenAppend ==
  ASSUME NEW S, NEW s \in Seq(Seq(S)), NEW e \in Seq(S)
  PROVE  FlattenSeq(Append(s, e)) = FlattenSeq(s) \o e
<1> DEFINE t == Append(s, e)
<1>1. /\ t \in Seq(Seq(S)) /\ Len(t) = Len(s) + 1 /\ t[Len(s) + 1] = e
      /\ \A i \in 1..Len(s) : t[i] = s[i]
  BY AppendProperties
<1> HIDE DEF t
<1>2. FlattenSeq(t) = FlattenSeq(s) \o t[Len(t)]
  BY <1>1, FlattenNext
<1> QED BY <1>1, <1>2 DEF t

-----------------------------------------------------------------------------
(* IsPrefix.                                                               *)

LEMMA PrefixConcat ==
  ASSUME NEW S, NEW s \in Seq(S), NEW u \in Seq(S)
  PROVE  IsPrefix(s, s \o u)
<1> DEFINE t == s \o u
<1>1. /\ t \in Seq(S) /\ Len(t) = Len(s) + Len(u)
      /\ \A i \in 1..Len(s) : t[i] = s[i]
  BY ConcatProperties
<1> HIDE DEF t
<1>2. SubSeq(s, 1, Len(s)) = SubSeq(t, 1, Len(s))
  <2> DEFINE n == Len(s)
  <2>1. n \in Nat /\ \A i \in 1..n : s[i] \in S /\ t[i] \in S
    BY <1>1
  <2> HIDE DEF n
  <2>2. /\ SubSeq(s, 1, n) \in Seq(S) /\ Len(SubSeq(s, 1, n)) = n
        /\ \A i \in 1..n : SubSeq(s, 1, n)[i] = s[i]
    BY <2>1, SubSeqProperties
  <2>3. /\ SubSeq(t, 1, n) \in Seq(S) /\ Len(SubSeq(t, 1, n)) = n
        /\ \A i \in 1..n : SubSeq(t, 1, n)[i] = t[i]
    BY <2>1, SubSeqProperties
  <2>4. \A i \in 1..n : s[i] = t[i]
    BY <1>1 DEF n
  <2>5. \A i \in 1..Len(SubSeq(s, 1, n)) : SubSeq(s, 1, n)[i] = SubSeq(t, 1, n)[i]
    BY <2>2, <2>3, <2>4
  <2>6. SubSeq(s, 1, n) = SubSeq(t, 1, n)
    BY <2>2, <2>3, <2>5, SeqEqual
  <2> QED BY <2>6 DEF n
<1>3. Len(s) <= Len(t)
  BY <1>1
<1>4. IsPrefix(s, t)
  BY <1>2, <1>3 DEF IsPrefix
<1> QED BY <1>4 DEF t

LEMMA PrefixMeans ==
  ASSUME NEW S, NEW s \in Seq(S), NEW t \in Seq(S), IsPrefix(s, t)
  PROVE  \E u \in Seq(S) : t = s \o u
<1>1. Len(s) \in Nat /\ Len(t) \in Nat /\ Len(s) <= Len(t)
      /\ SubSeq(s, 1, Len(s)) = SubSeq(t, 1, Len(s))
  BY DEF IsPrefix
<1>2. SubSeq(s, 1, Len(s)) = s /\ SubSeq(t, 1, Len(t)) = t
  BY SubSeqFull
<1> DEFINE u == SubSeq(t, Len(s) + 1, Len(t))
<1>3. u \in Seq(S)
  BY <1>1, SubSeqProperties
<1>4. SubSeq(t, 1, Len(s)) \o u = SubSeq(t, 1, Len(t))
  <2>1. /\ 1 \in 1..Len(t)+1 /\ Len(s) \in (1-1)..Len(t) /\ Len(t) \in Len(s)..Len(t)
    BY <1>1
  <2> QED BY <2>1, ConcatAdjacentSubSeq
<1> HIDE DEF u
<1> QED BY <1>1, <1>2, <1>3, <1>4

\* What begins with s, and then goes on, begins with s.
LEMMA PrefixLonger ==
  ASSUME NEW S, NEW s \in Seq(S), NEW t \in Seq(S), NEW u \in Seq(S), IsPrefix(s, t)
  PROVE  IsPrefix(s, t \o u)
<1>1. PICK v \in Seq(S) : t = s \o v
  BY PrefixMeans
<1>2. t \o u = s \o (v \o u) /\ v \o u \in Seq(S)
  BY <1>1, ConcatAssociative, ConcatProperties
<1> QED BY <1>2, PrefixConcat

\* A part of what t begins with.
LEMMA PrefixShorter ==
  ASSUME NEW S, NEW s \in Seq(S), NEW u \in Seq(S), NEW t \in Seq(S), IsPrefix(s \o u, t)
  PROVE  IsPrefix(s, t)
<1>1. s \o u \in Seq(S)
  BY ConcatProperties
<1>2. PICK v \in Seq(S) : t = (s \o u) \o v
  BY ZenonT(30), <1>1, PrefixMeans
<1>3. t = s \o (u \o v) /\ u \o v \in Seq(S)
  BY <1>2, ConcatAssociative, ConcatProperties
<1> QED BY <1>3, PrefixConcat

LEMMA PrefixOfPrefix ==
  ASSUME NEW S, NEW s \in Seq(S), NEW t \in Seq(S), NEW u \in Seq(S),
         IsPrefix(s, t), IsPrefix(t, u)
  PROVE  IsPrefix(s, u)
<1>1. PICK v \in Seq(S) : u = t \o v
  BY PrefixMeans
<1> QED BY <1>1, PrefixLonger

-----------------------------------------------------------------------------
(* What the frames, the messages and the places of the loop are.           *)

Tokens == 1..MaxFrames

FrameSet ==
  [op : {CONTINUATION, TEXT, CLOSE, PING}, fin : BOOLEAN, deflated : BOOLEAN,
   payload : Seq(Tokens)]

FrameTypes ==
  /\ sent \in Seq(FrameSet) /\ Len(sent) <= MaxFrames /\ taken \in 0..Len(sent)
  /\ \A i \in 1..Len(sent) : sent[i].payload \in {<<>>, <<i>>}
  /\ got \in Seq(Seq(Tokens)) /\ _done \in Seq(Tokens)
  /\ _reassembled \in Seq(Tokens)
  /\ alive \in BOOLEAN

\* The frames of q before the k-th leave a message open.
Open(q, k) ==
  \E i \in 1..(k - 1) : /\ Data(q[i]) /\ ~q[i].fin
                        /\ \A j \in (i + 1)..(k - 1) : ~Data(q[j])

\* Fragments are collected of a message that is open, and none begins then.
FragmentsFit ==
  /\ \A k \in 1..Len(sent) : sent[k].op = TEXT => ~Open(sent, k)
  /\ _reassembled # <<>> => Open(sent, taken + 1)

\* A message without content has been taken.
EmptyTaken == \E i \in 1..taken : Data(sent[i]) /\ sent[i].fin /\ sent[i].payload = <<>>

\* Where the handler is, and what it has there: it reads only what poll() has
\* announced, and waits in read() only behind an empty message.
LoopPlaces ==
  /\ message \in Seq(Tokens)
  /\ doing \in {"user", "read", "pong"}
  /\ handler \in {"poll", "polling", "read", "reading", "send", "sending", "over",
                  "threw", "crashed"}
  /\ doing = "user" <=> handler \notin {"polling", "reading"}
  /\ handler = "polling" => caller = "poll"
  /\ handler = "reading" => caller = "read"
  /\ doing # "user" => alive
  /\ _done # <<>> => handler = "read"
  /\ handler = "read" => alive
  /\ handler = "read" /\ _done = <<>> => EmptyTaken
  /\ handler \in {"reading", "crashed"} => EmptyTaken
  /\ handler = "send" /\ ~alive => EmptyTaken /\ message = <<>>

LoopInv == FrameTypes /\ FragmentsFit /\ LoopPlaces

-----------------------------------------------------------------------------
(* The moves of the receiving side: each step of the loop, of the other    *)
(* senders and of the peer is one of these to it.                          *)

Following == sent[taken + 1]
CanTake == taken < Len(sent)

Stays == UNCHANGED <<sent, taken, got, _done, _reassembled, alive>>

Hears ==
  /\ Len(sent) < MaxFrames
  /\ \E f \in FrameSet :
       /\ sent' = Append(sent, f) /\ f.payload \in {<<>>, <<Len(sent) + 1>>}
       /\ f.op = TEXT => ~Open(sent, Len(sent) + 1)
  /\ UNCHANGED <<taken, got, _done, _reassembled, alive>>

\* The connection is over, perhaps at a frame that has been taken.
Loses ==
  /\ \/ taken' = taken
     \/ CanTake /\ taken' = taken + 1
  /\ alive' = FALSE /\ _done = <<>> /\ _reassembled' = <<>>
  /\ UNCHANGED <<sent, got, _done>>

\* A control frame.
Skips ==
  /\ CanTake /\ taken' = taken + 1 /\ ~Data(Following)
  /\ UNCHANGED <<sent, got, _done, _reassembled, alive>>

\* A fragment, and not the last one.
Collects ==
  /\ alive /\ CanTake /\ taken' = taken + 1 /\ Data(Following) /\ ~Following.fin
  /\ _reassembled' = _reassembled \o Following.payload
  /\ UNCHANGED <<sent, got, _done, alive>>

\* The last fragment: the message goes to read() or is left for it.
Completes ==
  /\ alive /\ CanTake /\ taken' = taken + 1 /\ Data(Following) /\ Following.fin
  /\ _done = <<>> /\ _reassembled' = <<>>
  /\ \/ got' = Append(got, _reassembled \o Following.payload) /\ _done' = <<>>
     \/ _done' = _reassembled \o Following.payload /\ got' = got
  /\ UNCHANGED <<sent, alive>>

\* read() returns what poll() has left for it.
Hands ==
  /\ got' = Append(got, _done) /\ _done' = <<>>
  /\ UNCHANGED <<sent, taken, _reassembled, alive>>

Moves == Stays \/ Hears \/ Loses \/ Skips \/ Collects \/ Completes \/ Hands

LEMMA FollowingType ==
  ASSUME FrameTypes, CanTake
  PROVE  /\ Following \in FrameSet /\ taken + 1 \in 1..Len(sent) /\ taken \in Nat
         /\ Following.payload \in {<<>>, <<taken + 1>>} /\ Following.payload \in Seq(Tokens)
<1>1. taken + 1 \in 1..Len(sent) /\ taken \in Nat
  BY DEF FrameTypes, CanTake
<1>2. Following \in FrameSet /\ Following.payload \in {<<>>, <<taken + 1>>}
  BY <1>1 DEF FrameTypes, Following
<1>3. Following.payload \in Seq(Tokens)
  BY <1>2 DEF FrameSet
<1> QED BY <1>1, <1>2, <1>3

\* The peer does not begin a message in another: nothing is dropped.
LEMMA BegunIsAll ==
  ASSUME FrameTypes, FragmentsFit, CanTake
  PROVE  Begun(Following) = _reassembled
<1>1. taken + 1 \in 1..Len(sent)
  BY FollowingType
<1>2. Following.op = TEXT => _reassembled = <<>>
  BY <1>1 DEF FragmentsFit, Following
<1> QED BY <1>2 DEF Begun

LEMMA TakeDataMoves ==
  ASSUME LoopInv, NEW op \in {CONTINUATION, TEXT}, TakeData(op)
  PROVE  /\ \/ Loses /\ doing' = "user"
            \/ Collects /\ doing' = doing
            \/ /\ Completes /\ doing' = "user" /\ alive
               /\ caller = "read" => /\ _done' = <<>>
                                     /\ got' = Append(got, _reassembled \o Following.payload)
               /\ caller # "read" => got' = got
         /\ caller' = caller /\ doing = "read" /\ alive /\ _done = <<>>
         /\ Data(Following) /\ CanTake
<1> USE DEF LoopInv
<1>1. /\ doing = "read" /\ CanTake /\ Following.op = op /\ taken' = taken + 1
      /\ sent' = sent /\ caller' = caller
  BY DEF TakeData, Takes, Taken, CanTake, Following
<1>2. Begun(Following) = _reassembled
  BY <1>1, BegunIsAll
<1>3. Data(Following) /\ alive /\ _done = <<>>
  BY <1>1 DEF LoopPlaces, Data
<1>4. \/ /\ ~Following.fin
         /\ _reassembled' = _reassembled \o Following.payload
         /\ UNCHANGED <<alive, rx_zs, _done, doing, got>>
      \/ cleanup /\ UNCHANGED <<_done, got>>
      \/ /\ Following.fin
         /\ Return(_reassembled \o Following.payload)
         /\ _reassembled' = <<>>
         /\ UNCHANGED <<alive, rx_zs>>
  BY <1>1, <1>2 DEF TakeData, Following
<1>5. CASE /\ ~Following.fin
           /\ _reassembled' = _reassembled \o Following.payload
           /\ UNCHANGED <<alive, rx_zs, _done, doing, got>>
  BY <1>1, <1>3, <1>5 DEF Collects
<1>6. CASE cleanup /\ UNCHANGED <<_done, got>>
  BY <1>1, <1>3, <1>6 DEF Loses, cleanup
<1>7. CASE /\ Following.fin
           /\ Return(_reassembled \o Following.payload)
           /\ _reassembled' = <<>>
           /\ UNCHANGED <<alive, rx_zs>>
  BY <1>1, <1>3, <1>7 DEF Completes, Return
<1> QED BY <1>4, <1>5, <1>6, <1>7

LEMMA PeerHears ==
  ASSUME LoopInv, PeerSends
  PROVE  Hears
<1> USE WebSocketAssumption DEF LoopInv
<1>1. Len(sent) \in Nat /\ Len(sent) < MaxFrames
  BY DEF FrameTypes, PeerSends
<1>2. PICK op \in {CONTINUATION, TEXT, CLOSE, PING}, fin \in BOOLEAN, z \in BOOLEAN,
           p \in {<<>>, <<Len(sent) + 1>>} :
        /\ op = TEXT => ~InMessage
        /\ sent' = Append(sent, [op |-> op, fin |-> fin, deflated |-> z,
                                 payload |-> p])
  BY DEF PeerSends
<1> DEFINE f == [op |-> op, fin |-> fin, deflated |-> z, payload |-> p]
<1>3. <<>> \in Seq(Tokens) /\ <<Len(sent) + 1>> \in Seq(Tokens)
  BY <1>1 DEF Tokens
<1>4. f \in FrameSet /\ f.payload \in {<<>>, <<Len(sent) + 1>>} /\ f.op = op
  BY <1>3 DEF FrameSet
<1>5. InMessage <=> Open(sent, Len(sent) + 1)
  <2>1. (Len(sent) + 1) - 1 = Len(sent)
    BY <1>1
  <2> QED BY <2>1 DEF InMessage, Open
<1>6. UNCHANGED <<taken, got, _done, _reassembled, alive>>
  BY DEF PeerSends, msgVars
<1>7. sent' = Append(sent, f)
  BY <1>2
<1> HIDE DEF f
<1> QED BY <1>1, <1>2, <1>4, <1>5, <1>6, <1>7 DEF Hears

\* Every step is a move.
LEMMA EveryMove ==
  ASSUME LoopInv, EchoNext
  PROVE  Moves
<1> USE DEF Moves
<1>1. CASE PeerSendsFrame
  BY <1>1, PeerHears DEF PeerSendsFrame
<1>2. CASE Poll
  BY <1>2 DEF Poll, CallWaits, vars, msgVars, Stays
<1>3. CASE Read
  BY <1>3 DEF Read, TakeMessage, CallWaits, vars, msgVars, Stays, Hands
<1>4. CASE TakesData
  BY <1>4, TakeDataMoves DEF TakesData
<1>5. CASE TakesClose
  BY <1>5 DEF TakesClose, TakeClose, Takes, Taken, cleanup, Loses, CanTake, LoopInv, LoopPlaces
<1>6. CASE TakesPing
  BY <1>6 DEF TakesPing, TakePing, Takes, Taken, msgVars, Skips, CanTake, Following,
              Data, PING, TEXT, CONTINUATION
<1>7. CASE PongEnds
  BY <1>7 DEF PongEnds, Ponged, cleanup, Stays, Loses, LoopInv, LoopPlaces
<1>8. CASE PollFails
  BY <1>8 DEF PollFails, ReadFails, cleanup, Loses, LoopInv, LoopPlaces
<1>9. CASE Echo
  BY <1>9 DEF Echo, vars, msgVars, Stays
<1>10. CASE Echoed
  BY <1>10 DEF Echoed, vars, msgVars, Stays
<1>11. CASE \E s \in Senders : Send(s) \/ Sent(s)
  BY <1>11 DEF Send, Sent, vars, msgVars, Stays
<1> QED BY <1>1, <1>2, <1>3, <1>4, <1>5, <1>6, <1>7, <1>8, <1>9, <1>10, <1>11 DEF EchoNext

-----------------------------------------------------------------------------
(* LoopInv is kept.                                                        *)

LEMMA MoveTypes ==
  ASSUME FrameTypes, Moves
  PROVE  FrameTypes'
<1> USE WebSocketAssumption
<1>1. <<>> \in Seq(Tokens) /\ Len(sent) \in Nat /\ taken \in Nat
  BY DEF FrameTypes
<1>2. CASE Stays
  BY <1>2 DEF FrameTypes, Stays
<1>3. CASE Hears
  <2>1. PICK f \in FrameSet :
          /\ sent' = Append(sent, f) /\ f.payload \in {<<>>, <<Len(sent) + 1>>}
    BY <1>3 DEF Hears
  <2>2. /\ sent' \in Seq(FrameSet) /\ Len(sent') = Len(sent) + 1
        /\ sent'[Len(sent) + 1] = f /\ \A i \in 1..Len(sent) : sent'[i] = sent[i]
    BY <2>1, AppendProperties DEF FrameTypes
  <2>3. \A i \in 1..Len(sent') : sent'[i].payload \in {<<>>, <<i>>}
    <3>1. \A i \in 1..Len(sent') : i \in 1..Len(sent) \/ i = Len(sent) + 1
      BY <1>1, <2>2
    <3> QED BY <2>1, <2>2, <3>1 DEF FrameTypes
  <2>4. Len(sent') <= MaxFrames /\ taken' \in 0..Len(sent')
    BY <1>1, <1>3, <2>2 DEF Hears, FrameTypes
  <2>5. UNCHANGED <<got, _done, _reassembled, alive>>
    BY <1>3 DEF Hears
  <2> QED BY <2>2, <2>3, <2>4, <2>5 DEF FrameTypes
<1>4. ASSUME CanTake PROVE taken + 1 \in 0..Len(sent)
  BY <1>1, <1>4 DEF CanTake
<1>5. CASE Loses
  <2>1. taken' \in 0..Len(sent)
    BY <1>4, <1>5 DEF Loses, FrameTypes
  <2> QED BY <1>1, <1>5, <2>1 DEF FrameTypes, Loses
<1>6. CASE Skips
  BY <1>4, <1>6 DEF FrameTypes, Skips
<1>7. ASSUME CanTake PROVE _reassembled \o Following.payload \in Seq(Tokens)
  <2>1. _reassembled \in Seq(Tokens) /\ Following.payload \in Seq(Tokens)
    BY <1>7, FollowingType DEF FrameTypes
  <2> QED BY <2>1, ConcatProperties
<1>8. CASE Collects
  BY <1>4, <1>7, <1>8 DEF FrameTypes, Collects
<1>9. CASE Completes
  <2> DEFINE m == _reassembled \o Following.payload
  <2>1. m \in Seq(Tokens)
    BY <1>7, <1>9 DEF Completes
  <2>2. \/ got' = Append(got, m) /\ _done' = <<>>
        \/ _done' = m /\ got' = got
    BY <1>9 DEF Completes
  <2> HIDE DEF m
  <2>3. got' \in Seq(Seq(Tokens)) /\ _done' \in Seq(Tokens)
    <3>1. got \in Seq(Seq(Tokens))
      BY DEF FrameTypes
    <3>2. Append(got, m) \in Seq(Seq(Tokens))
      BY <2>1, <3>1, AppendProperties
    <3> QED BY <1>1, <2>1, <2>2, <3>1, <3>2, Zenon
  <2> QED BY <1>1, <1>4, <1>9, <2>3 DEF FrameTypes, Completes
<1>10. CASE Hands
  <2>1. got' \in Seq(Seq(Tokens))
    BY <1>10 DEF FrameTypes, Hands
  <2> QED BY <1>1, <1>10, <2>1 DEF FrameTypes, Hands
<1> QED BY <1>2, <1>3, <1>5, <1>6, <1>8, <1>9, <1>10 DEF Moves

\* What is open depends on the frames before.
LEMMA OpenSame ==
  ASSUME NEW q, NEW r, NEW k \in Nat \ {0}, \A i \in 1..(k - 1) : q[i] = r[i]
  PROVE  Open(q, k) <=> Open(r, k)
<1>1. \A i \in 1..(k - 1) : \A j \in (i + 1)..(k - 1) : j \in 1..(k - 1)
  OBVIOUS
<1> QED BY <1>1 DEF Open, Data

LEMMA MoveFragments ==
  ASSUME FrameTypes, FragmentsFit, Moves
  PROVE  FragmentsFit'
<1>1. Len(sent) \in Nat /\ taken \in 0..Len(sent) /\ taken \in Nat
  BY DEF FrameTypes
<1>2. CASE Hears
  <2>1. PICK f \in FrameSet :
          /\ sent' = Append(sent, f)
          /\ f.op = TEXT => ~Open(sent, Len(sent) + 1)
    BY <1>2 DEF Hears
  <2>2. /\ Len(sent') = Len(sent) + 1 /\ sent'[Len(sent) + 1] = f
        /\ \A i \in 1..Len(sent) : sent'[i] = sent[i]
    BY <2>1, AppendProperties DEF FrameTypes
  <2>3. ASSUME NEW k \in 1..(Len(sent) + 1) PROVE Open(sent', k) <=> Open(sent, k)
    <3>1. k \in Nat \ {0} /\ \A i \in 1..(k - 1) : sent'[i] = sent[i]
      BY <1>1, <2>2
    <3> QED BY <3>1, OpenSame
  <2>4. ASSUME NEW k \in 1..Len(sent'), sent'[k].op = TEXT PROVE ~Open(sent', k)
    <3>1. CASE k = Len(sent) + 1
      <4>1. sent'[k] = f /\ k \in 1..(Len(sent) + 1)
        BY <1>1, <2>2, <3>1
      <4>2. ~Open(sent, k)
        BY <2>1, <2>4, <3>1, <4>1
      <4> QED BY <2>3, <4>1, <4>2
    <3>2. CASE k \in 1..Len(sent)
      BY <2>2, <2>3, <2>4, <3>2 DEF FragmentsFit
    <3> QED BY <1>1, <2>2, <3>1, <3>2
  <2>5. _reassembled' # <<>> => Open(sent', taken' + 1)
    <3>1. taken + 1 \in 1..(Len(sent) + 1) /\ taken' = taken /\ _reassembled' = _reassembled
      BY <1>1, <1>2 DEF Hears
    <3> QED BY <2>3, <3>1 DEF FragmentsFit
  <2> QED BY <2>4, <2>5 DEF FragmentsFit
<1>3. CASE Skips
  <2>1. (taken + 1) - 1 = taken /\ (taken + 2) - 1 = taken + 1
    BY <1>1
  <2>2. Open(sent, taken + 1) => Open(sent, taken + 2)
    <3> SUFFICES ASSUME Open(sent, taken + 1) PROVE Open(sent, taken + 2)
      OBVIOUS
    <3>1. PICK i \in 1..taken : /\ Data(sent[i]) /\ ~sent[i].fin
                                /\ \A j \in (i + 1)..taken : ~Data(sent[j])
      BY <2>1 DEF Open
    <3>2. i \in 1..(taken + 1) /\ \A j \in (i + 1)..(taken + 1) : j \in (i + 1)..taken \/ j = taken + 1
      BY <1>1
    <3>3. \A j \in (i + 1)..(taken + 1) : ~Data(sent[j])
      BY <1>3, <3>1, <3>2 DEF Skips, Following
    <3> QED BY <2>1, <3>1, <3>2, <3>3 DEF Open
  <2>3. taken' + 1 = taken + 2 /\ UNCHANGED <<sent, _reassembled>>
    BY <1>1, <1>3 DEF Skips
  <2> QED BY <2>2, <2>3 DEF FragmentsFit
<1>4. CASE Collects
  <2>1. taken' + 1 = taken + 2 /\ (taken + 2) - 1 = taken + 1 /\ sent' = sent
    BY <1>1, <1>4 DEF Collects
  <2>2. taken + 1 \in 1..(taken + 1) /\ \A j \in (taken + 2)..(taken + 1) : FALSE
    BY <1>1
  <2>3. (taken + 1) + 1 = taken + 2
    BY <1>1
  <2>4. Open(sent, taken + 2)
    BY <1>4, <2>1, <2>2, <2>3 DEF Collects, Following, Open
  <2> QED BY <2>1, <2>4 DEF FragmentsFit
<1>5. CASE Stays
  BY <1>5 DEF Stays, FragmentsFit
<1>6. CASE Hands
  BY <1>6 DEF Hands, FragmentsFit
<1>7. CASE Loses
  BY <1>7 DEF Loses, FragmentsFit
<1>8. CASE Completes
  BY <1>8 DEF Completes, FragmentsFit
<1> QED BY <1>2, <1>3, <1>4, <1>5, <1>6, <1>7, <1>8 DEF Moves

\* An empty message that has been taken stays so.
LEMMA EmptyStays ==
  ASSUME FrameTypes, Moves, EmptyTaken
  PROVE  EmptyTaken'
<1>1. PICK i \in 1..taken : Data(sent[i]) /\ sent[i].fin /\ sent[i].payload = <<>>
  BY DEF EmptyTaken
<1>2. taken \in Nat /\ i \in 1..Len(sent)
  BY DEF FrameTypes
<1>3. sent'[i] = sent[i]
  <2>1. CASE Hears
    <3>1. PICK f \in FrameSet : sent' = Append(sent, f)
      BY <2>1 DEF Hears
    <3> QED BY <1>2, <3>1, AppendProperties DEF FrameTypes
  <2>2. CASE sent' = sent
    BY <2>2
  <2> QED BY <2>1, <2>2 DEF Moves, Stays, Loses, Skips, Collects, Completes, Hands
<1>4. taken' = taken \/ taken' = taken + 1
  BY DEF Moves, Stays, Hears, Loses, Skips, Collects, Completes, Hands
<1>5. i \in 1..taken'
  BY <1>2, <1>4
<1> QED BY <1>1, <1>3, <1>5 DEF EmptyTaken, Data

\* A message without content ends with a frame without content.
LEMMA EmptyEnds ==
  ASSUME FrameTypes, CanTake, Data(Following), Following.fin, taken' = taken + 1,
         sent' = sent, _reassembled \o Following.payload = <<>>
  PROVE  EmptyTaken'
<1>1. _reassembled \in Seq(Tokens) /\ Following.payload \in Seq(Tokens) /\ taken \in Nat
  BY FollowingType DEF FrameTypes
<1>2. Following.payload = <<>>
  BY <1>1, ConcatEqualIffEmpty
<1>3. taken + 1 \in 1..taken'
  BY <1>1
<1> QED BY <1>2, <1>3 DEF EmptyTaken, Following, Data

\* What TakesData does to the handler.
LEMMA PlacesTakesData ==
  ASSUME LoopInv, TakesData, EmptyTaken => EmptyTaken'
  PROVE  LoopPlaces'
<1> USE DEF LoopInv
<1>1. /\ \/ Loses /\ doing' = "user"
         \/ Collects /\ doing' = doing
         \/ /\ Completes /\ doing' = "user" /\ alive
            /\ caller = "read" => /\ _done' = <<>>
                                  /\ got' = Append(got, _reassembled \o Following.payload)
            /\ caller # "read" => got' = got
      /\ caller' = caller /\ doing = "read" /\ alive /\ _done = <<>>
      /\ Data(Following) /\ CanTake
  BY TakeDataMoves DEF TakesData
<1>2. /\ handler \in {"polling", "reading"}
      /\ IF doing' = "read" THEN UNCHANGED <<handler, message>>
         ELSE IF ~alive' THEN handler' = "threw" /\ UNCHANGED message
         ELSE IF handler = "polling" THEN handler' = "read" /\ UNCHANGED message
         ELSE handler' = "send" /\ message' = Last(got')
  BY DEF TakesData
<1>3. CASE Loses /\ doing' = "user"
  BY <1>1, <1>2, <1>3 DEF Loses, LoopPlaces
<1>4. CASE Collects /\ doing' = doing
  BY <1>1, <1>2, <1>4 DEF Collects, LoopPlaces
<1>5. CASE /\ Completes /\ doing' = "user" /\ alive
           /\ caller = "read" => /\ _done' = <<>>
                                 /\ got' = Append(got, _reassembled \o Following.payload)
           /\ caller # "read" => got' = got
  <2> DEFINE m == _reassembled \o Following.payload
  <2>1. m \in Seq(Tokens)
    BY <1>1, FollowingType, ConcatProperties DEF FrameTypes
  <2>2. m = <<>> => EmptyTaken'
    BY <1>1, <1>5, EmptyEnds DEF Completes
  <2>3. CASE handler = "polling"
    <3>1. caller = "poll" /\ handler' = "read" /\ message' = message /\ alive'
      BY <1>1, <1>2, <1>5, <2>3 DEF LoopPlaces, Completes
    <3>2. got' = got
      BY <1>5, <3>1
    <3>3. _done' = m
      <4>1. got \in Seq(Seq(Tokens))
        BY DEF FrameTypes
      <4>2. Append(got, m) # got
        BY <2>1, <4>1, AppendProperties
      <4> QED BY <1>5, <3>2, <4>2 DEF Completes
    <3> HIDE DEF m
    <3> QED BY <1>1, <1>5, <2>2, <2>3, <3>1, <3>3 DEF LoopPlaces
  <2>4. CASE handler = "reading"
    <3>1. caller = "read" /\ handler' = "send" /\ message' = Last(got') /\ alive'
      BY <1>1, <1>2, <1>5, <2>4 DEF LoopPlaces, Completes
    <3>2. message' = m
      <4>1. got \in Seq(Seq(Tokens)) /\ got' = Append(got, m)
        BY <1>5, <3>1 DEF FrameTypes
      <4> HIDE DEF m
      <4>2. got'[Len(got')] = m
        BY <2>1, <4>1, AppendProperties
      <4> QED BY <3>1, <4>2 DEF Last
    <3>3. _done' = <<>>
      BY <1>5, <3>1
    <3> HIDE DEF m
    <3> QED BY <1>1, <1>5, <2>1, <3>1, <3>2, <3>3 DEF LoopPlaces
  <2> QED BY <1>2, <2>3, <2>4
<1> QED BY <1>1, <1>3, <1>4, <1>5

LEMMA PlacesKept ==
  ASSUME LoopInv, EchoNext, FrameTypes'
  PROVE  LoopPlaces'
<1> USE DEF LoopInv
<1>1. EmptyTaken => EmptyTaken'
  BY EveryMove, EmptyStays
<1>2. <<>> \in Seq(Tokens)
  OBVIOUS
<1>3. CASE PeerSendsFrame
  BY <1>1, <1>3 DEF PeerSendsFrame, PeerSends, LoopPlaces, userVars, callVars, msgVars
<1>4. CASE Poll
  BY <1>1, <1>4 DEF Poll, CallWaits, LoopPlaces, vars, callVars, msgVars
<1>5. CASE Read
  <2>1. CASE TakeMessage /\ handler' = "send"
    BY <1>1, <1>5, <2>1 DEF Read, TakeMessage, LoopPlaces, callVars, FrameTypes
  <2>2. CASE CallWaits("read") /\ handler' = "reading"
    BY <1>1, <1>5, <2>2 DEF Read, CallWaits, LoopPlaces, callVars, msgVars
  <2> QED BY <1>5, <2>1, <2>2 DEF Read, callVars, CallWaits, msgVars, TakeMessage, LoopPlaces
<1>6. CASE TakesData
  BY <1>1, <1>6, PlacesTakesData
<1>7. CASE TakesClose
  BY <1>1, <1>2, <1>7 DEF TakesClose, TakeClose, Takes, Taken, cleanup, LoopPlaces
<1>8. CASE TakesPing
  BY <1>1, <1>8 DEF TakesPing, TakePing, Takes, Taken, LoopPlaces, userVars, msgVars
<1>9. CASE PongEnds
  BY <1>1, <1>9 DEF PongEnds, Ponged, cleanup, LoopPlaces
<1>10. CASE PollFails
  BY <1>1, <1>10 DEF PollFails, ReadFails, cleanup, LoopPlaces
<1>11. CASE Echo
  BY <1>1, <1>11 DEF Echo, NullStream, LoopPlaces, vars, callVars, msgVars
<1>12. CASE Echoed
  BY <1>1, <1>12 DEF Echoed, LoopPlaces, vars, callVars, msgVars
<1>13. CASE \E s \in Senders : Send(s) \/ Sent(s)
  BY <1>1, <1>13 DEF Send, Sent, LoopPlaces, vars, callVars, msgVars
<1> QED BY <1>3, <1>4, <1>5, <1>6, <1>7, <1>8, <1>9, <1>10, <1>11, <1>12, <1>13 DEF EchoNext

LEMMA LoopInit ==
  ASSUME EchoInit
  PROVE  LoopInv
<1> USE WebSocketAssumption
<1>1. <<>> \in Seq(FrameSet) /\ <<>> \in Seq(Seq(Tokens)) /\ <<>> \in Seq(Tokens)
  OBVIOUS
<1>2. FrameTypes
  BY <1>1 DEF EchoInit, Init, FrameTypes
<1>3. FragmentsFit
  BY DEF EchoInit, Init, FragmentsFit
<1>4. LoopPlaces
  BY <1>1 DEF EchoInit, Init, LoopPlaces
<1> QED BY <1>2, <1>3, <1>4 DEF LoopInv

LEMMA LoopStep ==
  ASSUME LoopInv, [EchoNext]_allVars
  PROVE  LoopInv'
<1>1. CASE EchoNext
  <2>1. Moves
    BY <1>1, EveryMove
  <2>2. FrameTypes' /\ FragmentsFit'
    BY <2>1, MoveTypes, MoveFragments DEF LoopInv
  <2> QED BY <1>1, <2>2, PlacesKept DEF LoopInv
<1>2. CASE UNCHANGED allVars
  <2>1. UNCHANGED <<vars, handler, message>>
    BY <1>2 DEF allVars, userVars
  <2>2. FrameTypes'
    BY <2>1 DEF LoopInv, FrameTypes, vars, msgVars
  <2>3. FragmentsFit'
    BY <2>1 DEF LoopInv, FragmentsFit, vars, msgVars
  <2>4. LoopPlaces'
    BY <2>1 DEF LoopInv, LoopPlaces, EmptyTaken, vars, msgVars, callVars
  <2> QED BY <2>2, <2>3, <2>4 DEF LoopInv
<1> QED BY <1>1, <1>2

\* The types of the receiving side hold, the peer's fragments fit, and the
\* handler reads and sends only what poll() and read() have announced to it.
THEOREM EchoLoopInvariant == EchoSpec => []LoopInv
<1>1. EchoInit => LoopInv
  BY LoopInit
<1>2. LoopInv /\ [EchoNext]_allVars => LoopInv'
  BY LoopStep
<1> QED BY <1>1, <1>2, PTL DEF EchoSpec

\* The loop of test-io.cpp sends through a null pointer only behind a message
\* without content.
THEOREM EchoNullOnlyAfterEmpty == EchoSpec => []NullOnlyAfterEmpty
<1>1. LoopInv => NullOnlyAfterEmpty
  BY DEF LoopInv, LoopPlaces, NullOnlyAfterEmpty, EmptyTaken
<1> QED BY <1>1, EchoLoopInvariant, PTL

-----------------------------------------------------------------------------
(* The tokens of the messages are those of the frames.                     *)

\* The tokens of the first t frames of q, frame by frame.
Parts(q, t) == [i \in 1..t |-> IF Data(q[i]) THEN q[i].payload ELSE <<>>]

LEMMA PartsType ==
  ASSUME NEW q \in Seq(FrameSet), NEW t \in 0..Len(q)
  PROVE  Parts(q, t) \in Seq(Seq(Tokens)) /\ Len(Parts(q, t)) = t
<1>1. t \in Nat /\ \A i \in 1..t : q[i] \in FrameSet
  OBVIOUS
<1>2. \A i \in 1..t : (IF Data(q[i]) THEN q[i].payload ELSE <<>>) \in Seq(Tokens)
  BY <1>1 DEF FrameSet
<1>3. Parts(q, t) \in [1..t -> Seq(Tokens)]
  BY <1>2 DEF Parts
<1>4. Parts(q, t) \in Seq(Seq(Tokens))
  BY <1>1, <1>3, SeqDef
<1> QED BY <1>1, <1>3, <1>4, LenProperties

LEMMA PartsNext ==
  ASSUME NEW q \in Seq(FrameSet), NEW t \in 0..Len(q), t < Len(q)
  PROVE  FlattenSeq(Parts(q, t + 1)) =
           FlattenSeq(Parts(q, t)) \o (IF Data(q[t + 1]) THEN q[t + 1].payload ELSE <<>>)
<1>1. t + 1 \in 0..Len(q) /\ t + 1 \in 1..(t + 1) /\ \A i \in 1..t : i \in 1..(t + 1)
  OBVIOUS
<1>2. /\ Parts(q, t) \in Seq(Seq(Tokens)) /\ Len(Parts(q, t)) = t
      /\ Parts(q, t + 1) \in Seq(Seq(Tokens)) /\ Len(Parts(q, t + 1)) = t + 1
  BY <1>1, PartsType
<1>3. \A i \in 1..t : Parts(q, t + 1)[i] = Parts(q, t)[i]
  BY <1>1 DEF Parts
<1>4. Parts(q, t + 1)[t + 1] = IF Data(q[t + 1]) THEN q[t + 1].payload ELSE <<>>
  BY <1>1 DEF Parts
<1>5. FlattenSeq(Parts(q, t + 1)) = FlattenSeq(Parts(q, t)) \o Parts(q, t + 1)[t + 1]
  BY <1>2, <1>3, FlattenNext
<1> QED BY <1>4, <1>5

LEMMA PartsSame ==
  ASSUME NEW q, NEW r, NEW t \in Nat, \A i \in 1..t : q[i] = r[i]
  PROVE  Parts(q, t) = Parts(r, t)
BY DEF Parts, Data

\* DataTokens after a frame has been taken.
LEMMA DataTokensNext ==
  ASSUME FrameTypes, CanTake, taken' = taken + 1, sent' = sent
  PROVE  DataTokens' = DataTokens \o (IF Data(Following) THEN Following.payload ELSE <<>>)
<1>1. sent \in Seq(FrameSet) /\ taken \in 0..Len(sent) /\ taken < Len(sent)
  BY DEF FrameTypes, CanTake
<1>2. DataTokens = FlattenSeq(Parts(sent, taken))
  BY DEF DataTokens, Parts
<1>3. DataTokens' = FlattenSeq(Parts(sent, taken + 1))
  BY DEF DataTokens, Parts, Data
<1> QED BY <1>1, <1>2, <1>3, PartsNext DEF Following

\* DataTokens when none is taken.
LEMMA DataTokensSame ==
  ASSUME FrameTypes, taken' = taken, sent' = sent \/ \E f \in FrameSet : sent' = Append(sent, f)
  PROVE  DataTokens' = DataTokens
<1>1. sent \in Seq(FrameSet) /\ taken \in 0..Len(sent) /\ taken \in Nat
  BY DEF FrameTypes
<1>2. \A i \in 1..taken : sent'[i] = sent[i]
  <2>1. CASE sent' = sent
    BY <2>1
  <2>2. CASE \E f \in FrameSet : sent' = Append(sent, f)
    <3>1. PICK f \in FrameSet : sent' = Append(sent, f)
      BY <2>2
    <3>2. \A i \in 1..Len(sent) : sent'[i] = sent[i]
      BY <1>1, <3>1, AppendProperties
    <3> QED BY <1>1, <3>2
  <2> QED BY <2>1, <2>2
<1>3. Parts(sent', taken) = Parts(sent, taken)
  BY <1>1, <1>2, PartsSame
<1>4. DataTokens' = FlattenSeq(Parts(sent', taken))
  BY DEF DataTokens, Parts, Data
<1> QED BY <1>3, <1>4 DEF DataTokens, Parts

LEMMA DataTokensType ==
  ASSUME FrameTypes
  PROVE  DataTokens \in Seq(Tokens)
<1>1. sent \in Seq(FrameSet) /\ taken \in 0..Len(sent)
  BY DEF FrameTypes
<1>2. Parts(sent, taken) \in Seq(Seq(Tokens))
  BY <1>1, PartsType
<1>3. FlattenSeq(Parts(sent, taken)) \in Seq(Tokens)
  BY <1>2, FlattenType
<1> QED BY <1>3 DEF DataTokens, Parts

\* Messages is got with two more members.
LEMMA MessagesAppended ==
  ASSUME NEW T, NEW g \in Seq(T), NEW d \in T, NEW r \in T
  PROVE  g \o <<d, r>> = Append(Append(g, d), r)
<1>1. <<d>> \in Seq(T) /\ <<r>> \in Seq(T) /\ <<d, r>> \in Seq(T)
  OBVIOUS
<1>2. Append(g, d) \in Seq(T)
  BY AppendProperties
<1>3. Append(g, d) = g \o <<d>>
  BY AppendIsConcat
<1>4. Append(Append(g, d), r) = Append(g, d) \o <<r>>
  BY <1>2, AppendIsConcat
<1>5. <<d>> \o <<r>> = Append(<<d>>, r)
  BY <1>1, AppendIsConcat
<1>6. Append(<<d>>, r) = <<d, r>>
  <2>1. /\ Append(<<d>>, r) \in Seq(T) /\ Len(Append(<<d>>, r)) = 2
        /\ Append(<<d>>, r)[1] = d /\ Append(<<d>>, r)[2] = r
    BY <1>1, AppendProperties
  <2>2. /\ <<d, r>> \in Seq(T) /\ Len(<<d, r>>) = 2
        /\ <<d, r>>[1] = d /\ <<d, r>>[2] = r
    BY <1>1
  <2>3. \A i \in 1..2 : i = 1 \/ i = 2
    OBVIOUS
  <2>4. \A i \in 1..2 : Append(<<d>>, r)[i] = <<d, r>>[i]
    BY <2>1, <2>2, <2>3
  <2> QED BY <2>1, <2>2, <2>4, SeqEqual
<1>7. (g \o <<d>>) \o <<r>> = g \o (<<d>> \o <<r>>)
  BY <1>1, ConcatAssociative
<1> QED BY <1>3, <1>4, <1>5, <1>6, <1>7, Zenon

LEMMA Associates ==
  \A S : \A a, b, c \in Seq(S) : (a \o b) \o c = a \o (b \o c)
BY ConcatAssociative

\* The messages as read(), poll() and the fragments make them up.
Read_(g, d, r) == (FlattenSeq(g) \o d) \o r

TokenInv ==
  IF alive THEN Read_(got, _done, _reassembled) = DataTokens
  ELSE IsPrefix(Read_(got, _done, _reassembled), DataTokens)

LEMMA TokenMove ==
  ASSUME FrameTypes, FrameTypes', TokenInv, Moves
  PROVE  TokenInv'
<1> DEFINE E == FlattenSeq(got)
           p == Following.payload
<1>1. /\ E \in Seq(Tokens) /\ _done \in Seq(Tokens) /\ _reassembled \in Seq(Tokens)
      /\ <<>> \in Seq(Tokens) /\ got \in Seq(Seq(Tokens))
  BY FlattenType DEF FrameTypes
<1>2. DataTokens \in Seq(Tokens)
  BY DataTokensType
<1>3. /\ E \o _done \in Seq(Tokens) /\ (E \o _done) \o _reassembled \in Seq(Tokens)
  BY <1>1, ConcatProperties
<1>4. ASSUME CanTake, taken' = taken + 1, sent' = sent
      PROVE  /\ p \in Seq(Tokens)
             /\ DataTokens' = DataTokens \o (IF Data(Following) THEN p ELSE <<>>)
  BY <1>4, FollowingType, DataTokensNext
<1>5. CASE Stays
  <2>1. DataTokens' = DataTokens
    BY <1>5, DataTokensSame DEF Stays
  <2> QED BY <1>5, <2>1 DEF Stays, TokenInv
<1>6. CASE Hears
  <2>1. DataTokens' = DataTokens
    BY <1>6, DataTokensSame DEF Hears
  <2> QED BY <1>6, <2>1 DEF Hears, TokenInv
<1>7. CASE Loses
  <2>1. IsPrefix(Read_(got, _done, _reassembled), DataTokens)
    <3>1. CASE alive
      <4>1. DataTokens = DataTokens \o <<>>
        BY <1>2, ConcatEmptySeq
      <4>2. IsPrefix(DataTokens, DataTokens)
        BY <1>1, <1>2, <4>1, PrefixConcat
      <4> QED BY <3>1, <4>2 DEF TokenInv
    <3> QED BY <3>1 DEF TokenInv
  <2>2. IsPrefix(E \o _done, DataTokens)
    BY <1>1, <1>2, <1>3, <2>1, PrefixShorter DEF Read_
  <2>3. IsPrefix(E \o _done, DataTokens')
    <3>1. CASE taken' = taken
      <4>1. DataTokens' = DataTokens
        BY <1>7, <3>1, DataTokensSame DEF Loses
      <4> QED BY <2>2, <4>1
    <3>2. CASE CanTake /\ taken' = taken + 1
      <4>1. PICK u \in Seq(Tokens) : DataTokens' = DataTokens \o u
        BY <1>1, <1>4, <1>7, <3>2 DEF Loses
      <4> QED BY <1>2, <1>3, <2>2, <4>1, PrefixLonger
    <3> QED BY <1>7, <3>1, <3>2 DEF Loses
  <2>4. (E \o _done) \o <<>> = E \o _done
    BY <1>3, ConcatEmptySeq
  <2> QED BY <1>7, <2>3, <2>4 DEF Loses, TokenInv, Read_
<1>8. CASE Skips
  <2>1. DataTokens' = DataTokens \o <<>>
    BY <1>4, <1>8 DEF Skips
  <2>2. DataTokens' = DataTokens
    BY <1>2, <2>1, ConcatEmptySeq
  <2> QED BY <1>8, <2>2 DEF Skips, TokenInv
<1>9. ASSUME IF alive THEN Read_(got, _done, _reassembled) = DataTokens
             ELSE IsPrefix(Read_(got, _done, _reassembled), DataTokens),
             NEW u \in Seq(Tokens), NEW D, D = DataTokens \o u
      PROVE  IF alive THEN Read_(got, _done, _reassembled) \o u = D
             ELSE IsPrefix(Read_(got, _done, _reassembled), D)
  BY <1>2, <1>3, <1>9, PrefixLonger DEF Read_
<1>10. CASE Collects
  <2>1. DataTokens' = DataTokens \o p /\ p \in Seq(Tokens)
    BY <1>4, <1>10 DEF Collects
  <2>2. ((E \o _done) \o _reassembled) \o p = (E \o _done) \o (_reassembled \o p)
    <3>1. p \in Seq(Tokens) /\ E \o _done \in Seq(Tokens) /\ _reassembled \in Seq(Tokens)
      BY <1>1, <1>3, <2>1
    <3> DEFINE k == E \o _done
               T == Seq(Tokens)
    <3>2. k \in T /\ p \in T /\ _reassembled \in T
      BY <3>1
    <3>3. \A a, b, c \in T : (a \o b) \o c = a \o (b \o c)
      BY Associates
    <3> HIDE DEF E, p, k, T
    <3>4. (k \o _reassembled) \o p = k \o (_reassembled \o p)
      BY <3>2, <3>3, Zenon
    <3> QED BY <3>4 DEF k
  <2> QED BY <1>10, <2>1, <2>2 DEF Collects, TokenInv, Read_
<1>11. CASE Completes
  <2> DEFINE m == _reassembled \o p
  <2>1. DataTokens' = DataTokens \o p /\ p \in Seq(Tokens) /\ m \in Seq(Tokens)
    BY <1>1, <1>4, <1>11, ConcatProperties DEF Completes
  <2>2. E \o _done = E
    BY <1>1, <1>11, ConcatEmptySeq DEF Completes
  <2>3. DataTokens' = E \o m
    <3>1. DataTokens = E \o _reassembled
      BY <1>11, <2>2 DEF TokenInv, Read_, Completes
    <3>2. (E \o _reassembled) \o p = E \o (_reassembled \o p)
      <4> HIDE DEF E, p
      <4> QED BY SMTT(30), <1>1, <2>1, ConcatAssociative
    <3> QED BY <2>1, <3>1, <3>2
  <2>4. E \o m \in Seq(Tokens)
    BY <1>1, <2>1, ConcatProperties
  <2>5. Read_(got', _done', <<>>) = E \o m
    <3>1. CASE got' = Append(got, m) /\ _done' = <<>>
      <4>1. FlattenSeq(got') = E \o m
        BY <1>1, <2>1, <3>1, FlattenAppend
      <4> QED BY <2>4, <3>1, <4>1, ConcatEmptySeq DEF Read_
    <3>2. CASE _done' = m /\ got' = got
      BY <2>4, <3>2, ConcatEmptySeq DEF Read_
    <3> QED BY <1>11, <3>1, <3>2 DEF Completes
  <2> QED BY <1>11, <2>3, <2>5 DEF Completes, TokenInv
<1>12. CASE Hands
  <2>1. DataTokens' = DataTokens
    BY <1>12, DataTokensSame DEF Hands
  <2>2. FlattenSeq(got') = E \o _done
    BY <1>1, <1>12, FlattenAppend DEF Hands
  <2>3. (E \o _done) \o <<>> = E \o _done
    BY <1>3, ConcatEmptySeq
  <2> QED BY <1>12, <2>1, <2>2, <2>3 DEF Hands, TokenInv, Read_
<1> QED BY <1>5, <1>6, <1>7, <1>8, <1>10, <1>11, <1>12 DEF Moves

-----------------------------------------------------------------------------
(* The messages are cut where the peer has ended them.                     *)

\* A message ends behind a and before b.
Apart(q, a, b) == \E i \in a..(b - 1) : q[i].fin /\ Data(q[i])

\* Tokens are those of t frames, in order; the ends of messages are between
\* those of different members of M, and behind all but those of the last.
Groups(q, t, M) ==
  /\ \A i \in 1..Len(M) : \A a \in ToSet(M[i]) :
       a \in 1..t /\ (Apart(q, a, t + 1) <=> i < Len(M))
  /\ \A i, j \in 1..Len(M) : \A a \in ToSet(M[i]), b \in ToSet(M[j]) :
       /\ i < j => a < b /\ Apart(q, a, b)
       /\ i = j /\ a < b => ~Apart(q, a, b)

GroupInv == Groups(sent, taken, Messages)

\* The frame at t + 1 decides whether a message has ended before t + 2.
LEMMA ApartNext ==
  ASSUME NEW q, NEW t \in Nat, NEW a \in 1..(t + 1)
  PROVE  Apart(q, a, t + 2) <=>
           (a <= t /\ Apart(q, a, t + 1)) \/ (q[t + 1].fin /\ Data(q[t + 1]))
<1>1. (t + 2) - 1 = t + 1 /\ (t + 1) - 1 = t /\ t + 1 \in a..(t + 1)
  OBVIOUS
<1>2. \A i \in a..(t + 1) : (a <= t /\ i \in a..t) \/ i = t + 1
  OBVIOUS
<1>3. \A i \in a..t : i \in a..(t + 1) /\ a <= t
  OBVIOUS
<1> QED BY <1>1, <1>2, <1>3 DEF Apart

\* Messages that are regrouped without a frame being taken.
LEMMA GroupsMoved ==
  ASSUME NEW q, NEW t \in Nat, NEW M, NEW N, Len(M) \in Nat, Len(N) \in Nat, Groups(q, t, M),
         NEW f,
         \A i \in 1..Len(N) : ToSet(N[i]) # {} =>
           /\ f[i] \in 1..Len(M) /\ ToSet(N[i]) \subseteq ToSet(M[f[i]])
           /\ i < Len(N) <=> f[i] < Len(M),
         \A i, j \in 1..Len(N) : ToSet(N[i]) # {} /\ ToSet(N[j]) # {} /\ i < j => f[i] < f[j]
  PROVE  Groups(q, t, N)
<1>1. ASSUME NEW i \in 1..Len(N), NEW a \in ToSet(N[i])
      PROVE  a \in 1..t /\ (Apart(q, a, t + 1) <=> i < Len(N))
  <2>1. f[i] \in 1..Len(M) /\ a \in ToSet(M[f[i]]) /\ (i < Len(N) <=> f[i] < Len(M))
    OBVIOUS
  <2> QED BY <2>1 DEF Groups
<1>2. ASSUME NEW i \in 1..Len(N), NEW j \in 1..Len(N), NEW a \in ToSet(N[i]), NEW b \in ToSet(N[j])
      PROVE  /\ i < j => a < b /\ Apart(q, a, b)
             /\ i = j /\ a < b => ~Apart(q, a, b)
  <2>1. /\ f[i] \in 1..Len(M) /\ a \in ToSet(M[f[i]])
        /\ f[j] \in 1..Len(M) /\ b \in ToSet(M[f[j]])
        /\ i < j => f[i] < f[j]
    OBVIOUS
  <2> QED BY <2>1 DEF Groups
<1> QED BY <1>1, <1>2 DEF Groups

\* A frame is taken that ends no message; what it carries, if anything, joins
\* the last member.
LEMMA GroupsGrown ==
  ASSUME NEW q, NEW t \in Nat, NEW M, NEW N, Len(M) \in Nat, Len(N) = Len(M), Groups(q, t, M),
         ~(q[t + 1].fin /\ Data(q[t + 1])),
         \A i \in 1..Len(M) : i < Len(M) => ToSet(N[i]) \subseteq ToSet(M[i]),
         Len(M) # 0 => ToSet(N[Len(M)]) \subseteq ToSet(M[Len(M)]) \cup {t + 1}
  PROVE  Groups(q, t + 1, N)
<1>1. ASSUME NEW i \in 1..Len(N), NEW a \in ToSet(N[i])
      PROVE  \/ a \in ToSet(M[i]) /\ a \in 1..t
             \/ i = Len(M) /\ a = t + 1
  <2>1. CASE i < Len(M)
    BY <2>1 DEF Groups
  <2>2. CASE i = Len(M)
    <3>1. a \in ToSet(N[Len(M)]) /\ Len(M) # 0
      BY <2>2
    <3>2. a \in ToSet(M[Len(M)]) \/ a = t + 1
      BY <3>1
    <3> QED BY <2>2, <3>2 DEF Groups
  <2> QED BY <2>1, <2>2
<1>2. ASSUME NEW i \in 1..Len(N), NEW a \in ToSet(N[i])
      PROVE  a \in 1..(t + 1) /\ (Apart(q, a, t + 2) <=> i < Len(N))
  <2>1. CASE a \in ToSet(M[i]) /\ a \in 1..t
    <3>1. Apart(q, a, t + 2) <=> Apart(q, a, t + 1)
      BY <2>1, ApartNext
    <3>2. Apart(q, a, t + 1) <=> i < Len(M)
      BY <2>1 DEF Groups
    <3> QED BY <2>1, <3>1, <3>2
  <2>2. CASE i = Len(M) /\ a = t + 1
    <3>1. ~Apart(q, a, t + 2)
      BY <2>2, ApartNext
    <3> QED BY <2>2, <3>1
  <2> QED BY <1>1, <2>1, <2>2
<1>3. ASSUME NEW i \in 1..Len(N), NEW j \in 1..Len(N), NEW a \in ToSet(N[i]), NEW b \in ToSet(N[j])
      PROVE  /\ i < j => a < b /\ Apart(q, a, b)
             /\ i = j /\ a < b => ~Apart(q, a, b)
  <2>1. CASE a \in ToSet(M[i]) /\ b \in ToSet(M[j])
    BY <2>1 DEF Groups
  <2>2. CASE a \in ToSet(M[i]) /\ a \in 1..t /\ j = Len(M) /\ b = t + 1
    <3>1. Apart(q, a, t + 1) <=> i < Len(M)
      BY <2>2 DEF Groups
    <3> QED BY <2>2, <3>1
  <2>3. CASE i = Len(M) /\ a = t + 1
    <3>1. b \in 1..(t + 1)
      BY <1>2
    <3> QED BY <2>3, <3>1
  <2> QED BY <1>1, <2>1, <2>2, <2>3
<1>4. (t + 1) + 1 = t + 2
  OBVIOUS
<1> QED BY <1>2, <1>3, <1>4 DEF Groups

\* A frame is taken that ends a message, which becomes the k-th member; it
\* may also be dropped.
LEMMA GroupsEnded ==
  ASSUME NEW q, NEW t \in Nat, NEW M, NEW N, Len(M) \in Nat \ {0}, Len(N) \in Nat, Groups(q, t, M),
         q[t + 1].fin /\ Data(q[t + 1]),
         NEW k \in Nat, k < Len(N), k <= Len(M),
         \A i \in 1..Len(N) : i < k => i < Len(M) /\ ToSet(N[i]) \subseteq ToSet(M[i]),
         k # 0 => ToSet(N[k]) \subseteq ToSet(M[Len(M)]) \cup {t + 1},
         \A i \in 1..Len(N) : i > k => ToSet(N[i]) = {}
  PROVE  Groups(q, t + 1, N)
<1>1. ASSUME NEW i \in 1..Len(N), NEW a \in ToSet(N[i])
      PROVE  \/ i < k /\ i \in 1..Len(M) /\ i < Len(M) /\ a \in ToSet(M[i]) /\ a \in 1..t
             \/ i = k /\ a \in ToSet(M[Len(M)]) /\ a \in 1..t
             \/ i = k /\ a = t + 1
  <2>1. \/ i < k /\ i \in 1..Len(M) /\ i < Len(M) /\ a \in ToSet(M[i])
        \/ i = k /\ a \in ToSet(M[Len(M)])
        \/ i = k /\ a = t + 1
    <3>1. CASE i < k
      BY <3>1
    <3>2. CASE i = k
      <4>1. a \in ToSet(N[k]) /\ k # 0
        BY <3>2
      <4> QED BY <3>2, <4>1
    <3>3. CASE i > k
      BY <3>3
    <3> QED BY <3>1, <3>2, <3>3
  <2>2. Len(M) \in 1..Len(M)
    OBVIOUS
  <2> QED BY <2>1, <2>2 DEF Groups
<1>2. ASSUME NEW i \in 1..Len(N), NEW a \in ToSet(N[i])
      PROVE  a \in 1..(t + 1) /\ (Apart(q, a, t + 2) <=> i < Len(N))
  <2>1. a \in 1..(t + 1) /\ i < Len(N)
    BY <1>1
  <2> QED BY <2>1, ApartNext
<1>3. ASSUME NEW i \in 1..Len(N), NEW j \in 1..Len(N), NEW a \in ToSet(N[i]), NEW b \in ToSet(N[j])
      PROVE  /\ i < j => a < b /\ Apart(q, a, b)
             /\ i = j /\ a < b => ~Apart(q, a, b)
  <2>1. Len(M) \in 1..Len(M)
    OBVIOUS
  <2>2. CASE i < k /\ i \in 1..Len(M) /\ i < Len(M) /\ a \in ToSet(M[i]) /\ a \in 1..t
    <3>1. CASE j < k /\ j \in 1..Len(M) /\ j < Len(M) /\ b \in ToSet(M[j])
      BY <2>2, <3>1 DEF Groups
    <3>2. CASE j = k /\ b \in ToSet(M[Len(M)])
      <4>1. a < b /\ Apart(q, a, b)
        BY <2>1, <2>2, <3>2 DEF Groups
      <4> QED BY <2>2, <3>2, <4>1
    <3>3. CASE j = k /\ b = t + 1
      <4>1. Apart(q, a, t + 1)
        BY <2>2 DEF Groups
      <4> QED BY <2>2, <3>3, <4>1
    <3> QED BY <1>1, <3>1, <3>2, <3>3
  <2>3. CASE i = k /\ a \in ToSet(M[Len(M)]) /\ a \in 1..t
    <3>1. ~(i < j)
      BY <1>1, <2>3
    <3>2. ASSUME i = j, a < b PROVE ~Apart(q, a, b)
      <4>1. b \in ToSet(M[Len(M)]) \/ b = t + 1
        BY <1>1, <2>3, <3>2
      <4>2. CASE b \in ToSet(M[Len(M)])
        BY <2>1, <2>3, <3>2, <4>2 DEF Groups
      <4>3. CASE b = t + 1
        BY <2>1, <2>3, <4>3 DEF Groups
      <4> QED BY <4>1, <4>2, <4>3
    <3> QED BY <3>1, <3>2
  <2>4. CASE i = k /\ a = t + 1
    <3>1. ~(i < j) /\ b \in 1..(t + 1)
      BY <1>1, <2>4
    <3> QED BY <2>4, <3>1
  <2> QED BY <1>1, <2>2, <2>3, <2>4
<1>4. (t + 1) + 1 = t + 2
  OBVIOUS
<1> QED BY <1>2, <1>3, <1>4 DEF Groups

\* What has been taken is as it was when the peer sends another frame.
LEMMA GroupsSent ==
  ASSUME NEW q, NEW r, NEW t \in Nat, NEW M, Groups(q, t, M), \A i \in 1..t : r[i] = q[i]
  PROVE  Groups(r, t, M)
<1>1. ASSUME NEW a \in 1..t, NEW b \in 1..(t + 1)
      PROVE  Apart(r, a, b) <=> Apart(q, a, b)
  <2>1. \A i \in a..(b - 1) : i \in 1..t
    OBVIOUS
  <2> QED BY <2>1 DEF Apart
<1>2. \A i \in 1..Len(M) : \A a \in ToSet(M[i]) :
        a \in 1..t /\ a \in 1..(t + 1) /\ t + 1 \in 1..(t + 1)
  BY DEF Groups
<1>3. \A i \in 1..Len(M) : \A a \in ToSet(M[i]) :
        a \in 1..t /\ (Apart(r, a, t + 1) <=> i < Len(M))
  BY <1>1, <1>2 DEF Groups
<1>4. \A i, j \in 1..Len(M) : \A a \in ToSet(M[i]), b \in ToSet(M[j]) :
        /\ i < j => a < b /\ Apart(r, a, b)
        /\ i = j /\ a < b => ~Apart(r, a, b)
  BY <1>1, <1>2 DEF Groups
<1> QED BY <1>3, <1>4 DEF Groups

\* The members of Messages.
LEMMA MessagesAt ==
  ASSUME NEW T, NEW g \in Seq(T), NEW d \in T, NEW r \in T
  PROVE  /\ Len(g) \in Nat /\ Len(g \o <<d, r>>) = Len(g) + 2
         /\ \A i \in 1..Len(g) : (g \o <<d, r>>)[i] = g[i]
         /\ (g \o <<d, r>>)[Len(g) + 1] = d /\ (g \o <<d, r>>)[Len(g) + 2] = r
<1> DEFINE s == <<d, r>>
<1>2. s \in Seq(T) /\ Len(s) = 2 /\ s[1] = d /\ s[2] = r
  OBVIOUS
<1> HIDE DEF s
<1>3. /\ Len(g) \in Nat /\ Len(g \o s) = Len(g) + Len(s)
      /\ \A i \in 1..Len(g) + Len(s) :
           (g \o s)[i] = IF i <= Len(g) THEN g[i] ELSE s[i - Len(g)]
  <2>1. s \in Seq(T) /\ Len(g) \in Nat
    BY <1>2
  <2>2. Len(g \o s) = Len(g) + Len(s)
    BY <2>1, ConcatProperties
  <2>3. \A i \in 1..Len(g) + Len(s) :
           (g \o s)[i] = IF i <= Len(g) THEN g[i] ELSE s[i - Len(g)]
    BY <2>1, ConcatProperties
  <2> QED BY <2>1, <2>2, <2>3
<1>4. (Len(g) + 1) - Len(g) = 1 /\ (Len(g) + 2) - Len(g) = 2
  BY <1>3
<1>5. /\ \A i \in 1..Len(g) : (g \o s)[i] = g[i]
      /\ (g \o s)[Len(g) + 1] = s[1] /\ (g \o s)[Len(g) + 2] = s[2]
  BY <1>2, <1>3, <1>4
<1> QED BY <1>2, <1>3, <1>5 DEF s

LEMMA ToSetConcat ==
  ASSUME NEW S, NEW s \in Seq(S), NEW u \in Seq(S)
  PROVE  ToSet(s \o u) = ToSet(s) \cup ToSet(u)
<1>1. /\ DOMAIN s = 1..Len(s) /\ DOMAIN u = 1..Len(u) /\ Len(s) \in Nat /\ Len(u) \in Nat
      /\ DOMAIN (s \o u) = 1..(Len(s) + Len(u))
      /\ \A i \in 1..(Len(s) + Len(u)) :
           (s \o u)[i] = IF i <= Len(s) THEN s[i] ELSE u[i - Len(s)]
  BY ConcatProperties
<1>2. ASSUME NEW a \in ToSet(s \o u) PROVE a \in ToSet(s) \cup ToSet(u)
  <2>1. PICK i \in 1..(Len(s) + Len(u)) : a = (s \o u)[i]
    BY <1>1 DEF ToSet
  <2>2. CASE i <= Len(s)
    BY <1>1, <2>1, <2>2 DEF ToSet
  <2>3. CASE i > Len(s)
    <3>1. i - Len(s) \in 1..Len(u) /\ a = u[i - Len(s)]
      BY <1>1, <2>1, <2>3
    <3> QED BY <1>1, <3>1 DEF ToSet
  <2> QED BY <1>1, <2>2, <2>3
<1>3. ASSUME NEW a \in ToSet(s) PROVE a \in ToSet(s \o u)
  <2>1. PICK i \in 1..Len(s) : a = s[i]
    BY <1>1 DEF ToSet
  <2>2. i \in 1..(Len(s) + Len(u)) /\ (s \o u)[i] = a
    BY <1>1, <2>1
  <2> QED BY <1>1, <2>2 DEF ToSet
<1>4. ASSUME NEW a \in ToSet(u) PROVE a \in ToSet(s \o u)
  <2>1. PICK i \in 1..Len(u) : a = u[i]
    BY <1>1 DEF ToSet
  <2>2. Len(s) + i \in 1..(Len(s) + Len(u)) /\ (Len(s) + i) - Len(s) = i /\ ~(Len(s) + i <= Len(s))
    BY <1>1
  <2>3. (s \o u)[Len(s) + i] = a
    BY <1>1, <2>1, <2>2
  <2> QED BY <1>1, <2>2, <2>3 DEF ToSet
<1> QED BY <1>2, <1>3, <1>4

LEMMA ToSetEmpty == ToSet(<<>>) = {}
<1>1. \A i \in DOMAIN <<>> : FALSE
  OBVIOUS
<1> QED BY <1>1 DEF ToSet

\* The tokens that the frame behind the taken ones adds to a message.
LEMMA FollowingTokens ==
  ASSUME FrameTypes, CanTake
  PROVE  ToSet(_reassembled \o Following.payload) \subseteq ToSet(_reassembled) \cup {taken + 1}
<1>1. /\ Following.payload \in {<<>>, <<taken + 1>>} /\ Following.payload \in Seq(Tokens)
      /\ _reassembled \in Seq(Tokens)
  BY FollowingType DEF FrameTypes
<1>2. ToSet(_reassembled \o Following.payload) = ToSet(_reassembled) \cup ToSet(Following.payload)
  BY <1>1, ToSetConcat
<1>3. ToSet(<<taken + 1>>) \subseteq {taken + 1}
  BY DEF ToSet
<1> QED BY <1>1, <1>2, <1>3, ToSetEmpty

LEMMA GroupMove ==
  ASSUME FrameTypes, FrameTypes', GroupInv, Moves
  PROVE  GroupInv'
<1> DEFINE M == Messages
           N == Messages'
           n == Len(got)
<1>1. /\ n \in Nat /\ Len(M) = n + 2
      /\ \A i \in 1..n : M[i] = got[i]
      /\ M[n + 1] = _done /\ M[n + 2] = _reassembled
  BY MessagesAt DEF FrameTypes, Messages
<1>2. /\ Len(got') \in Nat /\ Len(N) = Len(got') + 2
      /\ \A i \in 1..Len(got') : N[i] = got'[i]
      /\ N[Len(got') + 1] = _done' /\ N[Len(got') + 2] = _reassembled'
  BY MessagesAt DEF FrameTypes, Messages
<1>3. Groups(sent, taken, M) /\ taken \in Nat
  BY DEF GroupInv, FrameTypes
<1>4. ToSet(<<>>) = {}
  BY ToSetEmpty
<1>5. (got' = got /\ _done' = _done /\ _reassembled' = _reassembled) => N = M
  BY DEF Messages
<1> SUFFICES Groups(sent', taken', N)
  BY DEF GroupInv, Groups, Apart, Data
<1> HIDE DEF M, N
<1>6. CASE Stays
  BY <1>3, <1>5, <1>6 DEF Stays
<1>7. CASE Hears
  <2>1. PICK f \in FrameSet : sent' = Append(sent, f)
    BY <1>7 DEF Hears
  <2>2. \A i \in 1..taken : sent'[i] = sent[i]
    BY <2>1, AppendProperties DEF FrameTypes
  <2>3. Groups(sent', taken, M)
    BY <1>3, <2>2, GroupsSent
  <2> QED BY <1>5, <1>7, <2>3 DEF Hears
<1>8. CASE Loses
  <2>1. /\ Len(N) = Len(M) /\ \A i \in 1..Len(M) : i < Len(M) => N[i] = M[i]
        /\ ToSet(N[Len(M)]) = {} /\ sent' = sent
    <3>1. got' = got /\ _done' = _done /\ _reassembled' = <<>> /\ sent' = sent
      BY <1>8 DEF Loses
    <3>2. \A i \in 1..(n + 2) : i \in 1..n \/ i = n + 1 \/ i = n + 2
      BY <1>1
    <3> QED BY <1>1, <1>2, <1>4, <3>1, <3>2
  <2>2. CASE taken' = taken
    <3> DEFINE f == [i \in 1..Len(N) |-> i]
    <3>1. \A i \in 1..Len(N) : f[i] = i
      OBVIOUS
    <3> HIDE DEF f
    <3>2. \A i \in 1..Len(N) : ToSet(N[i]) # {} =>
            /\ f[i] \in 1..Len(M) /\ ToSet(N[i]) \subseteq ToSet(M[f[i]])
            /\ i < Len(N) <=> f[i] < Len(M)
      BY <1>1, <2>1, <3>1
    <3>3. \A i, j \in 1..Len(N) : ToSet(N[i]) # {} /\ ToSet(N[j]) # {} /\ i < j => f[i] < f[j]
      BY <3>1
    <3>4. Len(M) \in Nat /\ Len(N) \in Nat
      BY <1>1, <1>2
    <3>5. Groups(sent, taken, N)
      BY <1>3, <3>2, <3>3, <3>4, GroupsMoved
    <3> QED BY <2>1, <2>2, <3>5
  <2>3. CASE taken' = taken + 1
    <3>1. CASE sent[taken + 1].fin /\ Data(sent[taken + 1])
      <4> DEFINE k == n + 1
      <4>1. k \in Nat /\ k < Len(N) /\ k <= Len(M) /\ Len(M) \in Nat \ {0}
        BY <1>1, <2>1
      <4>2. \A i \in 1..Len(N) : i < k => i < Len(M) /\ ToSet(N[i]) \subseteq ToSet(M[i])
        BY <1>1, <2>1
      <4>3. \A i \in 1..Len(N) : i > k => ToSet(N[i]) = {}
        BY <1>1, <2>1
      <4>4. ToSet(N[k]) = {}
        BY <1>1, <1>4, <1>8, <2>1, <4>1 DEF Loses
      <4> HIDE DEF k
      <4>5. Groups(sent, taken + 1, N)
        BY <1>3, <2>1, <3>1, <4>1, <4>2, <4>3, <4>4, GroupsEnded
      <4> QED BY <2>1, <2>3, <4>5
    <3>2. CASE ~(sent[taken + 1].fin /\ Data(sent[taken + 1]))
      <4>1. Len(M) # 0 => ToSet(N[Len(M)]) \subseteq ToSet(M[Len(M)]) \cup {taken + 1}
        BY <2>1
      <4>2. \A i \in 1..Len(M) : i < Len(M) => ToSet(N[i]) \subseteq ToSet(M[i])
        BY <2>1
      <4>3. Len(M) \in Nat /\ Len(N) = Len(M)
        BY <1>1, <2>1
      <4>4. Groups(sent, taken + 1, N)
        BY <1>3, <3>2, <4>1, <4>2, <4>3, GroupsGrown
      <4> QED BY <2>1, <2>3, <4>4
    <3> QED BY <3>1, <3>2
  <2> QED BY <1>8, <2>2, <2>3 DEF Loses
<1>9. CASE Skips
  <2>1. N = M /\ sent' = sent /\ taken' = taken + 1 /\ ~Data(sent[taken + 1])
    BY <1>5, <1>9 DEF Skips, Following
  <2>2. Groups(sent, taken + 1, M)
    BY <1>1, <1>3, <2>1, GroupsGrown
  <2> QED BY <2>1, <2>2
<1>10. CASE Collects
  <2>1. /\ sent' = sent /\ taken' = taken + 1 /\ ~(sent[taken + 1].fin /\ Data(sent[taken + 1]))
        /\ got' = got /\ _done' = _done /\ _reassembled' = _reassembled \o Following.payload
    BY <1>10 DEF Collects, Following
  <2>2. /\ Len(N) = Len(M) /\ \A i \in 1..Len(M) : i < Len(M) => N[i] = M[i]
        /\ N[Len(M)] = _reassembled' /\ M[Len(M)] = _reassembled
    <3>1. \A i \in 1..(n + 2) : i < n + 2 => i \in 1..n \/ i = n + 1
      BY <1>1
    <3>2. /\ Len(got') = n /\ \A i \in 1..n : N[i] = got[i]
          /\ N[n + 1] = _done /\ N[n + 2] = _reassembled'
      BY <1>2, <2>1
    <3>3. Len(N) = n + 2
      BY <1>2, <3>2
    <3>4. \A i \in 1..(n + 2) : i < n + 2 => N[i] = M[i]
      BY <1>1, <3>1, <3>2
    <3> HIDE DEF n
    <3> QED BY <1>1, <3>2, <3>3, <3>4
  <2>3. ToSet(N[Len(M)]) \subseteq ToSet(M[Len(M)]) \cup {taken + 1}
    BY <1>10, <2>1, <2>2, FollowingTokens DEF Collects
  <2>4. \A i \in 1..Len(M) : i < Len(M) => ToSet(N[i]) \subseteq ToSet(M[i])
    BY <2>2
  <2>5. Len(M) \in Nat /\ Len(N) = Len(M)
    BY <1>1, <2>2
  <2>6. Groups(sent, taken + 1, N)
    BY <1>3, <2>1, <2>3, <2>4, <2>5, GroupsGrown
  <2> QED BY <2>1, <2>6
<1>11. CASE Completes
  <2> DEFINE m == _reassembled \o Following.payload
             k == n + 1
  <2>1. /\ sent' = sent /\ taken' = taken + 1 /\ sent[taken + 1].fin /\ Data(sent[taken + 1])
        /\ _reassembled' = <<>> /\ _done = <<>>
        /\ \/ got' = Append(got, m) /\ _done' = <<>>
           \/ _done' = m /\ got' = got
    BY <1>11 DEF Completes, Following
  <2>2. ToSet(m) \subseteq ToSet(M[Len(M)]) \cup {taken + 1}
    BY <1>1, <1>11, FollowingTokens DEF Completes
  <2>3. m \in Seq(Tokens) /\ got \in Seq(Seq(Tokens))
    BY <1>11, FollowingType, ConcatProperties DEF Completes, FrameTypes
  <2> HIDE DEF m
  <2>4. /\ k < Len(N) /\ N[k] = m /\ \A i \in 1..n : N[i] = M[i]
        /\ \A i \in 1..Len(N) : i > k => ToSet(N[i]) = {}
    <3>1. CASE got' = Append(got, m) /\ _done' = <<>>
      <4>1. /\ Len(got') = n + 1 /\ got'[n + 1] = m /\ \A i \in 1..n : got'[i] = got[i]
        BY <2>3, <3>1, AppendProperties
      <4>2. /\ n + 1 \in 1..Len(got') /\ \A i \in 1..n : i \in 1..Len(got')
            /\ \A i \in 1..(n + 3) : i > n + 1 => i = n + 2 \/ i = n + 3
        BY <1>1, <4>1
      <4>3. Len(N) = n + 3 /\ N[n + 2] = <<>> /\ N[n + 3] = <<>> /\ N[n + 1] = m
        BY <1>1, <1>2, <2>1, <3>1, <4>1, <4>2
      <4> QED BY <1>1, <1>2, <1>4, <4>1, <4>2, <4>3
    <3>2. CASE _done' = m /\ got' = got
      <4>1. \A i \in 1..(n + 2) : i > n + 1 => i = n + 2
        BY <1>1
      <4> QED BY <1>1, <1>2, <1>4, <2>1, <3>2, <4>1
    <3> QED BY <2>1, <3>1, <3>2
  <2>5. k \in Nat /\ k <= Len(M) /\ Len(M) \in Nat \ {0} /\ Len(N) \in Nat
    BY <1>1, <1>2
  <2>6. \A i \in 1..Len(N) : i < k => i < Len(M) /\ ToSet(N[i]) \subseteq ToSet(M[i])
    BY <1>1, <2>4, <2>5
  <2>7. k # 0 => ToSet(N[k]) \subseteq ToSet(M[Len(M)]) \cup {taken + 1}
    BY <2>2, <2>4
  <2> HIDE DEF k
  <2>8. Groups(sent, taken + 1, N)
    BY <1>3, <2>1, <2>4, <2>5, <2>6, <2>7, GroupsEnded
  <2> QED BY <2>1, <2>8
<1>12. CASE Hands
  <2> DEFINE f == [i \in 1..(n + 3) |-> IF i <= n + 1 THEN i ELSE n + 2]
  <2>1. /\ sent' = sent /\ taken' = taken /\ _reassembled' = _reassembled
        /\ _done' = <<>> /\ got' = Append(got, _done)
    BY <1>12 DEF Hands
  <2>2. /\ Len(got') = n + 1 /\ got'[n + 1] = _done /\ \A i \in 1..n : got'[i] = got[i]
    BY <2>1, AppendProperties DEF FrameTypes
  <2>3. /\ n + 1 \in 1..Len(got') /\ \A i \in 1..n : i \in 1..Len(got')
        /\ \A i \in 1..(n + 3) : i \in 1..n \/ i = n + 1 \/ i = n + 2 \/ i = n + 3
    BY <1>1, <2>2
  <2>4. /\ Len(N) = n + 3 /\ N[n + 1] = M[n + 1] /\ ToSet(N[n + 2]) = {}
        /\ N[n + 3] = M[n + 2] /\ \A i \in 1..n : N[i] = M[i]
    BY <1>1, <1>2, <1>4, <2>1, <2>2, <2>3
  <2>5. \A i \in 1..(n + 3) : f[i] = IF i <= n + 1 THEN i ELSE n + 2
    OBVIOUS
  <2> HIDE DEF f
  <2>6. ASSUME NEW i \in 1..Len(N), ToSet(N[i]) # {}
        PROVE  /\ f[i] \in 1..Len(M) /\ ToSet(N[i]) \subseteq ToSet(M[f[i]])
               /\ i < Len(N) <=> f[i] < Len(M)
    <3>1. CASE i \in 1..n
      BY <1>1, <2>4, <2>5, <3>1
    <3>2. CASE i = n + 1
      BY <1>1, <2>4, <2>5, <3>2
    <3>3. CASE i = n + 3
      <4>1. f[i] = n + 2 /\ N[i] = M[n + 2]
        BY <1>1, <2>4, <2>5, <3>3
      <4> QED BY <1>1, <2>4, <3>3, <4>1
    <3> QED BY <2>3, <2>4, <2>6, <3>1, <3>2, <3>3
  <2>7. ASSUME NEW i \in 1..Len(N), NEW j \in 1..Len(N),
               ToSet(N[i]) # {}, ToSet(N[j]) # {}, i < j
        PROVE  f[i] < f[j]
    <3>1. i # n + 2 /\ j # n + 2 /\ i \in 1..(n + 3) /\ j \in 1..(n + 3)
      BY <2>4, <2>7
    <3> QED BY <1>1, <2>5, <2>7, <3>1
  <2>8. Len(M) \in Nat /\ Len(N) \in Nat
    BY <1>1, <1>2
  <2>9. Groups(sent, taken, N)
    BY <1>3, <2>6, <2>7, <2>8, GroupsMoved
  <2> QED BY <2>1, <2>9
<1> QED BY <1>6, <1>7, <1>8, <1>9, <1>10, <1>11, <1>12 DEF Moves

ReadInv == LoopInv /\ TokenInv /\ GroupInv

LEMMA ReadInit ==
  ASSUME EchoInit
  PROVE  ReadInv
<1> USE WebSocketAssumption
<1>1. /\ LoopInv /\ alive = TRUE /\ sent = <<>> /\ taken = 0
      /\ got = <<>> /\ _done = <<>> /\ _reassembled = <<>>
  BY LoopInit DEF EchoInit, Init
<1>2. TokenInv
  <2>1. /\ Parts(sent, taken) \in Seq(Seq(Tokens)) /\ Len(Parts(sent, taken)) = 0
    BY <1>1, PartsType DEF LoopInv, FrameTypes
  <2>2. Parts(sent, taken) = <<>>
    BY <2>1
  <2>3. Len(<<>>) = 0 /\ FlattenSeq(<<>>) = <<>>
    BY FlattenEmpty
  <2>4. DataTokens = <<>>
    BY <2>2, <2>3 DEF DataTokens, Parts
  <2>5. (<<>> \o <<>>) \o <<>> = <<>>
    <3>1. <<>> \in Seq(Tokens)
      OBVIOUS
    <3> QED BY <3>1, ConcatEmptySeq
  <2> QED BY <1>1, <2>3, <2>4, <2>5 DEF TokenInv, Read_
<1>3. GroupInv
  <2>1. got \in Seq(Seq(Tokens)) /\ _done \in Seq(Tokens) /\ _reassembled \in Seq(Tokens)
    BY <1>1 DEF LoopInv, FrameTypes
  <2>2. Len(Messages) = 2 /\ Messages[1] = <<>> /\ Messages[2] = <<>>
    BY <1>1, <2>1, MessagesAt DEF Messages
  <2>3. \A i \in 1..2 : i = 1 \/ i = 2
    OBVIOUS
  <2>4. \A i \in 1..Len(Messages) : ToSet(Messages[i]) = {}
    BY <2>2, <2>3, ToSetEmpty
  <2> QED BY <2>4 DEF GroupInv, Groups
<1> QED BY <1>1, <1>2, <1>3 DEF ReadInv

LEMMA ReadStep ==
  ASSUME ReadInv, [EchoNext]_allVars
  PROVE  ReadInv'
<1> USE DEF ReadInv
<1>1. LoopInv'
  BY LoopStep
<1>2. CASE EchoNext
  <2>1. Moves
    BY <1>2, EveryMove
  <2> QED BY <1>1, <2>1, TokenMove, GroupMove DEF LoopInv
<1>3. CASE UNCHANGED allVars
  <2>1. UNCHANGED <<sent, taken, got, _done, _reassembled, alive>>
    BY <1>3 DEF allVars, vars, msgVars
  <2>2. Moves
    BY <2>1 DEF Moves, Stays
  <2> QED BY <1>1, <2>2, TokenMove, GroupMove DEF LoopInv
<1> QED BY <1>2, <1>3

\* What is left for read() and what read() has returned is made of the tokens
\* of the frames, and cut where the peer has ended its messages.
THEOREM EchoReadInvariant == EchoSpec => []ReadInv
<1>1. EchoInit => ReadInv
  BY ReadInit
<1>2. ReadInv /\ [EchoNext]_allVars => ReadInv'
  BY ReadStep
<1> QED BY <1>1, <1>2, PTL DEF EchoSpec

LEMMA WholeFromInv ==
  ASSUME ReadInv
  PROVE  MessagesWhole
<1> USE DEF ReadInv, LoopInv
<1>1. got \in Seq(Seq(Tokens)) /\ _done \in Seq(Tokens) /\ _reassembled \in Seq(Tokens)
  BY DEF FrameTypes
<1>2. FlattenSeq(Messages) = Read_(got, _done, _reassembled)
  <2> DEFINE T == Seq(Tokens)
             g == Append(got, _done)
  <2>1. got \in Seq(T) /\ _done \in T /\ _reassembled \in T
    BY <1>1
  <2>2. g \in Seq(T)
    BY <2>1, AppendProperties
  <2>3. got \o <<_done, _reassembled>> = Append(g, _reassembled)
    <3> HIDE DEF T
    <3> QED BY <2>1, MessagesAppended
  <2>4. FlattenSeq(g) = FlattenSeq(got) \o _done
    BY <1>1, FlattenAppend
  <2> HIDE DEF g
  <2>5. FlattenSeq(Append(g, _reassembled)) = FlattenSeq(g) \o _reassembled
    BY <1>1, <2>2, FlattenAppend
  <2> QED BY <2>3, <2>4, <2>5, Zenon DEF Read_, Messages
<1>3. IF alive THEN FlattenSeq(Messages) = DataTokens
      ELSE IsPrefix(FlattenSeq(Messages), DataTokens)
  BY <1>2 DEF TokenInv
<1>4. Len(Messages) \in Nat
  <2>1. Len(got) \in Nat /\ Len(got \o <<_done, _reassembled>>) = Len(got) + 2
    BY <1>1, MessagesAt
  <2> QED BY <2>1 DEF Messages
<1>5. ASSUME NEW i \in 1..Len(Messages), NEW j \in 1..Len(Messages),
             NEW a \in ToSet(Messages[i]), NEW b \in ToSet(Messages[j]), a < b
      PROVE  i = j <=> SameMessage(a, b)
  <2> HIDE DEF Messages
  <2>1. SameMessage(a, b) <=> ~Apart(sent, a, b)
    BY DEF SameMessage, Apart
  <2>2. a \in Nat /\ b \in Nat
    BY DEF GroupInv, Groups
  <2>3. i = j => ~Apart(sent, a, b)
    BY <1>5 DEF GroupInv, Groups
  <2>4. i < j => Apart(sent, a, b)
    BY DEF GroupInv, Groups
  <2>5. ~(j < i)
    BY <1>5, <2>2 DEF GroupInv, Groups
  <2>6. i = j \/ i < j \/ j < i
    BY <1>4
  <2> QED BY <2>1, <2>3, <2>4, <2>5, <2>6
<1> QED BY <1>3, <1>5 DEF MessagesWhole

\* read() returns the fragments in order, none missing or repeated, and cut
\* into messages as the peer has cut them, for any sequence of frames.
THEOREM EchoMessagesWhole == EchoSpec => []MessagesWhole
BY EchoReadInvariant, WholeFromInv, PTL

-----------------------------------------------------------------------------
(* Sending.                                                                *)

Units == Senders \cup 0..MaxFrames

WireSet == [deflated : BOOLEAN, of : Seq(Units), units : Seq(Units)]

SendTypes ==
  /\ wire \in Seq(WireSet) /\ pending \in Seq(Units) /\ packed \in Seq(Seq(Units))
  /\ over_tls \in BOOLEAN /\ broken \in BOOLEAN

\* Nothing is sent, though the stream may break.
Quiet == UNCHANGED <<over_tls, pending, packed, wire>> /\ (broken => broken')

\* The message m is sent, or lost in a stream that has broken.
Submits(m) ==
  /\ Plain(m) \/ \E n \in Pages(m) : Compress(m, n)
  /\ UNCHANGED <<over_tls, broken>>

\* It was compressed, perhaps, and is not sent.
Refuses(m) ==
  /\ over_tls
  /\ \/ UNCHANGED <<pending, packed>>
     \/ \E n \in Pages(m) : pending' = Deflate(m, n).rest /\ packed' = Append(packed, m)
  /\ UNCHANGED <<over_tls, broken, wire>>

LEMMA PagesType ==
  ASSUME NEW m \in Seq(Units), pending \in Seq(Units), NEW n \in Pages(m)
  PROVE  n \in Nat /\ n >= 1 /\ n * Page \in Nat /\ n * Page >= Page
<1> USE EchoAssumption
<1>1. n \in Int /\ n >= 1 /\ Page \in Nat /\ Page >= 1
  <2> DEFINE k == (Len(pending \o m \o EmptyBlock) + Page - 1) \div Page
  <2>1. n \in 1..k
    BY DEF Pages
  <2> HIDE DEF k
  <2> QED BY <2>1
<1>2. n * Page \in Int /\ n * Page = Page + (n - 1) * Page /\ (n - 1) * Page >= 0
  BY <1>1
<1> QED BY <1>1, <1>2

LEMMA BlockType == EmptyBlock \in Seq(Units) /\ Len(EmptyBlock) = 2
<1>1. 0 \in Units
  BY WebSocketAssumption DEF Units
<1> QED BY <1>1 DEF EmptyBlock

LEMMA DeflateType ==
  ASSUME NEW m \in Seq(Units), pending \in Seq(Units), NEW n \in Pages(m)
  PROVE  Deflate(m, n).out \in Seq(Units) /\ Deflate(m, n).rest \in Seq(Units)
<1> DEFINE block == pending \o m
           all == block \o EmptyBlock
           room == n * Page
           rest == IF room <= Len(block) THEN block ELSE all
<1>1. block \in Seq(Units)
  BY ConcatProperties
<1>2. all \in Seq(Units)
  <2> HIDE DEF block
  <2> QED BY <1>1, BlockType, ConcatProperties
<1>3. room \in Nat
  BY PagesType
<1>4. /\ Deflate(m, n).out = SubSeq(all, 1, IF room < Len(all) THEN room ELSE Len(all))
      /\ Deflate(m, n).rest = SubSeq(rest, room + 1, Len(rest))
  BY DEF Deflate
<1> HIDE DEF block, all, room
<1>5. rest \in Seq(Units)
  BY <1>1, <1>2
<1> HIDE DEF rest
<1>6. SubSeq(rest, room + 1, Len(rest)) \in Seq(Units)
  <2>1. Len(rest) \in Nat /\ \A i \in (room + 1)..Len(rest) : rest[i] \in Units
    BY <1>3, <1>5
  <2> QED BY <1>3, <2>1, SubSeqProperties
<1>7. SubSeq(all, 1, IF room < Len(all) THEN room ELSE Len(all)) \in Seq(Units)
  <2> DEFINE k == IF room < Len(all) THEN room ELSE Len(all)
  <2>1. k \in Nat /\ \A i \in 1..k : all[i] \in Units
    BY <1>2, <1>3
  <2> HIDE DEF k
  <2>2. SubSeq(all, 1, k) \in Seq(Units)
    BY <2>1, SubSeqProperties
  <2> QED BY <2>2 DEF k
<1> QED BY <1>4, <1>6, <1>7

\* What reaches the wire of a message.
LEMMA SubmitsWire ==
  ASSUME SendTypes, NEW m \in Seq(Units), Submits(m)
  PROVE  /\ broken => wire' = wire
         /\ ~broken => \E w \in WireSet : wire' = Append(wire, w) /\ w.of = m
         /\ pending' \in Seq(Units) /\ packed' \in Seq(Seq(Units))
<1>1. pending \in Seq(Units) /\ packed \in Seq(Seq(Units))
  BY DEF SendTypes
<1>2. CASE Plain(m)
  <2> DEFINE w == [deflated |-> FALSE, of |-> m, units |-> m]
  <2>1. w \in WireSet /\ w.of = m
    BY DEF WireSet
  <2>2. /\ wire' = IF broken THEN wire ELSE Append(wire, w)
        /\ UNCHANGED <<pending, packed>>
    BY <1>2 DEF Plain
  <2> HIDE DEF w
  <2> QED BY <1>1, <2>1, <2>2
<1>3. CASE \E n \in Pages(m) : Compress(m, n)
  <2>1. PICK n \in Pages(m) : Compress(m, n)
    BY <1>3
  <2> DEFINE z == Deflate(m, n)
             u == SubSeq(z.out, 1, Len(z.out) - 2)
             w == [deflated |-> TRUE, of |-> m, units |-> u]
  <2>2. z.out \in Seq(Units) /\ z.rest \in Seq(Units)
    BY <1>1, DeflateType
  <2>3. /\ wire' = IF broken THEN wire ELSE Append(wire, w)
        /\ pending' = z.rest /\ packed' = Append(packed, m)
    BY <2>1 DEF Compress
  <2> HIDE DEF z
  <2>4. u \in Seq(Units)
    <3> DEFINE s == z.out
    <3> HIDE DEF s
    <3>1. s \in Seq(Units)
      BY <2>2 DEF s
    <3>2. Len(s) - 2 \in Int /\ \A i \in 1..(Len(s) - 2) : s[i] \in Units
      BY <3>1
    <3>3. SubSeq(s, 1, Len(s) - 2) \in Seq(Units)
      BY <3>2, SubSeqProperties
    <3> QED BY <3>3 DEF s
  <2> HIDE DEF u
  <2>5. w \in WireSet /\ w.of = m
    BY <2>4 DEF WireSet
  <2> HIDE DEF w
  <2>6. Append(packed, m) \in Seq(Seq(Units))
    BY <1>1, AppendProperties
  <2> QED BY <2>2, <2>3, <2>5, <2>6
<1> QED BY <1>2, <1>3 DEF Submits

LEMMA EverySend ==
  ASSUME LoopInv, SendTypes, EchoNext
  PROVE  \/ Quiet /\ broken' \in BOOLEAN
         \/ Echo /\ handler = "send" /\ handler' = "sending" /\ Submits(message)
         \/ \E s \in Senders : handler' = handler /\ (Submits(<<s>>) \/ Refuses(<<s>>))
<1> USE DEF SendTypes
<1>1. ASSUME NEW m, Submit(m) PROVE Submits(m)
  BY <1>1 DEF Submit, Submits
<1>2. ASSUME NEW m, SubmitRefused(m) PROVE Refuses(m)
  <2>1. over_tls /\ UNCHANGED <<over_tls, broken, wire>>
    BY <1>2 DEF SubmitRefused, Refused
  <2>2. CASE tx_zs /\ m # <<>>
    <3>1. \E n \in Pages(m) : pending' = Deflate(m, n).rest /\ packed' = Append(packed, m)
      BY <1>2, <2>2 DEF SubmitRefused
    <3> QED BY <2>1, <3>1 DEF Refuses
  <2>3. CASE ~(tx_zs /\ m # <<>>)
    BY <1>2, <2>1, <2>3 DEF SubmitRefused, Refuses
  <2> QED BY <2>2, <2>3
<1>3. CASE PeerSendsFrame \/ Poll \/ Read \/ TakesPing
  BY <1>3 DEF PeerSendsFrame, Poll, Read, TakesPing, Quiet, sendVars
<1>4. CASE TakesData \/ TakesClose \/ PollFails
  BY <1>4 DEF TakesData, TakesClose, PollFails, Cleaned, Quiet
<1>5. CASE PongEnds
  <2>1. PICK b \in BOOLEAN : broken' = b /\ (broken => b)
    BY <1>5 DEF PongEnds
  <2> QED BY <1>5, <2>1 DEF PongEnds, Quiet
<1>6. CASE Echo
  BY <1>1, <1>6 DEF Echo, Quiet, sendVars
<1>7. ASSUME WriteEnds PROVE Quiet /\ broken' \in BOOLEAN
  BY <1>7 DEF WriteEnds, Quiet
<1>8. CASE Echoed
  BY <1>7, <1>8 DEF Echoed
<1>9. CASE \E s \in Senders : Send(s) \/ Sent(s)
  <2>1. PICK s \in Senders : Send(s) \/ Sent(s)
    BY <1>9
  <2>2. CASE Sent(s)
    BY <1>7, <2>2 DEF Sent
  <2>3. CASE Send(s)
    <3>1. handler' = handler /\ (UNCHANGED sendVars \/ Submit(<<s>>) \/ SubmitRefused(<<s>>))
      BY <2>3 DEF Send
    <3>2. (Quiet /\ broken' \in BOOLEAN) \/ Submits(<<s>>) \/ Refuses(<<s>>)
      BY <1>1, <1>2, <3>1 DEF Quiet, sendVars
    <3> QED BY <3>1, <3>2
  <2> QED BY <2>1, <2>2, <2>3
<1> QED BY <1>3, <1>4, <1>5, <1>6, <1>8, <1>9 DEF EchoNext


LEMMA SendInit ==
  ASSUME EchoInit
  PROVE  SendTypes
<1>1. <<>> \in Seq(WireSet) /\ <<>> \in Seq(Units) /\ <<>> \in Seq(Seq(Units))
  OBVIOUS
<1> QED BY <1>1 DEF EchoInit, SendTypes

LEMMA TokensAreUnits == Tokens \subseteq Units /\ Seq(Tokens) \subseteq Seq(Units)
BY WebSocketAssumption DEF Tokens, Units

LEMMA SenderMessage ==
  ASSUME NEW s \in Senders
  PROVE  <<s>> \in Seq(Units)
BY DEF Units

LEMMA SendStep ==
  ASSUME LoopInv, SendTypes, [EchoNext]_allVars
  PROVE  SendTypes'
<1>1. ASSUME NEW m \in Seq(Units), Submits(m) PROVE SendTypes'
  <2>1. wire' \in Seq(WireSet)
    <3>1. CASE broken
      BY <1>1, <3>1, SubmitsWire DEF SendTypes
    <3>2. CASE ~broken
      <4>1. PICK w \in WireSet : wire' = Append(wire, w)
        BY <1>1, <3>2, SubmitsWire
      <4>2. wire \in Seq(WireSet)
        BY DEF SendTypes
      <4> QED BY <4>1, <4>2, AppendProperties
    <3> QED BY <3>1, <3>2
  <2>2. pending' \in Seq(Units) /\ packed' \in Seq(Seq(Units))
    BY <1>1, SubmitsWire
  <2>3. UNCHANGED <<over_tls, broken>>
    BY <1>1 DEF Submits
  <2> QED BY <2>1, <2>2, <2>3 DEF SendTypes
<1>2. ASSUME NEW m \in Seq(Units), Refuses(m) PROVE SendTypes'
  <2>1. pending \in Seq(Units) /\ packed \in Seq(Seq(Units))
    BY DEF SendTypes
  <2>2. pending' \in Seq(Units) /\ packed' \in Seq(Seq(Units))
    <3>1. CASE UNCHANGED <<pending, packed>>
      BY <2>1, <3>1
    <3>2. CASE \E n \in Pages(m) : pending' = Deflate(m, n).rest /\ packed' = Append(packed, m)
      <4>1. PICK n \in Pages(m) : pending' = Deflate(m, n).rest /\ packed' = Append(packed, m)
        BY <3>2
      <4>2. Deflate(m, n).rest \in Seq(Units)
        BY <2>1, DeflateType
      <4>3. Append(packed, m) \in Seq(Seq(Units))
        BY <2>1, AppendProperties
      <4> QED BY <4>1, <4>2, <4>3
    <3> QED BY <1>2, <3>1, <3>2 DEF Refuses
  <2>3. UNCHANGED <<over_tls, broken, wire>>
    BY <1>2 DEF Refuses
  <2> QED BY <2>2, <2>3 DEF SendTypes
<1>3. CASE EchoNext
  <2>1. CASE Quiet /\ broken' \in BOOLEAN
    BY <2>1 DEF Quiet, SendTypes
  <2>2. CASE Submits(message)
    <3>1. message \in Seq(Units)
      BY TokensAreUnits DEF LoopInv, LoopPlaces
    <3> QED BY <1>1, <2>2, <3>1
  <2>3. CASE \E s \in Senders : handler' = handler /\ (Submits(<<s>>) \/ Refuses(<<s>>))
    BY <1>1, <1>2, <2>3, SenderMessage
  <2> QED BY <1>3, <2>1, <2>2, <2>3, EverySend
<1>4. CASE UNCHANGED allVars
  BY <1>4 DEF allVars, sendVars, SendTypes
<1> QED BY <1>3, <1>4

-----------------------------------------------------------------------------
(* What the handler has sent back.                                         *)

\* What a frame holds that the handler has sent.
Own(f) == IF ToSet(f.of) \subseteq 1..MaxFrames THEN f.of ELSE <<>>

Owns(w) == [i \in 1..Len(w) |-> Own(w[i])]

LEMMA OwnType ==
  ASSUME NEW f \in WireSet
  PROVE  Own(f) \in Seq(Tokens)
<1>1. CASE ToSet(f.of) \subseteq 1..MaxFrames
  <2> DEFINE m == f.of
  <2>1. m \in Seq(Units)
    BY DEF WireSet
  <2>2. ToSet(m) \subseteq Tokens
    BY <1>1 DEF Tokens
  <2> HIDE DEF m
  <2>3. m \in [1..Len(m) -> Units] /\ Len(m) \in Nat
    BY <2>1, LenProperties
  <2>4. \A i \in 1..Len(m) : m[i] \in Tokens
    BY <2>2, <2>3 DEF ToSet
  <2>5. m \in [1..Len(m) -> Tokens]
    BY <2>3, <2>4
  <2>6. m \in Seq(Tokens)
    BY <2>3, <2>5, SeqDef
  <2> QED BY <1>1, <2>6 DEF Own, m
<1>2. CASE ~(ToSet(f.of) \subseteq 1..MaxFrames)
  <2>1. <<>> \in Seq(Tokens)
    OBVIOUS
  <2> QED BY <1>2, <2>1 DEF Own
<1> QED BY <1>1, <1>2

LEMMA OwnsType ==
  ASSUME NEW w \in Seq(WireSet)
  PROVE  Owns(w) \in Seq(Seq(Tokens)) /\ Len(Owns(w)) = Len(w)
<1>1. Len(w) \in Nat /\ \A i \in 1..Len(w) : w[i] \in WireSet
  OBVIOUS
<1>2. Owns(w) \in [1..Len(w) -> Seq(Tokens)]
  BY <1>1, OwnType DEF Owns
<1>3. Owns(w) \in Seq(Seq(Tokens))
  BY <1>1, <1>2, SeqDef
<1> QED BY <1>1, <1>2, <1>3, LenProperties

LEMMA EchoesType ==
  ASSUME SendTypes
  PROVE  Echoes = FlattenSeq(Owns(wire)) /\ Echoes \in Seq(Tokens)
<1>1. Echoes = FlattenSeq(Owns(wire))
  BY DEF Echoes, Owns, Own
<1>2. Owns(wire) \in Seq(Seq(Tokens))
  BY OwnsType DEF SendTypes
<1> QED BY <1>1, <1>2, FlattenType

LEMMA EchoesNext ==
  ASSUME SendTypes, NEW f \in WireSet, wire' = Append(wire, f)
  PROVE  Echoes' = Echoes \o Own(f)
<1>1. wire \in Seq(WireSet)
  BY DEF SendTypes
<1> DEFINE u == Append(wire, f)
<1>2. /\ u \in Seq(WireSet) /\ Len(u) = Len(wire) + 1 /\ u[Len(wire) + 1] = f
      /\ \A i \in 1..Len(wire) : u[i] = wire[i]
  BY <1>1, AppendProperties
<1>3. wire' = u
  OBVIOUS
<1> HIDE DEF u
<1>4. /\ Owns(wire) \in Seq(Seq(Tokens)) /\ Len(Owns(wire)) = Len(wire)
      /\ Owns(u) \in Seq(Seq(Tokens)) /\ Len(Owns(u)) = Len(wire) + 1
  BY <1>1, <1>2, OwnsType
<1>5. Len(wire) \in Nat
  BY <1>1
<1>6. \A i \in 1..Len(wire) : Owns(u)[i] = Owns(wire)[i]
  BY <1>2, <1>5 DEF Owns
<1>7. Owns(u)[Len(wire) + 1] = Own(f)
  BY <1>2, <1>5 DEF Owns
<1>8. FlattenSeq(Owns(u)) = FlattenSeq(Owns(wire)) \o Owns(u)[Len(Owns(u))]
  <2>1. Len(Owns(u)) = Len(Owns(wire)) + 1
    BY <1>4
  <2>2. \A i \in 1..Len(Owns(wire)) : Owns(u)[i] = Owns(wire)[i]
    BY <1>4, <1>6
  <2> QED BY <1>4, <2>1, <2>2, FlattenNext
<1>9. Echoes' = FlattenSeq(Owns(u))
  BY <1>3 DEF Echoes, Owns, Own
<1> QED BY <1>4, <1>7, <1>8, <1>9, EchoesType

\* The message that the handler has read and not sent.
InHand == IF handler = "send" THEN message ELSE <<>>

\* The handler has sent what read() has returned, but for the message in its
\* hand, unless the stream has failed.
HandInv ==
  /\ IsPrefix(Echoes, FlattenSeq(got))
  /\ ~broken => Echoes \o InHand = FlattenSeq(got)

\* What a step is to the handler: it keeps what it has, reads a message, sends
\* it, or another fiber sends one.
Keeps == got' = got /\ InHand' = InHand /\ wire' = wire /\ (broken => broken')

Reads ==
  /\ InHand = <<>>
  /\ \E m \in Seq(Tokens) : got' = Append(got, m) /\ InHand' = m
  /\ wire' = wire /\ (broken => broken')

Answers ==
  /\ InHand = message /\ Submits(message)
  /\ got' = got /\ InHand' = <<>>

OtherSends ==
  /\ \E s \in Senders : Submits(<<s>>)
  /\ got' = got /\ InHand' = InHand

LEMMA HandTakesData ==
  ASSUME LoopInv, TakesData
  PROVE  Keeps \/ Reads
<1> USE DEF LoopInv
<1>1. /\ \/ Loses /\ doing' = "user"
         \/ Collects /\ doing' = doing
         \/ /\ Completes /\ doing' = "user" /\ alive
            /\ caller = "read" => /\ _done' = <<>>
                                  /\ got' = Append(got, _reassembled \o Following.payload)
            /\ caller # "read" => got' = got
      /\ caller' = caller /\ doing = "read" /\ alive /\ _done = <<>>
      /\ Data(Following) /\ CanTake
  BY TakeDataMoves DEF TakesData
<1>2. /\ handler \in {"polling", "reading"}
      /\ IF doing' = "read" THEN UNCHANGED <<handler, message>>
         ELSE IF ~alive' THEN handler' = "threw" /\ UNCHANGED message
         ELSE IF handler = "polling" THEN handler' = "read" /\ UNCHANGED message
         ELSE handler' = "send" /\ message' = Last(got')
      /\ UNCHANGED <<wire, broken>>
  BY DEF TakesData, Cleaned
<1>3. InHand = <<>>
  BY <1>2 DEF InHand
<1>4. CASE Loses /\ doing' = "user"
  BY <1>1, <1>2, <1>3, <1>4 DEF Loses, Keeps, InHand
<1>5. CASE Collects /\ doing' = doing
  BY <1>1, <1>2, <1>3, <1>5 DEF Collects, Keeps, InHand
<1>6. CASE /\ Completes /\ doing' = "user" /\ alive
           /\ caller = "read" => /\ _done' = <<>>
                                 /\ got' = Append(got, _reassembled \o Following.payload)
           /\ caller # "read" => got' = got
  <2> DEFINE m == _reassembled \o Following.payload
  <2>1. m \in Seq(Tokens)
    BY <1>1, FollowingType, ConcatProperties DEF FrameTypes
  <2>2. CASE handler = "polling"
    <3>1. caller = "poll" /\ handler' = "read"
      BY <1>1, <1>2, <1>6, <2>2 DEF LoopPlaces, Completes
    <3>2. got' = got
      BY <1>6, <3>1
    <3> QED BY <1>2, <1>3, <3>1, <3>2 DEF Keeps, InHand
  <2>3. CASE handler = "reading"
    <3>1. caller = "read" /\ handler' = "send" /\ message' = Last(got')
      BY <1>1, <1>2, <1>6, <2>3 DEF LoopPlaces, Completes
    <3>2. got \in Seq(Seq(Tokens)) /\ got' = Append(got, m)
      BY <1>6, <3>1 DEF FrameTypes
    <3> HIDE DEF m
    <3>3. got'[Len(got')] = m
      BY <2>1, <3>2, AppendProperties
    <3>4. InHand' = m
      BY <3>1, <3>3 DEF InHand, Last
    <3> QED BY <1>2, <1>3, <2>1, <3>2, <3>4 DEF Reads
  <2> QED BY <1>2, <2>2, <2>3
<1> QED BY <1>1, <1>4, <1>5, <1>6

LEMMA EveryHand ==
  ASSUME LoopInv, SendTypes, EchoNext
  PROVE  Keeps \/ Reads \/ Answers \/ OtherSends
<1> USE DEF LoopInv
<1>1. CASE PeerSendsFrame
  BY <1>1 DEF PeerSendsFrame, PeerSends, sendVars, userVars, Keeps, InHand
<1>2. CASE Poll
  BY <1>2 DEF Poll, CallWaits, vars, sendVars, Keeps, InHand
<1>3. CASE Read
  <2>1. CASE TakeMessage /\ handler' = "send"
    <3>1. _done \in Seq(Tokens)
      BY DEF FrameTypes
    <3> QED BY <1>3, <2>1, <3>1 DEF Read, TakeMessage, sendVars, Reads, InHand
  <2>2. CASE CallWaits("read") /\ handler' = "reading"
    BY <1>3, <2>2 DEF Read, CallWaits, sendVars, Keeps, InHand
  <2> QED BY <1>3, <2>1, <2>2 DEF Read
<1>4. CASE TakesData
  BY <1>4, HandTakesData
<1>5. CASE TakesClose
  BY <1>5 DEF TakesClose, TakeClose, Cleaned, Keeps, InHand
<1>6. CASE TakesPing
  BY <1>6 DEF TakesPing, TakePing, sendVars, userVars, Keeps, InHand
<1>7. CASE PongEnds
  BY <1>7 DEF PongEnds, Ponged, LoopPlaces, Keeps, InHand
<1>8. CASE PollFails
  BY <1>8 DEF PollFails, ReadFails, Cleaned, LoopPlaces, Keeps, InHand
<1>9. CASE Echo
  <2>1. CASE NullStream /\ handler' = "crashed" /\ UNCHANGED sendVars
    BY <1>9, <2>1 DEF Echo, NullStream, LoopPlaces, sendVars, vars, Keeps, InHand
  <2>2. CASE Submit(message) /\ handler' = "sending"
    BY <1>9, <2>2 DEF Echo, Submit, Submits, vars, Answers, InHand
  <2> QED BY <1>9, <2>1, <2>2 DEF Echo
<1>10. CASE Echoed
  BY <1>10 DEF Echoed, WriteEnds, vars, Keeps, InHand
<1>11. CASE \E s \in Senders : Send(s) \/ Sent(s)
  <2>1. PICK s \in Senders : Send(s) \/ Sent(s)
    BY <1>11
  <2>2. got' = got /\ InHand' = InHand
    BY <2>1 DEF Send, Sent, vars, InHand
  <2>3. CASE Submit(<<s>>)
    <3>1. Submits(<<s>>)
      BY <2>3 DEF Submit, Submits
    <3> QED BY <2>2, <3>1 DEF OtherSends
  <2>4. CASE WriteEnds \/ UNCHANGED sendVars \/ SubmitRefused(<<s>>)
    BY <2>2, <2>4 DEF WriteEnds, sendVars, SubmitRefused, Keeps
  <2>5. Submit(<<s>>) \/ WriteEnds \/ UNCHANGED sendVars \/ SubmitRefused(<<s>>)
    BY <2>1 DEF Send, Sent
  <2> QED BY <2>3, <2>4, <2>5
<1> QED BY <1>1, <1>2, <1>3, <1>4, <1>5, <1>6, <1>7, <1>8, <1>9, <1>10, <1>11 DEF EchoNext

\* What is equal is a prefix.
LEMMA PrefixSame ==
  ASSUME NEW S, NEW s \in Seq(S)
  PROVE  IsPrefix(s, s)
<1>1. <<>> \in Seq(S) /\ s \o <<>> = s
  BY ConcatEmptySeq
<1>2. IsPrefix(s, s \o <<>>)
  BY <1>1, PrefixConcat
<1> QED BY <1>1, <1>2

LEMMA OwnOfOther ==
  ASSUME NEW s \in Senders, NEW f, f.of = <<s>>
  PROVE  Own(f) = <<>>
<1>1. s \notin 1..MaxFrames
  BY EchoAssumption, WebSocketAssumption
<1>2. s \in ToSet(f.of)
  BY DEF ToSet
<1> QED BY <1>1, <1>2 DEF Own

LEMMA OwnOfMessage ==
  ASSUME NEW m \in Seq(Tokens), NEW f, f.of = m
  PROVE  Own(f) = m
<1>1. ToSet(m) \subseteq 1..MaxFrames
  <2>1. DOMAIN m = 1..Len(m) /\ \A i \in 1..Len(m) : m[i] \in Tokens
    OBVIOUS
  <2> QED BY <2>1 DEF ToSet, Tokens
<1> QED BY <1>1 DEF Own

LEMMA HandMove ==
  ASSUME LoopInv, SendTypes, HandInv, Keeps \/ Reads \/ Answers \/ OtherSends
  PROVE  HandInv'
<1> DEFINE F == FlattenSeq(got)
<1>1. /\ F \in Seq(Tokens) /\ got \in Seq(Seq(Tokens)) /\ message \in Seq(Tokens)
      /\ <<>> \in Seq(Tokens)
  BY FlattenType DEF LoopInv, LoopPlaces, FrameTypes
<1>2. Echoes \in Seq(Tokens) /\ InHand \in Seq(Tokens)
  BY <1>1, EchoesType DEF InHand
<1>3. IsPrefix(Echoes, F) /\ (~broken => Echoes \o InHand = F)
  BY DEF HandInv
<1>4. ASSUME wire' = wire PROVE Echoes' = Echoes
  BY <1>4 DEF Echoes
<1>5. CASE Keeps
  <2>1. Echoes' = Echoes
    BY <1>4, <1>5 DEF Keeps
  <2> QED BY <1>3, <1>5, <2>1 DEF Keeps, HandInv
<1>6. CASE Reads
  <2>1. Echoes' = Echoes /\ (broken => broken') /\ InHand = <<>>
    BY <1>4, <1>6 DEF Reads
  <2>2. PICK m \in Seq(Tokens) : got' = Append(got, m) /\ InHand' = m
    BY <1>6 DEF Reads
  <2>3. FlattenSeq(got') = F \o m
    BY <1>1, <2>2, FlattenAppend
  <2>4. IsPrefix(Echoes, F \o m)
    BY <1>1, <1>2, <1>3, <2>2, PrefixLonger
  <2>5. ~broken => Echoes = F
    BY <1>2, <1>3, <2>1, ConcatEmptySeq
  <2> HIDE DEF F
  <2> QED BY <2>1, <2>2, <2>3, <2>4, <2>5 DEF HandInv
<1>7. CASE Answers
  <2>1. InHand = message /\ Submits(message) /\ got' = got /\ InHand' = <<>> /\ broken' = broken
    BY <1>7 DEF Answers, Submits
  <2>2. message \in Seq(Units)
    BY <1>1, TokensAreUnits
  <2>3. CASE broken
    <3>1. wire' = wire
      BY <2>1, <2>2, <2>3, SubmitsWire
    <3> QED BY <1>3, <1>4, <2>1, <2>3, <3>1 DEF HandInv
  <2>4. CASE ~broken
    <3>1. PICK f \in WireSet : wire' = Append(wire, f) /\ f.of = message
      BY <2>1, <2>2, <2>4, SubmitsWire
    <3>2. Echoes' = Echoes \o message
      BY <1>1, <3>1, EchoesNext, OwnOfMessage
    <3>3. Echoes' = F
      BY <1>3, <2>1, <2>4, <3>2
    <3>4. F \o <<>> = F /\ IsPrefix(F, F)
      BY <1>1, ConcatEmptySeq, PrefixSame
    <3>5. FlattenSeq(got') = F
      BY <2>1
    <3> HIDE DEF F
    <3> QED BY <2>1, <3>3, <3>4, <3>5 DEF HandInv
  <2> QED BY <2>3, <2>4
<1>8. CASE OtherSends
  <2>1. PICK s \in Senders : Submits(<<s>>)
    BY <1>8 DEF OtherSends
  <2>2. got' = got /\ InHand' = InHand /\ broken' = broken /\ <<s>> \in Seq(Units)
    BY <1>8, <2>1, SenderMessage DEF OtherSends, Submits
  <2>3. CASE broken
    <3>1. wire' = wire
      BY <2>1, <2>2, <2>3, SubmitsWire
    <3> QED BY <1>3, <1>4, <2>2, <2>3, <3>1 DEF HandInv
  <2>4. CASE ~broken
    <3>1. PICK f \in WireSet : wire' = Append(wire, f) /\ f.of = <<s>>
      BY <2>1, <2>2, <2>4, SubmitsWire
    <3>2. Echoes' = Echoes \o <<>>
      BY <3>1, EchoesNext, OwnOfOther
    <3>3. Echoes' = Echoes
      BY <1>2, <3>2, ConcatEmptySeq
    <3> QED BY <1>3, <2>2, <3>3 DEF HandInv
  <2> QED BY <2>3, <2>4
<1> QED BY <1>5, <1>6, <1>7, <1>8

EchoInv == ReadInv /\ SendTypes /\ HandInv

LEMMA EchoInvInit ==
  ASSUME EchoInit
  PROVE  EchoInv
<1>1. ReadInv /\ SendTypes
  BY ReadInit, SendInit
<1>2. wire = <<>> /\ got = <<>> /\ InHand = <<>>
  BY DEF EchoInit, Init, InHand
<1>3. <<>> \in Seq(Tokens) /\ <<>> \in Seq(Seq(Tokens)) /\ Len(<<>>) = 0
  OBVIOUS
<1>4. FlattenSeq(<<>>) = <<>>
  BY FlattenEmpty
<1>5. Owns(<<>>) = <<>>
  <2>1. <<>> \in Seq(WireSet)
    OBVIOUS
  <2>2. Owns(<<>>) \in Seq(Seq(Tokens)) /\ Len(Owns(<<>>)) = 0
    BY <2>1, OwnsType
  <2> QED BY <2>2
<1>6. Echoes = <<>>
  BY <1>1, <1>2, <1>4, <1>5, EchoesType
<1>7. IsPrefix(<<>>, <<>>) /\ <<>> \o <<>> = <<>>
  BY <1>3, PrefixSame, ConcatEmptySeq
<1>8. HandInv
  BY <1>2, <1>4, <1>6, <1>7 DEF HandInv
<1> QED BY <1>1, <1>8 DEF EchoInv

LEMMA EchoInvStep ==
  ASSUME EchoInv, [EchoNext]_allVars
  PROVE  EchoInv'
<1>1. LoopInv /\ ReadInv /\ SendTypes /\ HandInv
  BY DEF EchoInv, ReadInv
<1>2. ReadInv' /\ SendTypes'
  BY <1>1, ReadStep, SendStep
<1>3. Keeps \/ Reads \/ Answers \/ OtherSends
  <2>1. CASE EchoNext
    BY <1>1, <2>1, EveryHand
  <2>2. CASE UNCHANGED allVars
    BY <2>2 DEF allVars, vars, sendVars, userVars, Keeps, InHand
  <2> QED BY <2>1, <2>2
<1>4. HandInv'
  BY <1>1, <1>3, HandMove
<1> QED BY <1>2, <1>4 DEF EchoInv

\* Of what read() has returned only the message in the handler's hand has not
\* been written, whatever the other fibers send in between.
THEOREM EchoInvariant == EchoSpec => []EchoInv
<1>1. EchoInit => EchoInv
  BY EchoInvInit
<1>2. EchoInv /\ [EchoNext]_allVars => EchoInv'
  BY EchoInvStep
<1> QED BY <1>1, <1>2, PTL DEF EchoSpec

LEMMA OnceFromInv ==
  ASSUME EchoInv
  PROVE  EchoesOnce
<1> DEFINE F == FlattenSeq(got)
<1>1. /\ got \in Seq(Seq(Tokens)) /\ _done \in Seq(Tokens) /\ _reassembled \in Seq(Tokens)
      /\ FrameTypes /\ SendTypes
  BY DEF EchoInv, ReadInv, LoopInv, FrameTypes
<1>2. F \in Seq(Tokens) /\ Echoes \in Seq(Tokens) /\ DataTokens \in Seq(Tokens)
  BY <1>1, FlattenType, EchoesType, DataTokensType
<1>3. IF alive THEN (F \o _done) \o _reassembled = DataTokens
      ELSE IsPrefix((F \o _done) \o _reassembled, DataTokens)
  BY DEF EchoInv, ReadInv, TokenInv, Read_
<1>4. IsPrefix(Echoes, F) /\ (~broken => Echoes \o InHand = F)
  BY DEF EchoInv, HandInv
<1> HIDE DEF F
<1>5. F \o _done \in Seq(Tokens)
  BY <1>1, <1>2, ConcatProperties
<1>6. IsPrefix((F \o _done) \o _reassembled, DataTokens)
  BY <1>2, <1>3, PrefixSame
<1>7. IsPrefix(F \o _done, DataTokens)
  BY <1>1, <1>2, <1>5, <1>6, PrefixShorter
<1>8. IsPrefix(F, DataTokens)
  BY <1>1, <1>2, <1>7, PrefixShorter
<1>9. IsPrefix(Echoes, DataTokens)
  BY <1>2, <1>4, <1>8, PrefixOfPrefix
<1>10. ASSUME handler = "polling", ~broken PROVE Echoes \o _reassembled = DataTokens
  <2>1. alive /\ _done = <<>> /\ InHand = <<>>
    BY <1>10 DEF EchoInv, ReadInv, LoopInv, LoopPlaces, InHand
  <2>2. Echoes = F
    BY <1>2, <1>4, <1>10, <2>1, ConcatEmptySeq
  <2>3. F \o _done = F
    BY <1>2, <2>1, ConcatEmptySeq
  <2> QED BY <1>3, <2>1, <2>2, <2>3
<1> QED BY <1>9, <1>10 DEF EchoesOnce

\* From end to end the handler sends back what the peer has sent, each
\* fragment once and in order, for any number of frames and of other senders.
THEOREM EchoEchoesOnce == EchoSpec => []EchoesOnce
BY EchoInvariant, OnceFromInv, PTL

-----------------------------------------------------------------------------
(* What the peer can inflate.                                              *)

\* The frames among the first k that are compressed.
Zipped(w, k) == {i \in 1..k : w[i].deflated}

\* u has the first n frames of w, and one more: so many are compressed.
Longer(w, u, n) == \A i \in 1..n : u[i] = w[i]

ZippedGrows(w, u, n) ==
  /\ \A k \in 1..n : Cardinality(Zipped(u, k)) = Cardinality(Zipped(w, k))
  /\ Cardinality(Zipped(w, n)) \in Nat
  /\ Cardinality(Zipped(u, n + 1)) =
       IF u[n + 1].deflated THEN Cardinality(Zipped(w, n)) + 1
       ELSE Cardinality(Zipped(w, n))

LEMMA ZippedNext ==
  ASSUME NEW w, NEW u, NEW n \in Nat, Longer(w, u, n)
  PROVE  ZippedGrows(w, u, n)
<1> USE DEF Longer, ZippedGrows
<1>1. \A k \in 1..n : Zipped(u, k) = Zipped(w, k)
  BY DEF Zipped
<1>2. IsFiniteSet(Zipped(w, n)) /\ Cardinality(Zipped(w, n)) \in Nat
  <2>1. IsFiniteSet(1..n)
    BY FS_Interval
  <2>2. Zipped(w, n) \subseteq 1..n
    BY DEF Zipped
  <2> QED BY <2>1, <2>2, FS_Subset, FS_CardinalityType
<1>3. CASE u[n + 1].deflated
  <2>1. Zipped(u, n + 1) = Zipped(w, n) \cup {n + 1}
    <3>1. \A i : i \in 1..(n + 1) <=> i \in 1..n \/ i = n + 1
      OBVIOUS
    <3> QED BY <1>3, <3>1 DEF Zipped
  <2>2. n + 1 \notin Zipped(w, n)
    BY DEF Zipped
  <2>3. Cardinality(Zipped(w, n) \cup {n + 1}) = Cardinality(Zipped(w, n)) + 1
    BY <1>2, <2>2, FS_AddElement
  <2> QED BY <1>1, <1>2, <1>3, <2>1, <2>3
<1>4. CASE ~u[n + 1].deflated
  <2>1. Zipped(u, n + 1) = Zipped(w, n)
    <3>1. \A i : i \in 1..(n + 1) <=> i \in 1..n \/ i = n + 1
      OBVIOUS
    <3> QED BY <1>4, <3>1 DEF Zipped
  <2> QED BY <1>1, <1>2, <1>4, <2>1
<1> QED BY <1>3, <1>4

\* A message that fits into a page leaves nothing in the compressor, and but
\* for its empty block it is all there.
LEMMA DeflateFits ==
  ASSUME NEW m \in Seq(Units), pending = <<>>, Len(m \o EmptyBlock) <= Page,
         NEW n \in Pages(m)
  PROVE  /\ Deflate(m, n).rest = <<>>
         /\ SubSeq(Deflate(m, n).out, 1, Len(Deflate(m, n).out) - 2) = m
<1> DEFINE all == m \o EmptyBlock
           room == n * Page
<1>1. all \in Seq(Units) /\ Len(all) = Len(m) + 2 /\ Len(m) \in Nat
  BY BlockType, ConcatProperties
<1>2. room \in Nat /\ room >= Page
  <2>1. pending \in Seq(Units)
    OBVIOUS
  <2> QED BY <2>1, PagesType
<1>3. Len(all) <= Page
  OBVIOUS
<1>4. pending \o m = m
  BY ConcatEmptySeq
<1>5. /\ Deflate(m, n).out = SubSeq(all, 1, IF room < Len(all) THEN room ELSE Len(all))
      /\ Deflate(m, n).rest =
           LET rest == IF room <= Len(m) THEN m ELSE all
           IN  SubSeq(rest, room + 1, Len(rest))
  BY <1>4 DEF Deflate
<1>6. IsPrefix(m, all)
  BY BlockType, PrefixConcat
<1> HIDE DEF all, room
<1>7. Page \in Nat /\ Len(all) <= room /\ ~(room <= Len(m)) /\ ~(room < Len(all))
  <2>1. Page \in Nat
    BY EchoAssumption
  <2> QED BY <1>1, <1>2, <1>3, <2>1
<1>8. Deflate(m, n).out = all
  <2>1. Deflate(m, n).out = SubSeq(all, 1, Len(all))
    BY <1>5, <1>7
  <2> QED BY <1>1, <2>1, SubSeqFull
<1>9. Deflate(m, n).rest = <<>>
  <2>1. Deflate(m, n).rest = SubSeq(all, room + 1, Len(all))
    BY <1>5, <1>7
  <2>2. room + 1 > Len(all) /\ Len(all) \in Nat /\ room + 1 \in Nat
    BY <1>1, <1>2, <1>7
  <2>3. SubSeq(all, room + 1, Len(all)) = <<>>
    BY <1>1, <2>2, SubSeqEmpty
  <2> QED BY <2>1, <2>3
<1>10. SubSeq(all, 1, Len(all) - 2) = m
  <2>1. Len(all) - 2 = Len(m)
    BY <1>1
  <2>2. SubSeq(m, 1, Len(m)) = SubSeq(all, 1, Len(m))
    BY <1>6 DEF IsPrefix
  <2> QED BY <2>1, <2>2, SubSeqFull
<1> QED BY <1>8, <1>9, <1>10

\* Every message that was compressed fits into a page with its empty block.
AllFit == ~over_tls /\ \A i \in 1..Len(packed) : Len(packed[i] \o EmptyBlock) <= Page

\* The compressed frames are the messages that the compressor has taken, one by
\* one until the stream has failed.
InflateInv ==
  /\ pending = <<>>
  /\ ~broken => Cardinality(Zipped(wire, Len(wire))) = Len(packed)
  /\ \A k \in 1..Len(wire) : wire[k].deflated =>
       /\ Cardinality(Zipped(wire, k)) \in 1..Len(packed)
       /\ wire[k].units = wire[k].of
       /\ wire[k].of = packed[Cardinality(Zipped(wire, k))]

\* The message m goes to the wire by itself.
LEMMA InflateNext ==
  ASSUME SendTypes, InflateInv, ~broken, NEW f \in WireSet, wire' = Append(wire, f),
         pending' = <<>>,
         NEW m \in Seq(Units), f.of = m, f.units = m,
         IF f.deflated THEN packed' = Append(packed, m) ELSE packed' = packed
  PROVE  InflateInv'
<1> DEFINE u == Append(wire, f)
           n == Len(wire)
           q == packed'
<1>1. wire \in Seq(WireSet) /\ packed \in Seq(Seq(Units))
  BY DEF SendTypes
<1>2. n \in Nat /\ Len(u) = n + 1 /\ u[n + 1] = f /\ \A i \in 1..n : u[i] = wire[i]
  BY <1>1, AppendProperties
<1>3. wire' = u
  OBVIOUS
<1>4. /\ Len(packed) \in Nat
      /\ f.deflated => /\ Len(q) = Len(packed) + 1 /\ q[Len(packed) + 1] = m
                       /\ \A i \in 1..Len(packed) : q[i] = packed[i]
      /\ ~f.deflated => q = packed
  BY SMTT(30), <1>1, AppendProperties
<1>5. Len(q) \in Nat /\ Len(packed) <= Len(q) /\ \A i \in 1..Len(packed) : q[i] = packed[i]
  BY <1>4
<1> HIDE DEF u, n, q
<1>6. /\ \A k \in 1..n : Cardinality(Zipped(u, k)) = Cardinality(Zipped(wire, k))
      /\ Cardinality(Zipped(wire, n)) \in Nat
      /\ Cardinality(Zipped(u, n + 1)) =
           IF u[n + 1].deflated THEN Cardinality(Zipped(wire, n)) + 1
           ELSE Cardinality(Zipped(wire, n))
  <2>1. n \in Nat /\ Longer(wire, u, n)
    BY <1>2 DEF Longer
  <2>2. ZippedGrows(wire, u, n)
    BY <2>1, ZippedNext
  <2> QED BY <2>2 DEF ZippedGrows
<1>7. Cardinality(Zipped(wire, n)) = Len(packed)
  BY DEF InflateInv, n
<1>8. Cardinality(Zipped(u, n + 1)) = Len(q)
  BY <1>2, <1>4, <1>6, <1>7
<1>9. ASSUME NEW k \in 1..(n + 1), u[k].deflated
      PROVE  /\ Cardinality(Zipped(u, k)) \in 1..Len(q)
             /\ u[k].units = u[k].of
             /\ u[k].of = q[Cardinality(Zipped(u, k))]
  <2>1. CASE k = n + 1
    <3>1. f.deflated /\ u[k] = f
      BY <1>2, <1>9, <2>1
    <3> QED BY <1>4, <1>8, <2>1, <3>1
  <2>2. CASE k \in 1..n
    <3>1. u[k] = wire[k] /\ wire[k].deflated
      BY <1>2, <1>9, <2>2
    <3>2. Cardinality(Zipped(u, k)) = Cardinality(Zipped(wire, k))
      BY <1>6, <2>2
    <3>3. /\ Cardinality(Zipped(wire, k)) \in 1..Len(packed)
          /\ wire[k].units = wire[k].of
          /\ wire[k].of = packed[Cardinality(Zipped(wire, k))]
      BY <2>2, <3>1 DEF InflateInv, n
    <3> DEFINE c == Cardinality(Zipped(wire, k))
    <3> HIDE DEF c
    <3>4. c \in 1..Len(packed) /\ c \in 1..Len(q) /\ q[c] = packed[c]
      <4>1. c \in 1..Len(packed)
        BY <3>3 DEF c
      <4> QED BY <1>4, <1>5, <4>1
    <3> QED BY <3>1, <3>2, <3>3, <3>4 DEF c
  <2> QED BY <1>2, <2>1, <2>2
<1>10. /\ pending' = <<>>
       /\ Cardinality(Zipped(u, Len(u))) = Len(q)
       /\ \A k \in 1..Len(u) : u[k].deflated =>
            /\ Cardinality(Zipped(u, k)) \in 1..Len(q)
            /\ u[k].units = u[k].of
            /\ u[k].of = q[Cardinality(Zipped(u, k))]
  BY <1>2, <1>8, <1>9
<1> QED BY <1>3, <1>10 DEF InflateInv, Zipped, q

\* The messages that have been compressed were not fewer before.
LEMMA FitsBefore ==
  ASSUME SendTypes, AllFit', over_tls' = over_tls,
         packed' = packed \/ \E m \in Seq(Units) : packed' = Append(packed, m)
  PROVE  AllFit
<1>1. packed \in Seq(Seq(Units))
  BY DEF SendTypes
<1>2. ~over_tls /\ \A i \in 1..Len(packed') : Len(packed'[i] \o EmptyBlock) <= Page
  BY DEF AllFit
<1>3. CASE packed' = packed
  BY <1>2, <1>3 DEF AllFit
<1>4. CASE \E m \in Seq(Units) : packed' = Append(packed, m)
  <2>1. PICK m \in Seq(Units) : packed' = Append(packed, m)
    BY <1>4
  <2>2. /\ Len(packed') = Len(packed) + 1
        /\ \A i \in 1..Len(packed) : packed'[i] = packed[i]
    BY <1>1, <2>1, AppendProperties
  <2>3. \A i \in 1..Len(packed) : i \in 1..Len(packed')
    BY <1>1, <2>2
  <2> QED BY <1>2, <2>2, <2>3 DEF AllFit
<1> QED BY <1>3, <1>4

LEMMA InflateSubmits ==
  ASSUME SendTypes, AllFit => InflateInv, NEW m \in Seq(Units), Submits(m), AllFit'
  PROVE  InflateInv'
<1>1. over_tls' = over_tls /\ broken' = broken
  BY DEF Submits
<1>2. packed \in Seq(Seq(Units)) /\ wire \in Seq(WireSet)
  BY DEF SendTypes
<1>3. packed' = packed \/ packed' = Append(packed, m)
  BY DEF Submits, Plain, Compress
<1>4. InflateInv
  BY <1>1, <1>3, FitsBefore
<1>5. CASE Plain(m)
  <2> DEFINE f == [deflated |-> FALSE, of |-> m, units |-> m]
  <2>1. f \in WireSet /\ f.of = m /\ f.units = m /\ f.deflated = FALSE
    BY DEF WireSet
  <2>2. /\ wire' = IF broken THEN wire ELSE Append(wire, f)
        /\ pending' = pending /\ packed' = packed
    BY <1>5 DEF Plain
  <2> HIDE DEF f
  <2>3. CASE broken
    BY <1>1, <1>4, <2>2, <2>3 DEF InflateInv, Zipped
  <2>4. CASE ~broken
    <3>1. pending' = <<>>
      BY <1>4, <2>2 DEF InflateInv
    <3> QED BY <1>4, <2>1, <2>2, <2>4, <3>1, InflateNext
  <2> QED BY <2>3, <2>4
<1>6. CASE \E n \in Pages(m) : Compress(m, n)
  <2>1. PICK n \in Pages(m) : Compress(m, n)
    BY <1>6
  <2> DEFINE z == Deflate(m, n)
             f == [deflated |-> TRUE, of |-> m, units |-> SubSeq(z.out, 1, Len(z.out) - 2)]
  <2>2. /\ wire' = IF broken THEN wire ELSE Append(wire, f)
        /\ pending' = z.rest /\ packed' = Append(packed, m)
    BY <2>1 DEF Compress
  <2>3. Len(m \o EmptyBlock) <= Page
    <3>1. Len(packed) + 1 \in 1..Len(packed') /\ packed'[Len(packed) + 1] = m
      <4>1. Len(packed) \in Nat
        BY <1>2
      <4>2. Len(Append(packed, m)) = Len(packed) + 1 /\ Append(packed, m)[Len(packed) + 1] = m
        BY <1>2, AppendProperties
      <4> QED BY <2>2, <4>1, <4>2
    <3>2. \A i \in 1..Len(packed') : Len(packed'[i] \o EmptyBlock) <= Page
      BY DEF AllFit
    <3> QED BY <3>1, <3>2
  <2>4. z.rest = <<>> /\ SubSeq(z.out, 1, Len(z.out) - 2) = m
    <3>1. pending = <<>>
      BY <1>4 DEF InflateInv
    <3> QED BY <2>3, <3>1, DeflateFits
  <2>5. f \in WireSet /\ f.of = m /\ f.units = m /\ f.deflated = TRUE
    BY <2>4 DEF WireSet
  <2> HIDE DEF z, f
  <2>6. CASE broken
    <3>1. /\ pending' = <<>> /\ broken' /\ wire' = wire
          /\ Len(packed') = Len(packed) + 1
          /\ \A i \in 1..Len(packed) : packed'[i] = packed[i]
      BY <1>1, <1>2, <2>2, <2>4, <2>6, AppendProperties
    <3>2. Len(packed) \in Nat
      BY <1>2
    <3>3. \A c \in 1..Len(packed) : c \in 1..Len(packed') /\ packed'[c] = packed[c]
      BY <3>1, <3>2
    <3>4. ASSUME NEW k \in 1..Len(wire), wire[k].deflated
          PROVE  /\ Cardinality(Zipped(wire, k)) \in 1..Len(packed')
                 /\ wire[k].units = wire[k].of
                 /\ wire[k].of = packed'[Cardinality(Zipped(wire, k))]
      BY <1>4, <3>3, <3>4 DEF InflateInv
    <3> QED BY <3>1, <3>4 DEF InflateInv, Zipped
  <2>7. CASE ~broken
    BY <1>4, <2>2, <2>4, <2>5, <2>7, InflateNext
  <2> QED BY <2>6, <2>7
<1> QED BY <1>5, <1>6 DEF Submits

LEMMA InflateStep ==
  ASSUME LoopInv, SendTypes, AllFit => InflateInv, [EchoNext]_allVars
  PROVE  AllFit' => InflateInv'
<1> SUFFICES ASSUME AllFit' PROVE InflateInv'
  OBVIOUS
<1>1. ASSUME UNCHANGED <<over_tls, pending, packed, wire>>, broken => broken'
      PROVE  InflateInv'
  <2>1. AllFit
    BY <1>1 DEF AllFit
  <2> QED BY <1>1, <2>1 DEF InflateInv, Zipped
<1>2. ASSUME NEW s \in Senders, Refuses(<<s>>) PROVE FALSE
  BY <1>2 DEF Refuses, AllFit
<1>3. CASE EchoNext
  <2>1. CASE Quiet /\ broken' \in BOOLEAN
    BY <1>1, <2>1 DEF Quiet
  <2>2. CASE Submits(message)
    <3>1. message \in Seq(Units)
      BY TokensAreUnits DEF LoopInv, LoopPlaces
    <3> QED BY <2>2, <3>1, InflateSubmits
  <2>3. CASE \E s \in Senders : handler' = handler /\ (Submits(<<s>>) \/ Refuses(<<s>>))
    <3>1. PICK s \in Senders : Submits(<<s>>)
      BY <1>2, <2>3
    <3> QED BY <3>1, SenderMessage, InflateSubmits
  <2> QED BY <1>3, <2>1, <2>2, <2>3, EverySend
<1>4. CASE UNCHANGED allVars
  BY <1>1, <1>4 DEF allVars, sendVars
<1> QED BY <1>3, <1>4

\* Whatever fibers send, and however often, the peer can inflate the frames it
\* gets, as long as each message fits into a page and no write is refused.
THEOREM EchoPeerInflates == EchoSpec => []PeerInflates
<1> DEFINE Inv == LoopInv /\ SendTypes /\ (AllFit => InflateInv)
<1>1. EchoInit => Inv
  <2> SUFFICES ASSUME EchoInit PROVE Inv
    OBVIOUS
  <2>1. pending = <<>> /\ wire = <<>> /\ packed = <<>>
    BY DEF EchoInit
  <2>2. Len(<<>>) = 0 /\ \A k \in 1..0 : FALSE
    OBVIOUS
  <2>3. Zipped(<<>>, 0) = {}
    BY <2>2 DEF Zipped
  <2>4. Cardinality(Zipped(<<>>, 0)) = 0
    BY <2>3, FS_EmptySet
  <2>5. InflateInv
    BY <2>1, <2>2, <2>4 DEF InflateInv
  <2> QED BY <2>5, LoopInit, SendInit
<1>2. Inv /\ [EchoNext]_allVars => Inv'
  BY LoopStep, SendStep, InflateStep
<1>3. Inv => PeerInflates
  <2> SUFFICES ASSUME InflateInv PROVE \A k \in 1..Len(wire) : wire[k].deflated =>
                 wire[k].units = wire[k].of /\ wire[k].of = packed[Compressed(k)]
    BY DEF PeerInflates, AllFit
  <2> QED BY DEF InflateInv, Zipped, Compressed
<1> QED BY <1>1, <1>2, <1>3, PTL DEF EchoSpec

-----------------------------------------------------------------------------
(* The headers of frames and of FastCGI records.                           *)

-----------------------------------------------------------------------------
(* Bytes.                                                                  *)

\* What n >> 8 and n & 0xff make of a number.
LEMMA LowByte ==
  ASSUME NEW n \in Nat
  PROVE  /\ n \div 256 \in Nat /\ n % 256 \in 0..255
         /\ n = 256 * (n \div 256) + (n % 256)
BY SMT

\* Shifting by two bytes is shifting by one byte twice.
LEMMA TwoShifts ==
  ASSUME NEW n \in Nat
  PROVE  n \div 65536 = (n \div 256) \div 256
BY SMT

\* The two bytes of a length below 2^16 add up to it.
LEMMA TwoBytes ==
  ASSUME NEW n \in Nat, n < 65536
  PROVE  /\ ByteOf(n, 1) \in 0..255 /\ ByteOf(n, 0) \in 0..255
         /\ ByteOf(n, 1) * 256 + ByteOf(n, 0) = n
<1>1. n \div 256 \in Nat /\ n \div 256 < 256
  BY LowByte, SMT
<1>2. ByteOf(n, 1) = n \div 256 /\ ByteOf(n, 0) = n % 256
  BY <1>1, SMT DEF ByteOf
<1> QED
  BY <1>1, <1>2, LowByte, SMT

\* The three bytes of a length below 2^24 add up to it, the fourth is zero.
LEMMA ThreeBytes ==
  ASSUME NEW n \in Nat, n < 16777216
  PROVE  /\ ByteOf(n, 3) = 0 /\ ByteOf(n, 2) \in 0..255
         /\ ByteOf(n, 1) \in 0..255 /\ ByteOf(n, 0) \in 0..255
         /\ ByteOf(n, 2) * 65536 + ByteOf(n, 1) * 256 + ByteOf(n, 0) = n
<1> DEFINE q == n \div 256
<1>1. q \in Nat /\ n % 256 \in 0..255 /\ n = 256 * q + (n % 256)
  BY LowByte, SMT
<1>2. q < 65536
  BY <1>1, SMT
<1>3. q \div 256 \in Nat /\ q % 256 \in 0..255 /\ q = 256 * (q \div 256) + (q % 256)
  BY <1>1, LowByte, SMT
<1>4. q \div 256 < 256
  BY <1>2, <1>3, SMT
<1>5. ByteOf(n, 0) = n % 256 /\ ByteOf(n, 1) = q % 256
  BY SMT DEF ByteOf
<1>6. ByteOf(n, 2) = q \div 256
  BY <1>3, <1>4, TwoShifts, SMT DEF ByteOf
<1>7. ByteOf(n, 3) = 0
  BY SMT DEF ByteOf
<1> HIDE DEF q
<1> QED
  BY <1>1, <1>3, <1>4, <1>5, <1>6, <1>7, SMT

-----------------------------------------------------------------------------
(* Headers.                                                                *)

\* A header of websocket_frame::serialize announces the length it was given,
\* in each of its three forms.
THEOREM WsLengthRead ==
  ASSUME NEW n \in Nat, n < 16777216, NEW mask \in {0, 128}
  PROVE  WsLength(WsHeader(n, mask)) = n
<1>1. CASE n > 65535
  <2>1. /\ WsHeader(n, mask)[2] % 128 = 127
        /\ WsHeader(n, mask)[8] = ByteOf(n, 2)
        /\ WsHeader(n, mask)[9] = ByteOf(n, 1)
        /\ WsHeader(n, mask)[10] = ByteOf(n, 0)
    BY <1>1, SMT DEF WsHeader
  <2> QED
    BY <2>1, ThreeBytes, SMT DEF WsLength
<1>2. CASE n > 125 /\ n <= 65535
  <2>1. /\ WsHeader(n, mask)[2] % 128 = 126
        /\ WsHeader(n, mask)[3] = ByteOf(n, 1)
        /\ WsHeader(n, mask)[4] = ByteOf(n, 0)
    BY <1>2, SMT DEF WsHeader
  <2> QED
    BY <1>2, <2>1, TwoBytes, SMT DEF WsLength
<1>3. CASE n <= 125
  <2>1. WsHeader(n, mask)[2] % 128 = n
    BY <1>3, SMT DEF WsHeader
  <2> QED
    BY <1>3, <2>1, SMT DEF WsLength
<1> QED
  BY <1>1, <1>2, <1>3, SMT

\* A header of fcgi_message::serialize announces the length it was given.
THEOREM FcgiLengthRead ==
  ASSUME NEW n \in Nat, n < 65536, NEW padding \in Nat
  PROVE  FcgiLength(FcgiHeader(n, padding)) = n
BY TwoBytes, SMT DEF FcgiHeader, FcgiLength

\* How long a frame is, from the three forms of its header.
LEMMA Sizes ==
  ASSUME NEW n \in Nat, NEW mask \in {0, 128}
  PROVE  /\ WsHeader(n, mask)[2] \in Nat
         /\ WsHeader(n, mask)[2] >= 128 <=> mask = 128
         /\ n > 65535 => /\ WsHeader(n, mask)[2] % 128 = 127
                         /\ Len(WsHeader(n, mask)) = 10
         /\ n > 125 /\ n <= 65535 => /\ WsHeader(n, mask)[2] % 128 = 126
                                     /\ Len(WsHeader(n, mask)) = 4
         /\ n <= 125 => /\ WsHeader(n, mask)[2] % 128 = n
                        /\ Len(WsHeader(n, mask)) = 2
BY SMT DEF WsHeader

\* What comes before the payload, from the second byte.
LEMMA FixedPart ==
  ASSUME NEW n \in Nat, NEW mask \in {0, 128}, NEW second \in Nat, NEW len,
         second >= 128 <=> mask = 128,
         n > 65535 => second % 128 = 127 /\ len = 10,
         n > 125 /\ n <= 65535 => second % 128 = 126 /\ len = 4,
         n <= 125 => second % 128 = n /\ len = 2,
         NEW fixed, fixed = len + (IF mask = 128 THEN 4 ELSE 0)
  PROVE  /\ fixed \in Nat
         /\ fixed = 2 + (IF second >= 128 THEN 4 ELSE 0)
                      + (IF second % 128 = 127 THEN 8
                         ELSE IF second % 128 = 126 THEN 2 ELSE 0)
<1>1. CASE n > 65535
  BY <1>1, SMT
<1>2. CASE n > 125 /\ n <= 65535
  BY <1>2, SMT
<1>3. CASE n <= 125
  BY <1>3, SMT
<1> QED
  BY <1>1, <1>2, <1>3, SMT

\* A frame has two bytes and more.
LEMMA WsSizeNat ==
  ASSUME NEW n \in Nat, NEW mask \in {0, 128}
  PROVE  WsSize(n, mask) \in Nat /\ WsSize(n, mask) >= 2
BY SMT DEF WsHeader, WsSize

\* What lengths and positions are.
LEMMA TypeFacts ==
  ASSUME TypeOK
  PROVE  /\ payload \in Nat /\ payload < 2147483648
         /\ have \in Nat /\ Total \in Nat /\ Total >= 2
<1>1. payload \in Nat /\ payload < 2147483648 /\ have \in Nat
  BY CodecAssumption, SMT DEF TypeOK
<1>2. CASE proto = "ws"
  <2>1. extra \in {0, 128}
    BY <1>2, SMT DEF TypeOK
  <2> QED
    BY <1>1, <1>2, <2>1, WsSizeNat, SMT DEF Total
<1>3. CASE proto = "fcgi"
  BY <1>1, <1>3, SMT DEF TypeOK, Total, FcgiSize
<1> QED
  BY <1>1, <1>2, <1>3, SMT DEF TypeOK

\* Which of the decoder's tests a header passes that is not too long.
LEMMA WsTaken ==
  ASSUME NEW hdr, NEW n \in Nat, NEW k \in Nat, NEW fixed \in Nat,
         WsLength(hdr) = n, ~TooLong(hdr, n),
         fixed = 2 + (IF hdr[2] >= 128 THEN 4 ELSE 0)
                   + (IF hdr[2] % 128 = 127 THEN 8
                      ELSE IF hdr[2] % 128 = 126 THEN 2 ELSE 0)
  PROVE  WsDecode(hdr, k) =
           IF k < fixed + n THEN Wait
           ELSE [res |-> "frame", length |-> n, size |-> fixed + n]
BY SMT DEF WsDecode, Whole

\* A frame of the websocket protocol is decoded when its last byte is there.
LEMMA WsWhole ==
  ASSUME NEW n \in Nat, NEW mask \in {0, 128}, NEW k \in Nat,
         n < 16777216, ~(n > MaxPayload)
  PROVE  WsDecode(WsHeader(n, mask), k) =
           IF k < WsSize(n, mask) THEN Wait
           ELSE [res |-> "frame", length |-> n, size |-> WsSize(n, mask)]
<1> DEFINE hdr == WsHeader(n, mask)
<1>1. WsLength(hdr) = n
  BY WsLengthRead, SMT
<1>2. /\ hdr[2] \in Nat
      /\ hdr[2] >= 128 <=> mask = 128
      /\ n > 65535 => hdr[2] % 128 = 127 /\ Len(hdr) = 10
      /\ n > 125 /\ n <= 65535 => hdr[2] % 128 = 126 /\ Len(hdr) = 4
      /\ n <= 125 => hdr[2] % 128 = n /\ Len(hdr) = 2
  BY Sizes, SMT
<1>3. n > 65535 => \A i \in 3..7 : hdr[i] = 0
  BY ThreeBytes, SMT DEF WsHeader
<1>4. WsSize(n, mask) = Len(hdr) + (IF mask = 128 THEN 4 ELSE 0) + n
  BY DEF WsSize
<1> HIDE DEF hdr
<1>5. ~TooLong(hdr, n)
  BY <1>2, <1>3, SMT DEF TooLong
<1> DEFINE second == hdr[2]
           len == Len(hdr)
           fixed == len + (IF mask = 128 THEN 4 ELSE 0)
<1>6. /\ fixed \in Nat
      /\ fixed = 2 + (IF hdr[2] >= 128 THEN 4 ELSE 0)
                   + (IF hdr[2] % 128 = 127 THEN 8
                      ELSE IF hdr[2] % 128 = 126 THEN 2 ELSE 0)
  <2>1. /\ second \in Nat
        /\ second >= 128 <=> mask = 128
        /\ n > 65535 => second % 128 = 127 /\ len = 10
        /\ n > 125 /\ n <= 65535 => second % 128 = 126 /\ len = 4
        /\ n <= 125 => second % 128 = n /\ len = 2
    BY <1>2
  <2>2. fixed = len + (IF mask = 128 THEN 4 ELSE 0)
    OBVIOUS
  <2> HIDE DEF second, len, fixed
  <2>3. /\ fixed \in Nat
        /\ fixed = 2 + (IF second >= 128 THEN 4 ELSE 0)
                     + (IF second % 128 = 127 THEN 8
                        ELSE IF second % 128 = 126 THEN 2 ELSE 0)
    BY <2>1, <2>2, FixedPart, SMT
  <2> QED
    BY <2>3 DEF second
<1>7. WsSize(n, mask) = fixed + n
  BY <1>4, <1>6, SMT
<1> HIDE DEF fixed
<1>8. WsDecode(hdr, k) = IF k < fixed + n THEN Wait
                         ELSE [res |-> "frame", length |-> n, size |-> fixed + n]
  BY <1>1, <1>5, <1>6, WsTaken, SMT
<1> QED
  BY <1>7, <1>8, SMT DEF hdr

\* What the decoder does with a header that is too long.
LEMMA WsRefused ==
  ASSUME NEW hdr, NEW k \in Nat, TooLong(hdr, WsLength(hdr))
  PROVE  /\ WsDecode(hdr, k).res # "frame"
         /\ k >= 14 => WsDecode(hdr, k) = Bad
<1>1. WsDecode(hdr, k) \in {Wait, Bad}
  BY SMT DEF WsDecode
<1>2. k >= 14 => WsDecode(hdr, k) = Bad
  BY SMT DEF WsDecode
<1> QED
  BY <1>1, <1>2, SMT DEF Wait, Bad

\* Of a length of four bytes the fourth is not zero.
LEMMA FourthByte ==
  ASSUME NEW n \in Nat, n >= 16777216, n < 2147483648
  PROVE  ByteOf(n, 3) # 0
<1>1. n \div 16777216 \in Nat /\ n \div 16777216 >= 1 /\ n \div 16777216 < 128
  BY SMT
<1> QED
  BY <1>1, SMT DEF ByteOf

\* A record of FastCGI is decoded when its last byte is there.
LEMMA FcgiWhole ==
  ASSUME NEW n \in Nat, NEW padding \in Nat, NEW k \in Nat, n < 65536
  PROVE  FcgiDecode(FcgiHeader(n, padding), k) =
           IF k < FcgiSize(n, padding) THEN Wait
           ELSE [res |-> "frame", length |-> n, size |-> FcgiSize(n, padding)]
<1>1. FcgiLength(FcgiHeader(n, padding)) = n
  BY FcgiLengthRead, SMT
<1>2. FcgiHeader(n, padding)[1] = 1 /\ FcgiHeader(n, padding)[7] = padding
  BY SMT DEF FcgiHeader
<1> QED
  BY <1>1, <1>2, SMT DEF FcgiDecode, Whole, FcgiSize

-----------------------------------------------------------------------------
(* Theorems of the specification.                                          *)

\* What is on its way stays what it is while its bytes arrive.
THEOREM TypeCorrect == FrameSpec => []TypeOK
<1>1. FrameInit => TypeOK
  BY SMT DEF FrameInit, TypeOK
<1>2. TypeOK /\ [FrameNext]_frameVars => TypeOK'
  <2> SUFFICES ASSUME TypeOK, [FrameNext]_frameVars
               PROVE  TypeOK'
    OBVIOUS
  <2>1. CASE FrameNext
    <3>1. have' \in Nat
      BY <2>1, TypeFacts, SMT DEF FrameNext, Arrive
    <3> QED
      BY <2>1, <3>1, SMT DEF FrameNext, Arrive, TypeOK
  <2>2. CASE UNCHANGED frameVars
    BY <2>2, SMT DEF frameVars, TypeOK
  <2> QED
    BY <2>1, <2>2
<1> QED
  BY <1>1, <1>2, PTL DEF FrameSpec

\* Both decoders (xyhttpapi.cpp, xyfcgi.cpp) take a frame when its last byte
\* is there and not before, at its length, whatever the length.
THEOREM DecodedInTime == FrameSpec => []DecodedWhenWhole
<1>1. TypeOK => DecodedWhenWhole
  <2> SUFFICES ASSUME TypeOK, Readable
               PROVE  IF have < Total THEN Decoded = Wait
                      ELSE Decoded = [res |-> "frame", length |-> payload,
                                      size |-> Total]
    BY SMT DEF DecodedWhenWhole
  <2>1. CASE proto = "ws"
    <3>1. extra \in {0, 128} /\ payload <= MaxPayload
      BY <2>1, SMT DEF TypeOK, Readable
    <3> QED
      BY <2>1, <3>1, TypeFacts, WsWhole, CodecAssumption, SMT DEF Decoded, Total
  <2>2. CASE proto = "fcgi"
    <3>1. extra \in Nat /\ payload < 65536 /\ payload \in Nat /\ have \in Nat
      BY <2>2, TypeFacts, SMT DEF TypeOK, Readable
    <3>2. /\ Total = FcgiSize(payload, extra)
          /\ Decoded = FcgiDecode(FcgiHeader(payload, extra), have)
      BY <2>2, SMT DEF Decoded, Total
    <3> QED
      BY <3>1, <3>2, FcgiWhole, SMT
  <2> QED
    BY <2>1, <2>2, SMT DEF TypeOK
<1> QED
  BY <1>1, TypeCorrect, PTL

\* The websocket decoder takes nothing of a frame beyond its limit, whatever
\* the length, though it looks at 24 bits of it.
THEOREM NoGiants == FrameSpec => []GiantsRefused
<1>1. TypeOK => GiantsRefused
  <2> SUFFICES ASSUME TypeOK, proto = "ws", payload > MaxPayload
               PROVE  Decoded.res # "frame" /\ (have >= 14 => Decoded = Bad)
    BY SMT DEF GiantsRefused
  <2> DEFINE hdr == WsHeader(payload, extra)
  <2>1. payload \in Nat /\ payload < 2147483648 /\ have \in Nat /\ extra \in {0, 128}
    BY TypeFacts, SMT DEF TypeOK
  <2>2. TooLong(hdr, WsLength(hdr))
    <3>1. CASE payload < 16777216
      <4>1. WsLength(hdr) = payload
        BY <2>1, <3>1, WsLengthRead, SMT
      <4> QED
        BY <4>1, SMT DEF TooLong
    <3>2. CASE payload >= 16777216
      <4>1. hdr[2] % 128 = 127 /\ hdr[7] # 0
        BY <2>1, <3>2, FourthByte, Sizes, SMT DEF WsHeader
      <4> QED
        BY <4>1, SMT DEF TooLong
    <3> QED
      BY <2>1, <3>1, <3>2, SMT
  <2>3. Decoded = WsDecode(hdr, have)
    BY SMT DEF Decoded
  <2> HIDE DEF hdr
  <2> QED
    BY <2>1, <2>2, <2>3, WsRefused, SMT
<1> QED
  BY <1>1, TypeCorrect, PTL

\* Of either protocol, at every length: what is within the limits is decoded
\* with its last byte, and what is beyond the limit of the websocket decoder is
\* never taken.
THEOREM EveryFrame == FrameSpec => []FramesDecoded
<1>1. DecodedWhenWhole /\ GiantsRefused => FramesDecoded
  BY DEF FramesDecoded
<1> QED
  BY <1>1, DecodedInTime, NoGiants, PTL
=============================================================================

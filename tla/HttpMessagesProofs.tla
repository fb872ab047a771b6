------------------------- MODULE HttpMessagesProofs -------------------------
(***************************************************************************)
(* Proofs about module HttpMessages and the decoders it uses, for messages *)
(* of any number and length, cut into pieces anywhere: what decode() makes *)
(* of the heads that serialize() writes and of chunks, and with it that    *)
(* the messages read are those sent.                                       *)
(* Then about module HttpClient, which takes messages one by one.          *)
(***************************************************************************)
EXTENDS HttpMessages, HttpClient, SequenceTheorems, WellFoundedInduction, TLAPS

\* A set of numbers that holds 0 and with each number the next holds all.
LEMMA SetInduction ==
  ASSUME NEW S \in SUBSET Nat, 0 \in S, \A n \in S : n + 1 \in S
  PROVE  S = Nat
<1> DEFINE B == Nat \ S
<1> SUFFICES ASSUME B # {} PROVE FALSE
  OBVIOUS
<1>1. PICK n \in B : \A m \in B : n <= m
  <2> HIDE DEF B
  <2>1. B \subseteq Nat
    BY DEF B
  <2>2. PICK n \in B : \A m \in B : ~(<<m, n>> \in OpToRel(<, Nat))
    BY <2>1, NatLessThanWellFounded, WFMin
  <2>3. \A m \in B : ~(m < n)
    BY <2>1, <2>2 DEF OpToRel
  <2> QED BY <2>1, <2>3
<1>2. n # 0 /\ n - 1 \in Nat /\ n - 1 \in S
  BY <1>1
<1> QED BY <1>1, <1>2

-----------------------------------------------------------------------------
(* Sequences that are joined.                                              *)

\* c joins the first members of s, up to each of them.
Joins(s, c) == \A i \in 1..Len(s) : c[i] = IF i = 1 THEN s[i] ELSE c[i-1] \o s[i]

LEMMA FlattenJoins ==
  ASSUME NEW s, Len(s) \in Nat \ {0}
  PROVE  \E c : Joins(s, c) /\ FlattenSeq(s) = c[Len(s)]
<1> DEFINE Step(c, i) == IF i = 1 THEN s[i] ELSE c[i-1] \o s[i]
           Upto(c, m) == c = [i \in 1..m |-> Step(c, i)]
           Some(m) == \E c : Upto(c, m)
           N == {m \in Nat : m <= Len(s) => Some(m)}
<1>1. Len(s) \in Nat
  OBVIOUS
<1>2. 0 \in N
  <2>1. \A i \in 1..0 : FALSE
    OBVIOUS
  <2>2. [i \in 1..0 |-> i] = [i \in 1..0 |-> Step([j \in 1..0 |-> j], i)]
    BY <2>1, Zenon
  <2>3. Upto([i \in 1..0 |-> i], 0)
    BY <2>2
  <2> HIDE DEF Upto
  <2> QED BY <2>3
<1>3. ASSUME NEW m \in N PROVE m + 1 \in N
  <2> SUFFICES ASSUME m + 1 <= Len(s) PROVE Some(m + 1)
    <3> HIDE DEF Some
    <3> QED OBVIOUS
  <2>1. PICK c : Upto(c, m)
    <3> HIDE DEF Upto
    <3>1. Some(m)
      <4> HIDE DEF Some
      <4> QED BY <1>1
    <3> QED BY <3>1
  <2> DEFINE k == [i \in 1..(m + 1) |-> IF i = m + 1 THEN Step(c, m + 1) ELSE c[i]]
  <2>2. ASSUME NEW i \in 1..(m + 1) PROVE k[i] = Step(k, i)
    <3>1. CASE i = m + 1
      <4>1. i # 1 => k[i-1] = c[i-1]
        BY <3>1
      <4> QED BY <3>1, <4>1
    <3>2. CASE i \in 1..m
      <4>1. k[i] = c[i] /\ c[i] = Step(c, i)
        BY <2>1, <3>2
      <4>2. i # 1 => k[i-1] = c[i-1]
        BY <3>2
      <4> QED BY <4>1, <4>2
    <3> QED BY <3>1, <3>2
  <2>3. Upto(k, m + 1)
    BY <2>2
  <2> HIDE DEF k, Upto
  <2> QED BY <2>3
<1>4. N = Nat
  <2>1. N \in SUBSET Nat
    OBVIOUS
  <2> HIDE DEF N
  <2> QED BY <1>2, <1>3, <2>1, SetInduction
<1> DEFINE c == CHOOSE c : Upto(c, Len(s))
<1>5. Upto(c, Len(s))
  <2>1. Some(Len(s))
    <3> HIDE DEF Some
    <3> QED BY <1>1, <1>4
  <2> HIDE DEF Upto
  <2> QED BY <2>1
<1>6. FlattenSeq(s) = c[Len(s)]
  BY DEF FlattenSeq
<1> HIDE DEF c
<1>7. Joins(s, c)
  BY <1>5 DEF Joins
<1> QED BY <1>6, <1>7

\* Joining two sequences gives the same as long as they agree.
LEMMA JoinsAgree ==
  ASSUME NEW S, NEW s \in Seq(Seq(S)), NEW t \in Seq(Seq(S)), Len(s) <= Len(t),
         \A i \in 1..Len(s) : s[i] = t[i],
         NEW c, Joins(s, c), NEW d, Joins(t, d)
  PROVE  \A i \in 1..Len(s) : c[i] = d[i] /\ c[i] \in Seq(S)
<1> DEFINE Same(m) == c[m] = d[m] /\ c[m] \in Seq(S)
           N == {m \in Nat : m + 1 <= Len(s) => Same(m + 1)}
<1>1. Len(s) \in Nat /\ Len(t) \in Nat /\ \A i \in 1..Len(s) : s[i] \in Seq(S)
  OBVIOUS
<1>2. ASSUME 1 <= Len(s) PROVE Same(1)
  <2>1. 1 \in 1..Len(s) /\ 1 \in 1..Len(t)
    BY <1>1, <1>2
  <2>2. c[1] = s[1] /\ d[1] = t[1]
    BY <2>1, Zenon DEF Joins
  <2>3. s[1] = t[1] /\ s[1] \in Seq(S)
    BY <1>1, <2>1
  <2> QED BY <2>2, <2>3
<1>3. ASSUME NEW m \in Nat, m + 2 <= Len(s), Same(m + 1) PROVE Same(m + 2)
  <2>1. m + 2 \in 1..Len(s) /\ m + 2 \in 1..Len(t) /\ m + 2 # 1 /\ (m + 2) - 1 = m + 1
    BY <1>1, <1>3
  <2>2. c[m + 2] = c[m + 1] \o s[m + 2] /\ d[m + 2] = d[m + 1] \o t[m + 2]
    BY <2>1, Zenon DEF Joins
  <2>3. c[m + 1] = d[m + 1] /\ c[m + 1] \in Seq(S)
    BY <1>3
  <2>4. s[m + 2] \in Seq(S) /\ s[m + 2] = t[m + 2]
    BY <1>1, <2>1
  <2>5. c[m + 1] \o s[m + 2] \in Seq(S)
    BY <2>3, <2>4, ConcatProperties
  <2> QED BY <2>2, <2>3, <2>4, <2>5, Zenon
<1> HIDE DEF Same
<1>4. N = Nat
  <2>1. N \in SUBSET Nat /\ 0 \in N
    BY <1>2
  <2>2. ASSUME NEW m \in N PROVE m + 1 \in N
    BY <1>1, <1>3
  <2> HIDE DEF N
  <2> QED BY <2>1, <2>2, SetInduction
<1>5. ASSUME NEW i \in 1..Len(s) PROVE Same(i)
  <2> DEFINE k == i - 1
  <2>1. k \in Nat /\ k + 1 = i /\ k + 1 <= Len(s)
    BY <1>1
  <2> HIDE DEF k
  <2>2. Same(k + 1)
    BY <1>4, <2>1
  <2> QED BY <2>1, <2>2
<1> QED BY <1>5 DEF Same

LEMMA FlattenEmpty ==
  ASSUME NEW s, Len(s) = 0
  PROVE  FlattenSeq(s) = s
BY DEF FlattenSeq

LEMMA FlattenType ==
  ASSUME NEW S, NEW s \in Seq(Seq(S))
  PROVE  FlattenSeq(s) \in Seq(S)
<1>1. CASE Len(s) = 0
  <2>1. s = <<>>
    BY <1>1
  <2>2. FlattenSeq(s) = s
    BY <1>1, FlattenEmpty
  <2>3. <<>> \in Seq(S)
    OBVIOUS
  <2> QED BY <2>1, <2>2, <2>3
<1>2. CASE Len(s) # 0
  <2>1. PICK c : Joins(s, c) /\ FlattenSeq(s) = c[Len(s)]
    BY <1>2, FlattenJoins
  <2>2. \A i \in 1..Len(s) : c[i] \in Seq(S)
    BY <2>1, JoinsAgree
  <2> QED BY <1>2, <2>1, <2>2
<1> QED BY <1>1, <1>2

\* One member more at the end is joined to what there was.
LEMMA FlattenNext ==
  ASSUME NEW S, NEW s \in Seq(Seq(S)), NEW t \in Seq(Seq(S)), Len(t) = Len(s) + 1,
         \A i \in 1..Len(s) : t[i] = s[i]
  PROVE  FlattenSeq(t) = FlattenSeq(s) \o t[Len(t)]
<1>1. Len(s) \in Nat /\ Len(t) # 0 /\ Len(t) \in 1..Len(t) /\ t[Len(t)] \in Seq(S)
  OBVIOUS
<1>2. PICK d : Joins(t, d) /\ FlattenSeq(t) = d[Len(t)]
  BY <1>1, FlattenJoins
<1>3. CASE Len(s) = 0
  <2>1. s = <<>> /\ FlattenSeq(s) = <<>>
    BY <1>3, FlattenEmpty
  <2>2. FlattenSeq(t) = t[Len(t)]
    BY <1>1, <1>2, <1>3 DEF Joins
  <2>3. <<>> \o t[Len(t)] = t[Len(t)]
    BY <1>1, ConcatEmptySeq
  <2> QED BY <2>1, <2>2, <2>3
<1>4. CASE Len(s) # 0
  <2>1. PICK c : Joins(s, c) /\ FlattenSeq(s) = c[Len(s)]
    BY SMTT(30), <1>4, FlattenJoins
  <2>2. c[Len(s)] = d[Len(s)]
    <3>1. Len(s) \in 1..Len(s) /\ Len(s) <= Len(t)
      BY <1>1, <1>4
    <3>2. \A i \in 1..Len(s) : s[i] = t[i]
      OBVIOUS
    <3>3. Joins(s, c) /\ Joins(t, d)
      BY <1>2, <2>1
    <3>4. \A i \in 1..Len(s) : c[i] = d[i] /\ c[i] \in Seq(S)
      BY <3>1, <3>2, <3>3, JoinsAgree
    <3> QED BY <3>1, <3>4
  <2>3. d[Len(t)] = d[Len(s)] \o t[Len(t)]
    <3>1. Len(t) \in 1..Len(t) /\ Len(t) # 1 /\ Len(t) - 1 = Len(s)
      BY <1>1, <1>4
    <3>2. d[Len(t)] = d[Len(t) - 1] \o t[Len(t)]
      BY <1>2, <3>1, Zenon DEF Joins
    <3> QED BY <3>1, <3>2
  <2> QED BY <1>2, <2>1, <2>2, <2>3
<1> QED BY <1>3, <1>4

\* Two ways to divide a sequence, and one that goes on from the other.
Divides(a, x, b, y) == a \o x = b \o y
GoesOn(a, x, b, y, S) == \E z \in Seq(S) : b = a \o z /\ x = z \o y

LEMMA SplitConcat ==
  ASSUME NEW S, NEW a \in Seq(S), NEW x \in Seq(S), NEW b \in Seq(S), NEW y \in Seq(S),
         Divides(a, x, b, y), Len(a) <= Len(b)
  PROVE  GoesOn(a, x, b, y, S)
<1> USE DEF Divides
<1> DEFINE m == Len(a)  n == Len(b)
           p == SubSeq(b, 1, m)  z == SubSeq(b, m + 1, n)
<1>1. /\ m \in Nat /\ n \in Nat /\ m <= n
      /\ \A i \in 1..n : b[i] \in S
  BY LenProperties
<1>2. \A i \in 1..m : b[i] = a[i]
  <2>1. ASSUME NEW i \in 1..m PROVE b[i] = a[i]
    <3>1. (a \o x)[i] = a[i] /\ (b \o y)[i] = b[i]
      BY <1>1, ConcatProperties
    <3> QED BY <3>1
  <2> QED BY <2>1
<1>3. p \o z = b
  <2>1. SubSeq(b, 1, n) = b
    BY SubSeqFull
  <2>2. 1 \in 1..(n + 1) /\ m \in (1 - 1)..n /\ n \in m..n
    BY <1>1
  <2> HIDE DEF m
  <2>3. SubSeq(b, 1, m) \o SubSeq(b, m + 1, n) = SubSeq(b, 1, n)
    BY <2>2, ConcatAdjacentSubSeq
  <2> QED BY <2>1, <2>3
<1> HIDE DEF m, n
<1>4. /\ p \in Seq(S) /\ Len(p) = m /\ \A i \in 1..m : p[i] = b[i]
      /\ z \in Seq(S)
  BY <1>1, SubSeqProperties
<1> HIDE DEF p, z
<1>5. p = a
  <2>1. Len(a) = m
    BY DEF m
  <2> QED BY <1>2, <1>4, <2>1, SeqEqual
<1>6. a \o x = a \o (z \o y)
  <2>1. b = a \o z
    BY <1>3, <1>5
  <2>2. (a \o z) \o y = a \o (z \o y)
    <3>1. z \in Seq(S)
      BY <1>4
    <3> QED BY <3>1, ConcatAssociative
  <2> QED BY <2>1, <2>2
<1>7. z \o y \in Seq(S)
  BY <1>4, ConcatProperties
<1>8. x = z \o y
  BY <1>6, <1>7, ConcatSimplifications
<1> QED BY <1>3, <1>4, <1>5, <1>8, Zenon DEF GoesOn

\* What is left of a sequence when its beginning is pulled.
LEMMA PullConcat ==
  ASSUME NEW S, NEW a \in Seq(S), NEW b \in Seq(S)
  PROVE  SubSeq(a \o b, 1, Len(a)) = a /\ SubSeq(a \o b, Len(a) + 1, Len(a \o b)) = b
<1> DEFINE s == a \o b  m == Len(a)  n == Len(b)
           p == SubSeq(s, 1, m)  z == SubSeq(s, m + 1, m + n)
<1>1. /\ m \in Nat /\ n \in Nat /\ s \in Seq(S) /\ Len(s) = m + n
      /\ \A i \in 1..(m + n) : s[i] = IF i <= m THEN a[i] ELSE b[i - m]
  BY LenProperties, ConcatProperties
<1>2. \A i \in 1..(m + n) : s[i] \in S
  BY <1>1, ElementOfSeq
<1> HIDE DEF s
<1>3. p \in Seq(S) /\ Len(p) = m /\ \A i \in 1..m : p[i] = s[i]
  <2>1. \A i \in 1..m : s[i] \in S
    BY <1>1, <1>2
  <2> HIDE DEF m
  <2> QED BY <1>1, <2>1, SubSeqProperties
<1>4. z \in Seq(S) /\ Len(z) = n /\ \A i \in 1..n : z[i] = s[m + i]
  <2>1. \A i \in (m + 1)..(m + n) : s[i] \in S
    BY <1>1, <1>2
  <2> HIDE DEF m, n
  <2>2. /\ z \in Seq(S) /\ Len(z) = IF m + 1 <= m + n THEN (m + n) - (m + 1) + 1 ELSE 0
        /\ \A i \in 1..((m + n) - (m + 1) + 1) : z[i] = s[(m + 1) + i - 1]
    BY <1>1, <2>1, SubSeqProperties
  <2>3. \A i \in 1..n : (m + 1) + i - 1 = m + i /\ i \in 1..((m + n) - (m + 1) + 1)
    BY <1>1
  <2> HIDE DEF z
  <2> QED BY <1>1, <2>2, <2>3
<1>5. p = a
  <2>1. \A i \in 1..m : p[i] = a[i]
    BY <1>1, <1>3
  <2> HIDE DEF p
  <2> QED BY <1>3, <2>1, SeqEqual DEF m
<1>6. z = b
  <2>1. \A i \in 1..n : z[i] = b[i]
    BY <1>1, <1>4
  <2> HIDE DEF z
  <2> QED BY <1>4, <2>1, SeqEqual DEF n
<1> QED BY <1>1, <1>5, <1>6 DEF s

-----------------------------------------------------------------------------
(* Scan.                                                                   *)

\* f holds the states before and after each character of b.
Scans(k, r, b, f) ==
  \A i \in 0..Len(b) : f[i] = IF i = 0 THEN r ELSE Round(k, f[i - 1], b[i])

LEMMA ScanIs ==
  ASSUME NEW k, NEW r, NEW b, Len(b) \in Nat
  PROVE  \E f : Scans(k, r, b, f) /\ Scan(k, r, b) = f[Len(b)]
<1> DEFINE Step(f, i) == IF i = 0 THEN r ELSE Round(k, f[i - 1], b[i])
           Upto(f, m) == f = [i \in 0..m |-> Step(f, i)]
           Some(m) == \E f : Upto(f, m)
           N == {m \in Nat : Some(m)}
<1>1. 0 \in N
  <2> DEFINE f == [i \in 0..0 |-> r]
  <2>1. \A i \in 0..0 : f[i] = Step(f, i)
    OBVIOUS
  <2>2. Upto(f, 0)
    BY <2>1, Zenon
  <2> HIDE DEF Upto
  <2> QED BY <2>2
<1>2. ASSUME NEW m \in N PROVE m + 1 \in N
  <2>1. PICK f : Upto(f, m)
    <3> HIDE DEF Upto
    <3> QED OBVIOUS
  <2> DEFINE g == [i \in 0..(m + 1) |-> IF i = m + 1 THEN Step(f, m + 1) ELSE f[i]]
  <2>2. ASSUME NEW i \in 0..(m + 1) PROVE g[i] = Step(g, i)
    <3>1. CASE i = m + 1
      <4>1. i # 0 /\ g[i - 1] = f[i - 1]
        BY <3>1
      <4> QED BY <3>1, <4>1
    <3>2. CASE i \in 0..m
      <4>1. g[i] = f[i] /\ f[i] = Step(f, i)
        BY <2>1, <3>2
      <4>2. i # 0 => g[i - 1] = f[i - 1]
        BY <3>2
      <4> QED BY <4>1, <4>2
    <3> QED BY <3>1, <3>2
  <2>3. Upto(g, m + 1)
    BY <2>2
  <2> HIDE DEF g, Upto
  <2> QED BY <2>3
<1>3. N = Nat
  <2>1. N \in SUBSET Nat
    OBVIOUS
  <2> HIDE DEF N
  <2> QED BY <1>1, <1>2, <2>1, SetInduction
<1> DEFINE f == CHOOSE f : Upto(f, Len(b))
<1>4. Upto(f, Len(b))
  <2>1. Some(Len(b))
    <3> HIDE DEF Some
    <3> QED BY <1>3
  <2> HIDE DEF Upto
  <2> QED BY <2>1
<1>5. Scan(k, r, b) = f[Len(b)]
  BY DEF Scan
<1> HIDE DEF f
<1>6. Scans(k, r, b, f)
  BY <1>4 DEF Scans
<1> QED BY <1>5, <1>6

\* Scanning two sequences gives the same as long as they agree.
LEMMA ScansAgree ==
  ASSUME NEW k, NEW r, NEW b, NEW c, Len(b) \in Nat, Len(c) \in Nat, Len(b) <= Len(c),
         \A i \in 1..Len(b) : b[i] = c[i],
         NEW f, Scans(k, r, b, f), NEW g, Scans(k, r, c, g)
  PROVE  \A i \in 0..Len(b) : f[i] = g[i]
<1> DEFINE N == {i \in Nat : i <= Len(b) => f[i] = g[i]}
<1>1. 0 \in N
  <2>1. 0 \in 0..Len(b) /\ 0 \in 0..Len(c)
    OBVIOUS
  <2>2. f[0] = r /\ g[0] = r
    BY <2>1, Zenon DEF Scans
  <2> QED BY <2>2
<1>2. ASSUME NEW m \in N PROVE m + 1 \in N
  <2> SUFFICES ASSUME m + 1 <= Len(b) PROVE f[m + 1] = g[m + 1]
    OBVIOUS
  <2>1. /\ m + 1 \in 0..Len(b) /\ m + 1 \in 0..Len(c) /\ m + 1 # 0 /\ (m + 1) - 1 = m
        /\ m + 1 \in 1..Len(b)
    OBVIOUS
  <2>2. f[m + 1] = Round(k, f[m], b[m + 1]) /\ g[m + 1] = Round(k, g[m], c[m + 1])
    BY <2>1, Zenon DEF Scans
  <2>3. f[m] = g[m] /\ b[m + 1] = c[m + 1]
    BY <2>1
  <2> QED BY <2>2, <2>3
<1>3. N = Nat
  <2>1. N \in SUBSET Nat
    OBVIOUS
  <2> HIDE DEF N
  <2> QED BY <1>1, <1>2, <2>1, SetInduction
<1> QED BY <1>3

LEMMA ScanEmpty == ASSUME NEW k, NEW r PROVE Scan(k, r, <<>>) = r
<1>1. Len(<<>>) = 0
  OBVIOUS
<1>2. PICK f : Scans(k, r, <<>>, f) /\ Scan(k, r, <<>>) = f[Len(<<>>)]
  BY <1>1, ScanIs
<1> QED BY <1>1, <1>2 DEF Scans

LEMMA ScanNext ==
  ASSUME NEW k, NEW r, NEW S, NEW b \in Seq(S), NEW c \in S
  PROVE  Scan(k, r, Append(b, c)) = Round(k, Scan(k, r, b), c)
<1> DEFINE d == Append(b, c)
<1>1. /\ Len(b) \in Nat /\ Len(d) = Len(b) + 1 /\ d[Len(b) + 1] = c
      /\ \A i \in 1..Len(b) : b[i] = d[i]
  BY AppendProperties
<1> HIDE DEF d
<1>2. PICK f : Scans(k, r, b, f) /\ Scan(k, r, b) = f[Len(b)]
  BY <1>1, ScanIs
<1>3. PICK g : Scans(k, r, d, g) /\ Scan(k, r, d) = g[Len(d)]
  BY <1>1, ScanIs
<1>4. \A i \in 0..Len(b) : f[i] = g[i]
  BY <1>1, <1>2, <1>3, ScansAgree
<1>5. f[Len(b)] = g[Len(b)]
  BY <1>1, <1>4
<1>6. g[Len(d)] = Round(k, g[Len(b)], c)
  <2>1. Len(d) \in 0..Len(d) /\ Len(d) # 0 /\ Len(d) - 1 = Len(b) /\ d[Len(d)] = c
    BY <1>1
  <2>2. g[Len(d)] = Round(k, g[Len(d) - 1], d[Len(d)])
    BY <1>3, <2>1, Zenon DEF Scans
  <2> QED BY <2>1, <2>2
<1> QED BY <1>2, <1>3, <1>5, <1>6 DEF d

\* Scanning goes on where it stopped.
LEMMA ScanConcat ==
  ASSUME NEW k, NEW r, NEW S, NEW b \in Seq(S), NEW c \in Seq(S)
  PROVE  Scan(k, r, b \o c) = Scan(k, Scan(k, r, b), c)
<1> DEFINE u == Scan(k, r, b)
           Good(s) == Scan(k, r, b \o s) = Scan(k, u, s)
           N == {n \in Nat : \A s \in Seq(S) : Len(s) = n => Good(s)}
<1>1. 0 \in N
  <2> SUFFICES ASSUME NEW s \in Seq(S), Len(s) = 0 PROVE Good(s)
    OBVIOUS
  <2>1. s = <<>> /\ b \o <<>> = b
    BY ConcatEmptySeq
  <2> QED BY <2>1, ScanEmpty
<1>2. ASSUME NEW n \in N PROVE n + 1 \in N
  <2> SUFFICES ASSUME NEW s \in Seq(S), Len(s) = n + 1 PROVE Good(s)
    OBVIOUS
  <2>1. PICK t \in Seq(S), e \in S : s = Append(t, e)
    <3>1. s # <<>>
      BY EmptySeq
    <3> QED BY <3>1, SequenceEmptyOrAppend
  <2>2. Len(t) = n
    <3>1. Len(s) = Len(t) + 1 /\ Len(t) \in Nat
      BY <2>1, AppendProperties
    <3> QED BY <3>1
  <2>3. Good(t)
    BY <2>2
  <2>4. b \o s = Append(b \o t, e) /\ b \o t \in Seq(S)
    <3>1. s = t \o <<e>> /\ <<e>> \in Seq(S)
      BY <2>1, AppendIsConcat
    <3>2. b \o t \in Seq(S) /\ Append(b \o t, e) = (b \o t) \o <<e>>
      BY ConcatProperties, AppendIsConcat
    <3>3. b \o (t \o <<e>>) = (b \o t) \o <<e>>
      BY <3>1, ConcatAssociative
    <3> QED BY <3>1, <3>2, <3>3
  <2>5. Scan(k, r, b \o s) = Round(k, Scan(k, r, b \o t), e)
    <3> DEFINE w == b \o t
    <3>1. w \in Seq(S) /\ b \o s = Append(w, e)
      BY <2>4
    <3> HIDE DEF w
    <3>2. Scan(k, r, Append(w, e)) = Round(k, Scan(k, r, w), e)
      BY <3>1, ScanNext
    <3>3. Scan(k, r, b \o s) = Round(k, Scan(k, r, w), e)
      BY <3>1, <3>2
    <3> QED BY <3>3 DEF w
  <2> HIDE DEF u
  <2>6. Scan(k, u, s) = Round(k, Scan(k, u, t), e)
    BY <2>1, ScanNext
  <2> QED BY <2>3, <2>5, <2>6
<1>3. N = Nat
  <2>1. N \in SUBSET Nat
    OBVIOUS
  <2> HIDE DEF N
  <2> QED BY <1>1, <1>2, <2>1, SetInduction
<1>4. Good(c)
  <2>1. Len(c) \in N
    BY <1>3, LenProperties
  <2> HIDE DEF Good
  <2> QED BY <2>1
<1> QED BY <1>4

LEMMA ScanOne == ASSUME NEW k, NEW r, NEW c PROVE Scan(k, r, <<c>>) = Round(k, r, c)
<1> DEFINE e == <<>>  S == {c}
<1>1. <<c>> = Append(e, c) /\ e \in Seq(S) /\ c \in S
  OBVIOUS
<1>2. Scan(k, r, e) = r
  BY ScanEmpty
<1> HIDE DEF e, S
<1>3. Scan(k, r, Append(e, c)) = Round(k, Scan(k, r, e), c)
  BY <1>1, ScanNext
<1> QED BY <1>1, <1>2, <1>3

-----------------------------------------------------------------------------
(* The automata.                                                           *)

Kinds == {"request", "response"}

\* Where a scan is.
At(st, field, out, n) == [st |-> st, field |-> field, out |-> out, n |-> n]

LEMMA BeginIs == ASSUME NEW k PROVE Begin(k) = At(Start(k), <<>>, <<>>, 0)
BY DEF Begin, At

\* One character that the automaton takes.
LEMMA RoundMoves ==
  ASSUME NEW k, NEW st, NEW f, NEW o, NEW n, NEW c, NEW to,
         st \notin {"done", "bad"}, Moves(k, st)[c] = to, to # "bad",
         Fits(At(st, f, o, n), c)
  PROVE  Round(k, At(st, f, o, n), c) =
           At(to, IF to = st /\ to # "skip" THEN Append(f, c)
                  ELSE IF to = "value" THEN <<c>> ELSE <<>>,
              IF <<st, to>> \in Keeps THEN Append(o, f) ELSE o, n + 1)
BY DEF Round, At

\* A space is no other character.
LEMMA Space == /\ SP # "A" /\ SP # "a" /\ SP # "0" /\ SP # "1" /\ SP # "2" /\ SP # "?"
               /\ SP # "." /\ SP # ":" /\ SP # "HTTP/1" /\ SP # CR /\ SP # LF
BY DEF SP, CR, LF

\* The characters that the states of a field take.
LEMMA FieldMoves ==
  /\ \A k \in Kinds, c \in KeyChars : Moves(k, "key")[c] = "key"
  /\ \A k \in Kinds, c \in Printable : Moves(k, "value")[c] = "value"
  /\ Moves("request", "method")["A"] = "method"
  /\ \A c \in Printable \ {SP} : Moves("request", "resource")[c] = "resource"
  /\ \A c \in KeyChars : Moves("response", "first")[c] = "first"
  /\ \A c \in Digits : Moves("response", "code")[c] = "code"
<1>1. ASSUME NEW k \in Kinds, NEW c \in KeyChars PROVE Moves(k, "key")[c] = "key"
  <2>1. c \in Chars
    BY DEF Chars, Printable
  <2>2. Headers["key"][c] = "key"
    BY <2>1 DEF Headers, KeyChars, Digits, CR, LF
  <2>3. Moves(k, "key") = Headers["key"]
    BY DEF Moves, Headers
  <2> QED BY <2>2, <2>3
<1>2. ASSUME NEW k \in Kinds, NEW c \in Printable PROVE Moves(k, "value")[c] = "value"
  <2>1. c \in Chars
    BY DEF Chars
  <2>2. Headers["value"][c] = "value"
    BY <2>1, Space DEF Headers, Printable, KeyChars, Digits, CR, LF
  <2>3. Moves(k, "value") = Headers["value"]
    BY DEF Moves, Headers
  <2> QED BY <2>2, <2>3
<1>3. Moves("request", "method")["A"] = "method"
  BY Space DEF Moves, Headers, Request, Chars, Printable, KeyChars
<1>4. ASSUME NEW c \in Printable \ {SP} PROVE Moves("request", "resource")[c] = "resource"
  <2>1. c \in Chars
    BY DEF Chars
  <2>2. Request["resource"][c] = "resource"
    BY <2>1 DEF Request
  <2>3. Moves("request", "resource") = Request["resource"]
    BY DEF Moves, Headers
  <2> QED BY <2>2, <2>3
<1>5. ASSUME NEW c \in KeyChars PROVE Moves("response", "first")[c] = "first"
  <2>1. c \in Chars
    BY DEF Chars, Printable
  <2>2. Response["first"][c] = "first"
    BY <2>1 DEF Response, KeyChars, Digits
  <2>3. Moves("response", "first") = Response["first"]
    BY DEF Moves, Headers
  <2> QED BY <2>2, <2>3
<1>6. ASSUME NEW c \in Digits PROVE Moves("response", "code")[c] = "code"
  <2>1. c \in Chars
    BY DEF Chars, Printable, KeyChars
  <2>2. Response["code"][c] = "code"
    BY <2>1, Space DEF Response, Digits
  <2>3. Moves("response", "code") = Response["code"]
    BY DEF Moves, Headers
  <2> QED BY <2>2, <2>3
<1> QED BY <1>1, <1>2, <1>3, <1>4, <1>5, <1>6

\* The characters that end a field, in the states of the headers.
LEMMA HeaderMoves ==
  ASSUME NEW k \in Kinds
  PROVE  /\ Moves(k, "key")[":"] = "skip"
         /\ Moves(k, "key")[CR] = "last" /\ Moves(k, "key")[LF] = "done"
         /\ Moves(k, "skip")[SP] = "skip"
         /\ \A c \in Chars \ {SP} : Moves(k, "skip")[c] = "value"
         /\ Moves(k, "value")[CR] = "eol" /\ Moves(k, "value")[LF] = "key"
         /\ Moves(k, "eol")[LF] = "key" /\ Moves(k, "last")[LF] = "done"
<1>1. Moves(k, "key")[":"] = "skip" /\ Moves(k, "key")[CR] = "last"
      /\ Moves(k, "key")[LF] = "done"
  BY DEF Moves, Headers, Chars, Printable, KeyChars, Digits, CR, LF
<1>2. /\ Moves(k, "skip")[SP] = "skip"
      /\ \A c \in Chars \ {SP} : Moves(k, "skip")[c] = "value"
  BY DEF Moves, Headers, Chars, Printable
<1>3. Moves(k, "value")[CR] = "eol" /\ Moves(k, "value")[LF] = "key"
  BY DEF Moves, Headers, Chars, Printable, KeyChars, Digits, CR, LF
<1>4. Moves(k, "eol")[LF] = "key" /\ Moves(k, "last")[LF] = "done"
  BY DEF Moves, Headers, Chars
<1> QED BY <1>1, <1>2, <1>3, <1>4

\* The characters that end the parts of a first line.
LEMMA FirstLineMoves ==
  /\ Moves("request", "method")[SP] = "resource"
  /\ Moves("request", "resource")[SP] = "version"
  /\ Moves("request", "version")["HTTP/1"] = "version"
  /\ Moves("request", "version")["."] = "minor"
  /\ Moves("request", "minor")["1"] = "minor"
  /\ Moves("request", "minor")[CR] = "eol" /\ Moves("request", "minor")[LF] = "key"
  /\ Moves("response", "first")["HTTP/1"] = "first"
  /\ Moves("response", "first")["."] = "minor"
  /\ Moves("response", "first")[":"] = "skip"
  /\ Moves("response", "minor")["1"] = "minor"
  /\ Moves("response", "minor")[SP] = "code"
  /\ Moves("response", "code")[SP] = "reason"
  /\ Moves("response", "reason")["A"] = "reason"
  /\ Moves("response", "reason")[CR] = "eol" /\ Moves("response", "reason")[LF] = "key"
<1> USE DEF Moves, Headers, Chars, Printable, KeyChars, Digits
<1>1. /\ Moves("request", "method")[SP] = "resource"
      /\ Moves("request", "resource")[SP] = "version"
      /\ Moves("request", "version")["HTTP/1"] = "version"
      /\ Moves("request", "version")["."] = "minor"
  BY DEF Request
<1>2. /\ Moves("request", "minor")["1"] = "minor"
      /\ Moves("request", "minor")[CR] = "eol" /\ Moves("request", "minor")[LF] = "key"
  BY DEF Request, CR, LF
<1>3. /\ Moves("response", "first")["HTTP/1"] = "first"
      /\ Moves("response", "first")["."] = "minor"
      /\ Moves("response", "first")[":"] = "skip"
  BY DEF Response
<1>4. /\ Moves("response", "minor")["1"] = "minor"
      /\ Moves("response", "minor")[SP] = "code"
      /\ Moves("response", "code")[SP] = "reason"
  BY Space DEF Response
<1>5. /\ Moves("response", "reason")["A"] = "reason"
      /\ Moves("response", "reason")[CR] = "eol"
      /\ Moves("response", "reason")[LF] = "key"
  BY DEF Response, CR, LF
<1> QED BY <1>1, <1>2, <1>3, <1>4, <1>5


\* One character that ends a field, or that no field has: what was read is kept
\* or not.
LEMMA ScanSkip ==
  ASSUME NEW k, NEW st, NEW f, NEW o, NEW n, NEW c, NEW to, to # st,
         to \notin {"bad", "value"}, st \notin {"done", "bad"}, Moves(k, st)[c] = to,
         Fits(At(st, f, o, n), c), <<st, to>> \notin Keeps
  PROVE  Scan(k, At(st, f, o, n), <<c>>) = At(to, <<>>, o, n + 1)
BY ScanOne, RoundMoves

LEMMA ScanKeep ==
  ASSUME NEW k, NEW st, NEW f, NEW o, NEW n, NEW c, NEW to, to # st,
         to \notin {"bad", "value"}, st \notin {"done", "bad"}, Moves(k, st)[c] = to,
         Fits(At(st, f, o, n), c), <<st, to>> \in Keeps
  PROVE  Scan(k, At(st, f, o, n), <<c>>) = At(to, <<>>, Append(o, f), n + 1)
BY ScanOne, RoundMoves

\* One part after another.
LEMMA ScanThen ==
  ASSUME NEW k, NEW r, NEW q, NEW b \in Seq(Chars), NEW c \in Seq(Chars),
         Scan(k, r, b) = q
  PROVE  Scan(k, r, b \o c) = Scan(k, q, c)
BY ScanConcat

LEMMA Single == ASSUME NEW c \in Chars PROVE <<c>> \in Seq(Chars) /\ Len(<<c>>) = 1
OBVIOUS

\* State st keeps to itself over characters of C, for fewer than m of them.
Takes(k, st, C, m) ==
  /\ st \notin {"done", "bad", "skip"} /\ C \subseteq Chars
  /\ \A c \in C : Moves(k, st)[c] = st
  /\ \A g \in Seq(Chars), o \in Seq(Seq(Chars)), c \in C, i \in Nat :
       Len(g) < m => Fits(At(st, g, o, i), c)

\* Characters of a field, from the state of the field on.
LEMMA ScanField ==
  ASSUME NEW k, NEW st, NEW C, NEW f \in Seq(Chars), NEW o \in Seq(Seq(Chars)),
         NEW n \in Nat, NEW w \in Seq(C), Takes(k, st, C, Len(f) + Len(w))
  PROVE  Scan(k, At(st, f, o, n), w) = At(st, f \o w, o, n + Len(w))
<1> DEFINE Good(s) == Scan(k, At(st, f, o, n), s) = At(st, f \o s, o, n + Len(s))
           N == {m \in Nat : \A s \in Seq(C) : Len(s) = m /\ m <= Len(w) => Good(s)}
<1> USE DEF Takes
<1>1. 0 \in N
  <2> SUFFICES ASSUME NEW s \in Seq(C), Len(s) = 0 PROVE Good(s)
    OBVIOUS
  <2>1. s = <<>> /\ f \o <<>> = f
    BY ConcatEmptySeq
  <2>2. n + Len(s) = n
    OBVIOUS
  <2> QED BY <2>1, <2>2, ScanEmpty
<1>2. ASSUME NEW m \in N PROVE m + 1 \in N
  <2> SUFFICES ASSUME NEW s \in Seq(C), Len(s) = m + 1, m + 1 <= Len(w) PROVE Good(s)
    OBVIOUS
  <2>1. PICK t \in Seq(C), e \in C : s = Append(t, e)
    <3>1. s # <<>>
      BY EmptySeq
    <3> QED BY <3>1, SequenceEmptyOrAppend
  <2>2. Len(t) = m /\ m \in Nat
    <3>1. Len(s) = Len(t) + 1 /\ Len(t) \in Nat
      BY <2>1, AppendProperties
    <3> QED BY <3>1
  <2>3. Good(t)
    <3>1. m <= Len(w)
      BY <2>2, LenProperties
    <3> QED BY <2>2, <3>1
  <2>4. t \in Seq(Chars) /\ e \in Chars
    BY SeqMonotonic
  <2> DEFINE g == f \o t  j == n + Len(t)
  <2>5. g \in Seq(Chars) /\ Len(g) = Len(f) + m /\ j \in Nat /\ Len(f) \in Nat
    <3>1. f \o t \in Seq(Chars) /\ Len(f \o t) = Len(f) + Len(t)
      BY <2>4, ConcatProperties
    <3>2. Len(f) \in Nat
      BY LenProperties
    <3> QED BY <2>2, <3>1, <3>2
  <2>6. f \o s = Append(g, e) /\ n + Len(s) = j + 1
    <3>1. s = t \o <<e>> /\ <<e>> \in Seq(Chars)
      BY <2>1, <2>4, AppendIsConcat
    <3>2. Append(g, e) = g \o <<e>>
      BY <2>4, <2>5, AppendIsConcat
    <3>3. f \o (t \o <<e>>) = (f \o t) \o <<e>>
      BY <2>4, <3>1, ConcatAssociative
    <3>4. n + Len(s) = j + 1
      BY <2>2
    <3> QED BY <3>1, <3>2, <3>3, <3>4
  <2>7. Scan(k, At(st, f, o, n), s) = Round(k, At(st, g, o, j), e)
    BY <2>1, <2>3, ScanNext
  <2> HIDE DEF g, j
  <2>8. Round(k, At(st, g, o, j), e) = At(st, Append(g, e), o, j + 1)
    <3>1. Fits(At(st, g, o, j), e)
      <4>1. Len(g) < Len(f) + Len(w)
        BY <2>5, LenProperties
      <4> QED BY <2>5, <4>1
    <3>2. <<st, st>> \notin Keeps
      BY DEF Keeps
    <3>3. Moves(k, st)[e] = st
      OBVIOUS
    <3>4. st # "bad" /\ st # "skip" /\ st \notin {"done", "bad"}
      OBVIOUS
    <3> QED BY <3>1, <3>2, <3>3, <3>4 DEF Round, At
  <2> QED BY <2>6, <2>7, <2>8
<1>3. N = Nat
  <2>1. N \in SUBSET Nat
    OBVIOUS
  <2> HIDE DEF N
  <2> QED BY <1>1, <1>2, <2>1, SetInduction
<1>4. Good(w)
  <2>1. Len(w) \in N /\ Len(w) <= Len(w)
    BY <1>3, LenProperties
  <2> HIDE DEF Good
  <2> QED BY <2>1
<1> QED BY <1>4

\* The two ways to end a line.
Eols == {<<CR, LF>>, <<LF>>}

LEMMA Pair == ASSUME NEW a, NEW b PROVE <<a, b>> = <<a>> \o <<b>>
<1> DEFINE x == <<a>>  y == <<b>>  S == {a, b}
<1>1. x \in Seq(S) /\ b \in S /\ Append(x, b) = <<a, b>>
  <2>1. x \in Seq(S) /\ b \in S /\ a \in S /\ Len(x) = 1 /\ x[1] = a
    OBVIOUS
  <2> DEFINE z == <<a, b>>
  <2>2. z \in Seq(S) /\ Len(z) = 2 /\ z[1] = a /\ z[2] = b
    OBVIOUS
  <2> HIDE DEF x, z
  <2>3. Append(x, b) \in Seq(S) /\ Len(Append(x, b)) = 2
        /\ Append(x, b)[1] = a /\ Append(x, b)[2] = b
    <3> DEFINE y2 == Append(x, b)
    <3>1. /\ y2 \in Seq(S) /\ Len(y2) = Len(x) + 1
          /\ \A i \in 1..Len(x) : y2[i] = x[i]
          /\ y2[Len(x) + 1] = b
      BY <2>1, AppendProperties
    <3> HIDE DEF y2
    <3>2. 1 \in 1..Len(x) /\ Len(x) + 1 = 2
      BY <2>1
    <3>3. y2 \in Seq(S) /\ Len(y2) = 2 /\ y2[1] = a /\ y2[2] = b
      BY <2>1, <3>1, <3>2
    <3> QED BY <3>3 DEF y2
  <2>4. Append(x, b) = z
    <3> DEFINE y2 == Append(x, b)
    <3>1. \A i \in 1..2 : y2[i] = z[i]
      BY <2>2, <2>3
    <3> HIDE DEF y2
    <3> QED BY <2>2, <2>3, <3>1, SeqEqual DEF y2
  <2> QED BY <2>1, <2>4 DEF z
<1> HIDE DEF x, S
<1>2. Append(x, b) = x \o y
  BY <1>1, AppendIsConcat
<1> HIDE DEF y
<1>3. <<a, b>> = x \o y
  BY <1>1, <1>2
<1> QED BY <1>3, Zenon DEF x, y

LEMMA EolType ==
  /\ CR \in Chars /\ LF \in Chars
  /\ \A e \in Eols : e \in Seq(Chars) /\ Len(e) \in Nat
<1>1. CR \in Chars /\ LF \in Chars
  BY DEF Chars
<1>2. ASSUME NEW e \in Eols PROVE e \in Seq(Chars) /\ Len(e) \in Nat
  <2>1. CASE e = <<CR, LF>>
    BY <1>1, <2>1
  <2>2. CASE e = <<LF>>
    BY <1>1, <2>2
  <2> QED BY <2>1, <2>2 DEF Eols
<1> QED BY <1>1, <1>2

\* The end of a header or of a first line.
LEMMA ScanEol ==
  ASSUME NEW k \in Kinds, NEW st \in {"value", "minor", "reason"},
         Moves(k, st)[CR] = "eol", Moves(k, st)[LF] = "key",
         NEW f, NEW o, NEW n \in Nat, NEW e \in Eols
  PROVE  Scan(k, At(st, f, o, n), e) =
           At("key", <<>>, IF st = "value" THEN Append(o, f) ELSE o, n + Len(e))
<1> DEFINE p == IF st = "value" THEN Append(o, f) ELSE o
           cr == <<CR>>  lf == <<LF>>
<1>1. CR # LF /\ CR \notin Digits /\ LF \notin Digits /\ CR # SP /\ CR # "." /\ LF # SP
      /\ LF # "."
  BY Space DEF CR, LF, Digits
<1>2. Fits(At(st, f, o, n), LF) /\ Fits(At(st, f, o, n), CR)
  BY <1>1 DEF Fits, At
<1>3. /\ <<st, "key">> \in Keeps <=> st = "value"
      /\ <<st, "eol">> \in Keeps <=> st = "value"
      /\ <<"eol", "key">> \notin Keeps
  BY DEF Keeps
<1>4. Scan(k, At(st, f, o, n), lf) = At("key", <<>>, p, n + 1)
  <2>1. CASE st = "value"
    BY <1>2, <1>3, <2>1, ScanKeep
  <2>2. CASE st # "value"
    BY <1>2, <1>3, <2>2, ScanSkip
  <2> QED BY <2>1, <2>2
<1>5. Scan(k, At(st, f, o, n), cr) = At("eol", <<>>, p, n + 1)
  <2>1. CASE st = "value"
    BY <1>2, <1>3, <2>1, ScanKeep
  <2>2. CASE st # "value"
    BY <1>2, <1>3, <2>2, ScanSkip
  <2> QED BY <2>1, <2>2
<1> HIDE DEF p
<1>6. Scan(k, At("eol", <<>>, p, n + 1), lf) = At("key", <<>>, p, n + 2)
  <2>1. Fits(At("eol", <<>>, p, n + 1), LF)
    BY <1>1 DEF Fits, At
  <2>2. Moves(k, "eol")[LF] = "key"
    BY HeaderMoves
  <2>3. Scan(k, At("eol", <<>>, p, n + 1), lf) = At("key", <<>>, p, (n + 1) + 1)
    BY <1>3, <2>1, <2>2, ScanSkip
  <2> QED BY <2>3
<1>7. cr \in Seq(Chars) /\ lf \in Seq(Chars) /\ Len(lf) = 1
  BY EolType
<1>8. CASE e = <<LF>>
  BY <1>4, <1>7, <1>8 DEF p
<1>9. CASE e = <<CR, LF>>
  <2>1. e = cr \o lf /\ Len(e) = 2
    BY <1>9, Pair
  <2> HIDE DEF cr, lf
  <2> QED BY <1>5, <1>6, <1>7, <2>1, ScanThen DEF p
<1> QED BY <1>8, <1>9 DEF Eols

\* The empty line.
LEMMA ScanLast ==
  ASSUME NEW k \in Kinds, NEW o, NEW n \in Nat, NEW e \in Eols
  PROVE  Scan(k, At("key", <<>>, o, n), e) = At("done", <<>>, o, n + Len(e))
<1> DEFINE cr == <<CR>>  lf == <<LF>>
<1>1. CR # LF /\ CR \notin KeyChars /\ LF \notin KeyChars
  BY DEF CR, LF, Digits, KeyChars
<1>2. /\ <<"key", "done">> \notin Keeps /\ <<"key", "last">> \notin Keeps
      /\ <<"last", "done">> \notin Keeps
  BY DEF Keeps
<1>3. Fits(At("key", <<>>, o, n), LF) /\ Fits(At("key", <<>>, o, n), CR)
      /\ Fits(At("last", <<>>, o, n + 1), LF)
  BY <1>1 DEF Fits, At
<1>4. /\ Moves(k, "key")[LF] = "done" /\ Moves(k, "key")[CR] = "last"
      /\ Moves(k, "last")[LF] = "done"
  BY HeaderMoves
<1>5. Scan(k, At("key", <<>>, o, n), lf) = At("done", <<>>, o, n + 1)
  BY <1>2, <1>3, <1>4, ScanSkip
<1>6. Scan(k, At("key", <<>>, o, n), cr) = At("last", <<>>, o, n + 1)
  BY <1>2, <1>3, <1>4, ScanSkip
<1>7. Scan(k, At("last", <<>>, o, n + 1), lf) = At("done", <<>>, o, n + 2)
  <2>1. Scan(k, At("last", <<>>, o, n + 1), lf) = At("done", <<>>, o, (n + 1) + 1)
    BY <1>2, <1>3, <1>4, ScanSkip
  <2> QED BY <2>1
<1>8. cr \in Seq(Chars) /\ lf \in Seq(Chars) /\ Len(lf) = 1
  BY EolType
<1>9. CASE e = <<LF>>
  BY <1>5, <1>8, <1>9
<1>10. CASE e = <<CR, LF>>
  <2>1. e = cr \o lf /\ Len(e) = 2
    BY <1>10, Pair
  <2> HIDE DEF cr, lf
  <2> QED BY <1>6, <1>7, <1>8, <2>1, ScanThen
<1> QED BY <1>9, <1>10 DEF Eols

\* Two more elements.
LEMMA AppendPair ==
  ASSUME NEW S, NEW o \in Seq(S), NEW h \in Seq(S), Len(h) = 2
  PROVE  Append(Append(o, h[1]), h[2]) = o \o h
<1> DEFINE a == h[1]  b == h[2]  x == <<a>>  y == <<b>>  z == <<a, b>>
<1>1. a \in S /\ b \in S
  <2>1. 1 \in 1..Len(h) /\ 2 \in 1..Len(h)
    OBVIOUS
  <2> QED BY <2>1, ElementOfSeq
<1>2. h = z
  <2>1. z \in Seq(S) /\ Len(z) = 2 /\ z[1] = a /\ z[2] = b
    BY <1>1
  <2>2. \A i \in 1..2 : h[i] = z[i]
    BY <2>1
  <2> HIDE DEF z
  <2> QED BY <2>1, <2>2, SeqEqual
<1>3. z = x \o y /\ x \in Seq(S) /\ y \in Seq(S)
  BY <1>1, Pair
<1> HIDE DEF x, y, z, a, b
<1>4. Append(o, a) = o \o x /\ o \o x \in Seq(S)
  BY <1>1, <1>3, AppendIsConcat, ConcatProperties DEF x
<1> DEFINE p == o \o x
<1>5. p \in Seq(S) /\ Append(o, a) = p
  BY <1>4
<1> HIDE DEF p
<1>6. Append(p, b) = p \o y
  BY <1>1, <1>5, AppendIsConcat DEF y
<1>7. (o \o x) \o y = o \o (x \o y)
  BY <1>3, ConcatAssociative
<1> QED BY <1>2, <1>3, <1>5, <1>6, <1>7 DEF p, a, b

\* A character that begins a value.
LEMMA ScanFirstOfValue ==
  ASSUME NEW k \in Kinds, NEW o, NEW n, NEW c \in Chars \ {SP}
  PROVE  Scan(k, At("skip", <<>>, o, n), <<c>>) = At("value", <<c>>, o, n + 1)
<1>1. Moves(k, "skip")[c] = "value"
  BY HeaderMoves
<1>2. Fits(At("skip", <<>>, o, n), c) /\ <<"skip", "value">> \notin Keeps
  BY DEF Fits, At, Keeps
<1>3. Round(k, At("skip", <<>>, o, n), c) = At("value", <<c>>, o, n + 1)
  BY <1>1, <1>2 DEF Round, At
<1> QED BY <1>3, ScanOne

LEMMA ScanSpace ==
  ASSUME NEW k \in Kinds, NEW o, NEW n
  PROVE  Scan(k, At("skip", <<>>, o, n), <<SP>>) = At("skip", <<>>, o, n + 1)
<1>1. Moves(k, "skip")[SP] = "skip"
  BY HeaderMoves
<1>2. Fits(At("skip", <<>>, o, n), SP) /\ <<"skip", "skip">> \notin Keeps
  BY DEF Fits, At, Keeps
<1>3. Round(k, At("skip", <<>>, o, n), SP) = At("skip", <<>>, o, n + 1)
  BY <1>1, <1>2 DEF Round, At
<1> QED BY <1>3, ScanOne

\* A field that begins with its first character.
LEMMA ScanWhole ==
  ASSUME NEW k, NEW st, NEW C, NEW o \in Seq(Seq(Chars)), NEW n \in Nat,
         NEW w \in Seq(C), Takes(k, st, C, Len(w))
  PROVE  Scan(k, At(st, <<>>, o, n), w) = At(st, w, o, n + Len(w))
<1> DEFINE f == <<>>
<1>1. f \in Seq(Chars) /\ Len(f) = 0 /\ f \o w = w /\ Len(w) \in Nat
  BY ConcatEmptySeq, LenProperties
<1> HIDE DEF f
<1>2. Len(f) + Len(w) = Len(w)
  BY <1>1
<1>3. Scan(k, At(st, f, o, n), w) = At(st, f \o w, o, n + Len(w))
  <2>1. Takes(k, st, C, Len(f) + Len(w))
    BY <1>2
  <2>2. f \in Seq(Chars)
    BY <1>1
  <2> QED BY <2>1, <2>2, ScanField
<1> QED BY <1>1, <1>3 DEF f

LEMMA HeaderTakes ==
  ASSUME NEW k \in Kinds, NEW m \in Nat
  PROVE  /\ m <= MaxKey + 1 => Takes(k, "key", KeyChars, m)
         /\ k = "response" => Takes(k, "first", KeyChars, m)
         /\ Takes(k, "value", Printable, m)
<1>1. KeyChars \subseteq Chars /\ Printable \subseteq Chars
  BY DEF Chars, Printable
<1>2. \A c \in KeyChars : c \notin {CR, LF} /\ c # "."
  BY DEF KeyChars, Digits, CR, LF
<1>3. ASSUME m <= MaxKey + 1 PROVE Takes(k, "key", KeyChars, m)
  <2>1. ASSUME NEW g \in Seq(Chars), NEW o \in Seq(Seq(Chars)), NEW c \in KeyChars,
               NEW i \in Nat, Len(g) < m
        PROVE  Fits(At("key", g, o, i), c)
    <3>1. Len(g) <= MaxKey
      BY <1>3, <2>1, HeadAssumption, LenProperties
    <3> QED BY <1>2, <3>1 DEF Fits, At
  <2> QED BY <1>1, <2>1, FieldMoves DEF Takes
<1>4. ASSUME k = "response" PROVE Takes(k, "first", KeyChars, m)
  <2>1. ASSUME NEW g \in Seq(Chars), NEW o \in Seq(Seq(Chars)), NEW c \in KeyChars,
               NEW i \in Nat, Len(g) < m
        PROVE  Fits(At("first", g, o, i), c)
    BY <1>2 DEF Fits, At
  <2> QED BY <1>1, <1>4, <2>1, FieldMoves DEF Takes
<1>5. Takes(k, "value", Printable, m)
  <2>1. ASSUME NEW g \in Seq(Chars), NEW o \in Seq(Seq(Chars)), NEW c \in Printable,
               NEW i \in Nat, Len(g) < m
        PROVE  Fits(At("value", g, o, i), c)
    BY DEF Fits, At
  <2> QED BY <1>1, <2>1, FieldMoves DEF Takes
<1> QED BY <1>3, <1>4, <1>5

\* The name of a header, at the beginning of a line or of a CGI program's output.
LEMMA ScanName ==
  ASSUME NEW k \in Kinds, NEW st \in {"key", "first"}, st = "first" => k = "response",
         NEW o \in Seq(Seq(Chars)), NEW n \in Nat,
         NEW w \in Seq(KeyChars), Len(w) <= MaxKey + 1
  PROVE  /\ w \in Seq(Chars) /\ w \o <<":", SP>> \in Seq(Chars)
         /\ Len(w \o <<":", SP>>) = Len(w) + 2
         /\ Scan(k, At(st, <<>>, o, n), w \o <<":", SP>>) =
              At("skip", <<>>, Append(o, w), n + Len(w) + 2)
<1> DEFINE x == <<":">>  y == <<SP>>  z == <<":", SP>>  m == n + Len(w)
           q == Append(o, w)
<1>1. /\ x \in Seq(Chars) /\ y \in Seq(Chars) /\ z \in Seq(Chars) /\ Len(z) = 2
      /\ z = x \o y
  <2>1. ":" \in Chars /\ SP \in Chars
    BY DEF Chars, Printable
  <2>2. z = x \o y
    BY Pair
  <2>3. x \in Seq(Chars) /\ Len(x) = 1 /\ y \in Seq(Chars) /\ Len(y) = 1
    BY <2>1, Single
  <2> HIDE DEF x, y, z
  <2>4. x \o y \in Seq(Chars) /\ Len(x \o y) = 2
    BY <2>3, ConcatProperties
  <2> QED BY <2>2, <2>3, <2>4
<1>2. w \in Seq(Chars) /\ Len(w) \in Nat
  <2>1. KeyChars \subseteq Chars
    BY DEF Chars, Printable
  <2> QED BY <2>1, SeqMonotonic, LenProperties
<1>3. Scan(k, At(st, <<>>, o, n), w) = At(st, w, o, m)
  <2>1. Takes(k, st, KeyChars, Len(w))
    BY <1>2, HeaderTakes
  <2> QED BY <2>1, ScanWhole
<1> HIDE DEF m
<1>4. Scan(k, At(st, w, o, m), x) = At("skip", <<>>, q, m + 1)
  <2>1. Moves(k, st)[":"] = "skip"
    BY HeaderMoves, FirstLineMoves
  <2>2. Fits(At(st, w, o, m), ":")
    BY DEF Fits, At, KeyChars, Digits, CR, LF
  <2>3. <<st, "skip">> \in Keeps
    BY DEF Keeps
  <2> QED BY <2>1, <2>2, <2>3, ScanKeep
<1> HIDE DEF q
<1>5. Scan(k, At("skip", <<>>, q, m + 1), y) = At("skip", <<>>, q, m + 2)
  <2>1. (m + 1) + 1 = m + 2
    BY <1>2 DEF m
  <2>2. Scan(k, At("skip", <<>>, q, m + 1), y) = At("skip", <<>>, q, (m + 1) + 1)
    BY ScanSpace
  <2> QED BY <2>1, <2>2
<1> HIDE DEF x, y, z
<1>6. Scan(k, At(st, w, o, m), x \o y) = At("skip", <<>>, q, m + 2)
  <2>1. Scan(k, At(st, w, o, m), x \o y) = Scan(k, At("skip", <<>>, q, m + 1), y)
    BY <1>1, <1>4, ScanThen
  <2> QED BY <1>5, <2>1
<1>7. Scan(k, At(st, <<>>, o, n), w \o z) = At("skip", <<>>, q, m + 2)
  <2>1. Scan(k, At(st, <<>>, o, n), w \o z) = Scan(k, At(st, w, o, m), z)
    <3>1. w \in Seq(Chars) /\ z \in Seq(Chars)
      BY <1>1, <1>2
    <3> QED BY <1>3, <3>1, ScanThen
  <2> QED BY <1>1, <1>6, <2>1
<1>8. w \o z \in Seq(Chars) /\ Len(w \o z) = Len(w) + 2
  BY <1>1, <1>2, ConcatProperties
<1> QED BY <1>2, <1>7, <1>8 DEF z, q, m

\* A sequence is its first element and the others.
LEMMA HeadTail ==
  ASSUME NEW S, NEW v \in Seq(S), v # <<>>
  PROVE  /\ <<Head(v)>> \o Tail(v) = v /\ Head(v) \in S /\ Tail(v) \in Seq(S)
         /\ Len(v) = Len(Tail(v)) + 1 /\ Len(Tail(v)) \in Nat
<1> DEFINE c == Head(v)  w == Tail(v)  x == <<c>>  z == x \o w
<1>1. c \in S /\ w \in Seq(S) /\ Len(w) = Len(v) - 1 /\ \A i \in 1..Len(w) : w[i] = v[i + 1]
  BY HeadTailProperties
<1>2. x \in Seq(S) /\ Len(x) = 1 /\ x[1] = v[1]
  BY <1>1
<1> HIDE DEF c, w
<1>3. Len(w) \in Nat /\ Len(v) \in Nat
  BY <1>1, LenProperties
<1> HIDE DEF x
<1>4. /\ z \in Seq(S) /\ Len(z) = 1 + Len(w)
      /\ \A i \in 1..(1 + Len(w)) : z[i] = IF i <= 1 THEN x[i] ELSE w[i - 1]
  <2>1. /\ z \in Seq(S) /\ Len(z) = Len(x) + Len(w)
        /\ \A i \in 1..(Len(x) + Len(w)) : z[i] = IF i <= Len(x) THEN x[i] ELSE w[i - Len(x)]
    <3>1. x \in Seq(S) /\ w \in Seq(S)
      BY <1>1, <1>2
    <3> QED BY <3>1, ConcatProperties
  <2> HIDE DEF z
  <2> QED BY <1>2, <2>1
<1> HIDE DEF z
<1>5. ASSUME NEW i \in 1..Len(z) PROVE z[i] = v[i]
  <2>1. CASE i = 1
    BY <1>2, <1>3, <1>4, <2>1
  <2>2. CASE i # 1
    <3>1. i \in Nat /\ i >= 2 /\ i <= 1 + Len(w)
      BY <1>3, <1>4, <2>2
    <3>2. i - 1 \in 1..Len(w) /\ (i - 1) + 1 = i
      BY <1>3, <3>1
    <3>3. z[i] = w[i - 1]
      BY <1>3, <1>4, <3>1
    <3>4. w[i - 1] = v[(i - 1) + 1]
      BY <1>1, <3>2
    <3> QED BY <3>2, <3>3, <3>4
  <2> QED BY <2>1, <2>2
<1>6. z = v
  <2>1. Len(z) = Len(v)
    BY <1>1, <1>3, <1>4
  <2> QED BY <1>4, <1>5, <2>1, SeqEqual
<1>7. Len(v) = Len(w) + 1
  BY <1>1, <1>3
<1> QED BY <1>1, <1>3, <1>6, <1>7 DEF z, x, c, w

\* The value of a header.
LEMMA ScanValue ==
  ASSUME NEW k \in Kinds, NEW o \in Seq(Seq(Chars)), NEW n \in Nat,
         NEW c, c \in Chars /\ c # SP, NEW w \in Seq(Printable)
  PROVE  Scan(k, At("skip", <<>>, o, n), <<c>> \o w) =
           At("value", <<c>> \o w, o, n + Len(w) + 1)
<1> DEFINE x == <<c>>  m == n + 1
<1>1. w \in Seq(Chars) /\ Len(w) \in Nat
  <2>1. Printable \subseteq Chars
    BY DEF Chars
  <2> QED BY <2>1, SeqMonotonic, LenProperties
<1>2. x \in Seq(Chars) /\ Len(x) = 1
  BY Single
<1>3. Scan(k, At("skip", <<>>, o, n), x) = At("value", x, o, m)
  BY ScanFirstOfValue
<1> HIDE DEF x
<1>4. Len(x) + Len(w) \in Nat /\ m \in Nat /\ m + Len(w) = n + Len(w) + 1
  <2>1. Len(x) = 1
    BY <1>2
  <2>2. Len(w) \in Nat
    BY <1>1
  <2>3. m \in Nat
    OBVIOUS
  <2>4. Len(x) + Len(w) \in Nat
    BY <2>1, <2>2
  <2>5. m + Len(w) = n + Len(w) + 1
    BY <2>2
  <2> QED BY <2>3, <2>4, <2>5
<1>5. Scan(k, At("value", x, o, m), w) = At("value", x \o w, o, m + Len(w))
  <2>1. Takes(k, "value", Printable, Len(x) + Len(w))
    BY <1>4, HeaderTakes
  <2>2. x \in Seq(Chars) /\ w \in Seq(Printable)
    BY <1>2
  <2> HIDE DEF m
  <2> QED BY <1>4, <2>1, <2>2, ScanField
<1> HIDE DEF m
<1>6. Scan(k, At("skip", <<>>, o, n), x \o w) = Scan(k, At("value", x, o, m), w)
  <2>1. x \in Seq(Chars) /\ w \in Seq(Chars)
    BY <1>1, <1>2
  <2> QED BY <1>3, <2>1, ScanThen
<1>7. Scan(k, At("skip", <<>>, o, n), x \o w) = At("value", x \o w, o, n + Len(w) + 1)
  BY <1>4, <1>5, <1>6
<1> QED BY <1>7 DEF x

\* A header line: its name and its value are kept.
HeaderLine(h, e) == Line(h[1], h[2], e)

ReadsHeader(k, st, o, n, h, e) ==
  /\ HeaderLine(h, e) \in Seq(Chars)
  /\ Scan(k, At(st, <<>>, o, n), HeaderLine(h, e)) =
       At("key", <<>>, o \o h, n + Len(HeaderLine(h, e)))

LEMMA ScanHeader ==
  ASSUME NEW k \in Kinds, NEW st \in {"key", "first"}, st = "first" => k = "response",
         NEW o \in Seq(Seq(Chars)), NEW n \in Nat, NEW h \in Seq(Seq(Chars)), IsHeader(h),
         NEW e \in Eols
  PROVE  ReadsHeader(k, st, o, n, h, e)
<1> DEFINE w == h[1]  v == h[2]  x == w \o <<":", SP>>  y == x \o v  z == y \o e
           p == Append(o, w)  q == Append(p, v)
           m == n + Len(w) + 2  i == m + Len(v)  j == i + Len(e)
           r0 == At(st, <<>>, o, n)
<1>1. /\ w \in Seq(KeyChars) /\ Len(w) <= MaxKey + 1 /\ w \in Seq(Chars)
      /\ v \in Seq(Chars) /\ v # <<>> /\ Head(v) \in Chars \ {SP}
      /\ Tail(v) \in Seq(Printable)
  <2>1. Len(h) = 2
    BY DEF IsHeader
  <2>2. 1 \in 1..Len(h) /\ 2 \in 1..Len(h)
    BY <2>1
  <2>3. h[1] \in Seq(Chars) /\ h[2] \in Seq(Chars)
    BY <2>2, ElementOfSeq
  <2> QED BY <2>3 DEF IsHeader
<1>2. q = o \o h
  <2>1. Len(h) = 2
    BY DEF IsHeader
  <2> QED BY <2>1, AppendPair
<1>3. z = HeaderLine(h, e)
  BY DEF HeaderLine, Line
<1> HIDE DEF w, v
<1>4. p \in Seq(Seq(Chars)) /\ q \in Seq(Seq(Chars))
  BY <1>1, AppendProperties
<1>5. /\ Len(v) \in Nat /\ Len(w) \in Nat /\ e \in Seq(Chars) /\ Len(e) \in Nat
      /\ m \in Nat /\ i \in Nat
  <2>1. Len(v) \in Nat /\ Len(w) \in Nat
    BY <1>1, LenProperties
  <2> QED BY <2>1, EolType
<1>6. /\ x \in Seq(Chars) /\ Len(x) = Len(w) + 2
      /\ Scan(k, r0, x) = At("skip", <<>>, p, m)
  <2>1. w \in Seq(KeyChars) /\ Len(w) <= MaxKey + 1
    BY <1>1
  <2> QED BY <2>1, ScanName
<1> HIDE DEF x, p, m
<1>7. Scan(k, At("skip", <<>>, p, m), v) = At("value", v, p, i)
  <2> DEFINE c == Head(v)  t == Tail(v)  f == <<c>>
  <2>1. f \o t = v
    BY <1>1, HeadTail
  <2>2. Len(v) = Len(t) + 1 /\ Len(t) \in Nat
    BY <1>1, HeadTail
  <2>3. c \in Chars \ {SP} /\ t \in Seq(Printable)
    BY <1>1
  <2> HIDE DEF c, t
  <2>4. Scan(k, At("skip", <<>>, p, m), f \o t) = At("value", f \o t, p, m + Len(t) + 1)
    BY <1>4, <1>5, <2>3, ScanValue
  <2>5. m + Len(t) + 1 = i
    BY <1>5, <2>2
  <2> HIDE DEF f, i
  <2> QED BY <2>1, <2>4, <2>5
<1> HIDE DEF i
<1>8. Scan(k, At("value", v, p, i), e) = At("key", <<>>, q, j)
  <2>1. Moves(k, "value")[CR] = "eol" /\ Moves(k, "value")[LF] = "key"
    BY HeaderMoves
  <2> DEFINE s == "value"
  <2>2. s \in {"value", "minor", "reason"}
        /\ Moves(k, s)[CR] = "eol" /\ Moves(k, s)[LF] = "key"
    BY <2>1
  <2> HIDE DEF s
  <2>3. Scan(k, At(s, v, p, i), e) =
          At("key", <<>>, IF s = "value" THEN Append(p, v) ELSE p, i + Len(e))
    BY <1>5, <2>2, ScanEol
  <2> QED BY <2>3 DEF s
<1> HIDE DEF j, q, r0
<1>9. y \in Seq(Chars) /\ Len(y) = Len(x) + Len(v)
  BY <1>1, <1>6, ConcatProperties
<1>10. Scan(k, r0, y) = At("value", v, p, i)
  <2>1. Scan(k, r0, y) = Scan(k, At("skip", <<>>, p, m), v)
    <3>1. x \in Seq(Chars) /\ v \in Seq(Chars)
      BY <1>1, <1>6
    <3> QED BY <1>6, <3>1, ScanThen
  <2> QED BY <1>7, <2>1
<1> HIDE DEF y
<1>11. z \in Seq(Chars) /\ Len(z) = Len(y) + Len(e)
  BY <1>5, <1>9, ConcatProperties
<1>12. Scan(k, r0, z) = At("key", <<>>, q, j)
  <2>1. Scan(k, r0, z) = Scan(k, At("value", v, p, i), e)
    BY <1>5, <1>9, <1>10, ScanThen
  <2> QED BY <1>8, <2>1
<1> HIDE DEF z
<1>13. j = n + Len(z)
  BY <1>5, <1>6, <1>9, <1>11 DEF j, i, m
<1> QED BY <1>2, <1>3, <1>11, <1>12, <1>13 DEF r0, ReadsHeader

\* The lines of headers hs.
Heads(hs, e, lines) ==
  /\ \A i \in 1..Len(hs) : IsHeader(hs[i])
  /\ lines = [i \in DOMAIN hs |-> Line(hs[i][1], hs[i][2], e)]

\* Header lines, one after another.
LEMMA ScanHeaders ==
  ASSUME NEW k \in Kinds, NEW st \in {"key", "first"}, st = "first" => k = "response",
         NEW o \in Seq(Seq(Chars)), NEW n \in Nat,
         NEW hs \in Seq(Seq(Seq(Chars))), NEW e \in Eols, NEW lines, Heads(hs, e, lines)
  PROVE  /\ FlattenSeq(lines) \in Seq(Chars) /\ FlattenSeq(hs) \in Seq(Seq(Chars))
         /\ Scan(k, At(st, <<>>, o, n), FlattenSeq(lines)) =
              At(IF hs = <<>> THEN st ELSE "key", <<>>, o \o FlattenSeq(hs),
                 n + Len(FlattenSeq(lines)))
<1> DEFINE L(i) == Line(hs[i][1], hs[i][2], e)
           F(m) == [i \in 1..m |-> L(i)]  G(m) == [i \in 1..m |-> hs[i]]
           P(m) == /\ FlattenSeq(F(m)) \in Seq(Chars)
                   /\ FlattenSeq(G(m)) \in Seq(Seq(Chars))
                   /\ Scan(k, At(st, <<>>, o, n), FlattenSeq(F(m))) =
                        At(IF m = 0 THEN st ELSE "key", <<>>, o \o FlattenSeq(G(m)),
                           n + Len(FlattenSeq(F(m))))
           N == {m \in Nat : m <= Len(hs) => P(m)}
<1>1. Len(hs) \in Nat /\ DOMAIN hs = 1..Len(hs) /\ \A i \in 1..Len(hs) : hs[i] \in Seq(Seq(Chars))
  BY LenProperties, ElementOfSeq
<1>2. ASSUME NEW i \in 1..Len(hs), NEW s \in {"key", "first"}, s = "first" => k = "response",
             NEW p \in Seq(Seq(Chars)), NEW j \in Nat
      PROVE  /\ L(i) \in Seq(Chars)
             /\ Scan(k, At(s, <<>>, p, j), L(i)) =
                  At("key", <<>>, p \o hs[i], j + Len(L(i)))
  <2> DEFINE h == hs[i]  l == L(i)
  <2>1. h \in Seq(Seq(Chars)) /\ IsHeader(h) /\ l = HeaderLine(h, e)
    BY <1>1 DEF Heads, HeaderLine
  <2> HIDE DEF h, l
  <2>2. l \in Seq(Chars) /\ Scan(k, At(s, <<>>, p, j), l) = At("key", <<>>, p \o h, j + Len(l))
    <3>1. s = "first" => k = "response"
      BY <1>2
    <3>2. h \in Seq(Seq(Chars)) /\ IsHeader(h)
      BY <2>1
    <3>3. ReadsHeader(k, s, p, j, h, e)
      BY <3>1, <3>2, ScanHeader
    <3> QED BY <2>1, <3>3 DEF ReadsHeader
  <2> QED BY <2>2 DEF h, l
<1>3. \A i \in 1..Len(hs) : L(i) \in Seq(Chars)
  <2>1. "key" \in {"key", "first"} /\ <<>> \in Seq(Seq(Chars)) /\ 0 \in Nat
    OBVIOUS
  <2> HIDE DEF L
  <2> QED BY <1>2, <2>1
<1> HIDE DEF L
<1>4. ASSUME NEW m \in Nat, m <= Len(hs)
      PROVE  F(m) \in Seq(Seq(Chars)) /\ G(m) \in Seq(Seq(Seq(Chars)))
  <2>1. \A i \in 1..m : i \in 1..Len(hs)
    BY <1>1, <1>4
  <2>2. \A i \in 1..m : L(i) \in Seq(Chars)
    BY <1>3, <2>1
  <2>3. \A i \in 1..m : hs[i] \in Seq(Seq(Chars))
    BY <1>1, <2>1
  <2>4. F(m) \in Seq(Seq(Chars))
    <3> DEFINE T == Seq(Chars)
    <3>1. \A i \in 1..m : L(i) \in T
      BY <2>2
    <3> HIDE DEF T
    <3>2. F(m) \in Seq(T)
      BY <3>1
    <3> QED BY <3>2 DEF T
  <2>5. G(m) \in Seq(Seq(Seq(Chars)))
    <3> DEFINE T == Seq(Seq(Chars))
    <3>1. \A i \in 1..m : hs[i] \in T
      BY <2>3
    <3> HIDE DEF T
    <3>2. G(m) \in Seq(T)
      BY <3>1
    <3> QED BY <3>2 DEF T
  <2> QED BY <2>4, <2>5
<1>5. 0 \in N
  <2>1. F(0) = <<>> /\ G(0) = <<>>
    OBVIOUS
  <2>2. FlattenSeq(<<>>) = <<>>
    BY FlattenEmpty
  <2>3. /\ <<>> \in Seq(Chars) /\ <<>> \in Seq(Seq(Chars)) /\ o \o <<>> = o
        /\ n + Len(<<>>) = n
    BY ConcatEmptySeq
  <2>4. P(0)
    <3> HIDE DEF F, G
    <3> QED BY <2>1, <2>2, <2>3, ScanEmpty
  <2> QED BY <2>4
<1>6. ASSUME NEW m \in N PROVE m + 1 \in N
  <2> SUFFICES ASSUME m + 1 <= Len(hs) PROVE P(m + 1)
    OBVIOUS
  <2> DEFINE u == m + 1  a == FlattenSeq(F(m))  b == FlattenSeq(G(m))
             s == IF m = 0 THEN st ELSE "key"
  <2>1. m \in Nat /\ u \in 1..Len(hs) /\ m <= Len(hs) /\ u # 0
    BY <1>1
  <2>2. /\ a \in Seq(Chars) /\ b \in Seq(Seq(Chars))
        /\ Scan(k, At(st, <<>>, o, n), a) = At(s, <<>>, o \o b, n + Len(a))
    BY <2>1
  <2>3. FlattenSeq(F(u)) = a \o L(u)
    <3>1. Len(F(u)) = Len(F(m)) + 1 /\ \A i \in 1..Len(F(m)) : F(u)[i] = F(m)[i]
      BY <2>1
    <3>2. F(u)[Len(F(u))] = L(u)
      BY <2>1
    <3>3. F(m) \in Seq(Seq(Chars)) /\ F(u) \in Seq(Seq(Chars))
      <4>1. u \in Nat /\ u <= Len(hs)
        BY <1>1, <2>1
      <4> HIDE DEF F, u
      <4> QED BY <1>4, <2>1, <4>1
    <3> HIDE DEF F, u
    <3> QED BY <3>1, <3>2, <3>3, FlattenNext
  <2>4. FlattenSeq(G(u)) = b \o hs[u]
    <3>1. Len(G(u)) = Len(G(m)) + 1 /\ \A i \in 1..Len(G(m)) : G(u)[i] = G(m)[i]
      BY <2>1
    <3>2. G(u)[Len(G(u))] = hs[u]
      <4>1. Len(G(u)) = u /\ u \in 1..u
        BY <2>1
      <4> HIDE DEF u
      <4>2. G(u)[u] = hs[u]
        BY <4>1
      <4> HIDE DEF G
      <4> QED BY <4>1, <4>2
    <3>3. G(m) \in Seq(Seq(Seq(Chars))) /\ G(u) \in Seq(Seq(Seq(Chars)))
      <4>1. u \in Nat /\ u <= Len(hs)
        BY <1>1, <2>1
      <4> HIDE DEF G, u
      <4> QED BY <1>4, <2>1, <4>1
    <3> HIDE DEF G, u
    <3> QED BY <3>1, <3>2, <3>3, FlattenNext
  <2> DEFINE l == L(u)  h == hs[u]  p == o \o b  j == n + Len(a)
  <2>5. /\ s \in {"key", "first"} /\ (s = "first" => k = "response")
        /\ p \in Seq(Seq(Chars)) /\ j \in Nat
    <3>1. Len(a) \in Nat
      BY <2>2, LenProperties
    <3>2. p \in Seq(Seq(Chars))
      BY <2>2, ConcatProperties
    <3> QED BY <3>1, <3>2
  <2> HIDE DEF s, a, b, u, p, j
  <2>6. l \in Seq(Chars) /\ Scan(k, At(s, <<>>, p, j), l) = At("key", <<>>, p \o h, j + Len(l))
    <3>1. /\ L(u) \in Seq(Chars)
          /\ Scan(k, At(s, <<>>, p, j), L(u)) = At("key", <<>>, p \o hs[u], j + Len(L(u)))
      <4>1. u \in 1..Len(hs) /\ s \in {"key", "first"} /\ (s = "first" => k = "response")
            /\ p \in Seq(Seq(Chars)) /\ j \in Nat
        BY <2>1, <2>5
      <4> QED BY <1>2, <4>1, Zenon
    <3> QED BY <3>1
  <2>7. h \in Seq(Seq(Chars))
    BY <1>1, <2>1
  <2> HIDE DEF l, h
  <2>8. a \o l \in Seq(Chars) /\ Len(a \o l) = Len(a) + Len(l) /\ b \o h \in Seq(Seq(Chars))
    BY <2>2, <2>6, <2>7, ConcatProperties
  <2>9. Scan(k, At(st, <<>>, o, n), a \o l) = At("key", <<>>, p \o h, j + Len(l))
    <3>1. Scan(k, At(st, <<>>, o, n), a) = At(s, <<>>, p, j)
      BY <2>2 DEF p, j
    <3>2. a \in Seq(Chars) /\ l \in Seq(Chars)
      BY <2>2, <2>6
    <3>3. Scan(k, At(st, <<>>, o, n), a \o l) = Scan(k, At(s, <<>>, p, j), l)
      BY <3>1, <3>2, ScanThen
    <3> QED BY <2>6, <3>3
  <2>10. p \o h = o \o (b \o h)
    <3>1. b \in Seq(Seq(Chars)) /\ h \in Seq(Seq(Chars))
      BY <2>2, <2>7
    <3>2. (o \o b) \o h = o \o (b \o h)
      <4> DEFINE T == Seq(Chars)
      <4>1. o \in Seq(T) /\ b \in Seq(T) /\ h \in Seq(T)
        BY <3>1
      <4> HIDE DEF T, N
      <4> QED BY <4>1, ConcatAssociative
    <3> QED BY <3>2 DEF p
  <2>11. j + Len(l) = n + Len(a \o l)
    <3>1. Len(a) \in Nat /\ Len(l) \in Nat
      BY <2>2, <2>6, LenProperties
    <3> QED BY <2>8, <3>1 DEF j
  <2>12. FlattenSeq(F(u)) = a \o l /\ FlattenSeq(G(u)) = b \o h
    BY <2>3, <2>4 DEF l, h
  <2>13. P(u)
    <3> HIDE DEF F, G
    <3> QED BY <2>1, <2>8, <2>9, <2>10, <2>11, <2>12
  <2> QED BY <2>13 DEF u
<1>7. N = Nat
  <2>1. N \in SUBSET Nat
    OBVIOUS
  <2> HIDE DEF N
  <2> QED BY <1>5, <1>6, <2>1, SetInduction
<1>8. P(Len(hs))
  <2> HIDE DEF P
  <2>1. \A m \in Nat : m <= Len(hs) => P(m)
    BY <1>7
  <2> QED BY <1>1, <2>1
<1>9. F(Len(hs)) = lines /\ G(Len(hs)) = hs
  <2>1. F(Len(hs)) = lines
    BY <1>1 DEF L, Heads
  <2>2. G(Len(hs)) = hs
    BY <1>1
  <2> QED BY <2>1, <2>2
<1>10. Len(hs) = 0 <=> hs = <<>>
  BY EmptySeq
<1> HIDE DEF F, G
<1> QED BY <1>8, <1>9, <1>10

-----------------------------------------------------------------------------
(* Whole heads.                                                            *)

\* Over w, wherever it begins, the scan goes from state st, having read f of a
\* field and kept o, to state st2, having read g and kept p.
Reads(k, st, f, o, w, st2, g, p) ==
  /\ w \in Seq(Chars)
  /\ \A n \in Nat : Scan(k, At(st, f, o, n), w) = At(st2, g, p, n + Len(w))

LEMMA ReadsThen ==
  ASSUME NEW k, NEW st, NEW f, NEW o, NEW w, NEW st2, NEW g, NEW p, NEW v,
         NEW st3, NEW h, NEW q,
         Reads(k, st, f, o, w, st2, g, p), Reads(k, st2, g, p, v, st3, h, q)
  PROVE  Reads(k, st, f, o, w \o v, st3, h, q)
<1>1. w \in Seq(Chars) /\ v \in Seq(Chars) /\ Len(w) \in Nat /\ Len(v) \in Nat
  BY LenProperties DEF Reads
<1>2. w \o v \in Seq(Chars) /\ Len(w \o v) = Len(w) + Len(v)
  BY <1>1, ConcatProperties
<1>3. ASSUME NEW n \in Nat
      PROVE  Scan(k, At(st, f, o, n), w \o v) = At(st3, h, q, n + Len(w \o v))
  <2> DEFINE m == n + Len(w)
  <2>1. m \in Nat /\ m + Len(v) = n + Len(w \o v)
    BY <1>1, <1>2
  <2>2. Scan(k, At(st, f, o, n), w) = At(st2, g, p, m)
    BY DEF Reads
  <2> HIDE DEF m
  <2>3. Scan(k, At(st2, g, p, m), v) = At(st3, h, q, m + Len(v))
    BY <2>1 DEF Reads
  <2>4. Scan(k, At(st, f, o, n), w \o v) = Scan(k, At(st2, g, p, m), v)
    BY <1>1, <2>2, ScanThen
  <2> QED BY <2>1, <2>3, <2>4
<1> QED BY <1>2, <1>3 DEF Reads

LEMMA ReadsKeep ==
  ASSUME NEW k, NEW st, NEW f, NEW o, NEW c \in Chars, NEW to, to # st,
         to \notin {"bad", "value"}, st \notin {"done", "bad"}, Moves(k, st)[c] = to,
         \A n \in Nat : Fits(At(st, f, o, n), c), <<st, to>> \in Keeps
  PROVE  Reads(k, st, f, o, <<c>>, to, <<>>, Append(o, f))
<1> DEFINE x == <<c>>
<1>1. x \in Seq(Chars) /\ Len(x) = 1
  BY Single
<1>2. ASSUME NEW n \in Nat PROVE Scan(k, At(st, f, o, n), x) = At(to, <<>>, Append(o, f), n + 1)
  BY ScanKeep
<1> HIDE DEF x
<1>3. Reads(k, st, f, o, x, to, <<>>, Append(o, f))
  BY <1>1, <1>2 DEF Reads
<1> QED BY <1>3 DEF x

LEMMA ReadsSkip ==
  ASSUME NEW k, NEW st, NEW f, NEW o, NEW c \in Chars, NEW to, to # st,
         to \notin {"bad", "value"}, st \notin {"done", "bad"}, Moves(k, st)[c] = to,
         \A n \in Nat : Fits(At(st, f, o, n), c), <<st, to>> \notin Keeps
  PROVE  Reads(k, st, f, o, <<c>>, to, <<>>, o)
<1> DEFINE x == <<c>>
<1>1. x \in Seq(Chars) /\ Len(x) = 1
  BY Single
<1>2. ASSUME NEW n \in Nat PROVE Scan(k, At(st, f, o, n), x) = At(to, <<>>, o, n + 1)
  BY ScanSkip
<1> HIDE DEF x
<1>3. Reads(k, st, f, o, x, to, <<>>, o)
  BY <1>1, <1>2 DEF Reads
<1> QED BY <1>3 DEF x

LEMMA ReadsField ==
  ASSUME NEW k, NEW st, NEW C, NEW o \in Seq(Seq(Chars)), NEW w \in Seq(C),
         Takes(k, st, C, Len(w))
  PROVE  Reads(k, st, <<>>, o, w, st, w, o)
<1>1. w \in Seq(Chars)
  <2>1. C \subseteq Chars
    BY DEF Takes
  <2> QED BY <2>1, SeqMonotonic
<1>2. \A n \in Nat : Scan(k, At(st, <<>>, o, n), w) = At(st, w, o, n + Len(w))
  BY ScanWhole
<1> QED BY <1>1, <1>2 DEF Reads

LEMMA ReadsEol ==
  ASSUME NEW k \in Kinds, NEW st \in {"minor", "reason"},
         Moves(k, st)[CR] = "eol", Moves(k, st)[LF] = "key", NEW f, NEW o, NEW e \in Eols
  PROVE  Reads(k, st, f, o, e, "key", <<>>, o)
<1>1. e \in Seq(Chars)
  BY EolType
<1>2. ASSUME NEW n \in Nat PROVE Scan(k, At(st, f, o, n), e) = At("key", <<>>, o, n + Len(e))
  <2>1. st \in {"value", "minor", "reason"} /\ st # "value"
    OBVIOUS
  <2>2. Scan(k, At(st, f, o, n), e) =
          At("key", <<>>, IF st = "value" THEN Append(o, f) ELSE o, n + Len(e))
    BY <2>1, ScanEol
  <2> QED BY <2>1, <2>2
<1> QED BY <1>1, <1>2 DEF Reads

LEMMA ReadsLast ==
  ASSUME NEW k \in Kinds, NEW o, NEW e \in Eols
  PROVE  Reads(k, "key", <<>>, o, e, "done", <<>>, o)
BY EolType, ScanLast DEF Reads

LEMMA ReadsHeaders ==
  ASSUME NEW k \in Kinds, NEW st \in {"key", "first"}, st = "first" => k = "response",
         NEW o \in Seq(Seq(Chars)), NEW hs \in Seq(Seq(Seq(Chars))), NEW e \in Eols,
         NEW lines, Heads(hs, e, lines), st = "first" => hs # <<>>
  PROVE  Reads(k, st, <<>>, o, FlattenSeq(lines), "key", <<>>, o \o FlattenSeq(hs))
<1> DEFINE w == FlattenSeq(lines)  p == o \o FlattenSeq(hs)
<1>1. ASSUME NEW n \in Nat
      PROVE  /\ w \in Seq(Chars)
             /\ Scan(k, At(st, <<>>, o, n), w) = At("key", <<>>, p, n + Len(w))
  <2>1. /\ w \in Seq(Chars)
        /\ Scan(k, At(st, <<>>, o, n), w) =
             At(IF hs = <<>> THEN st ELSE "key", <<>>, p, n + Len(w))
    BY ScanHeaders
  <2>2. (IF hs = <<>> THEN st ELSE "key") = "key"
    OBVIOUS
  <2> QED BY <2>1, <2>2
<1>2. w \in Seq(Chars)
  <2>1. 0 \in Nat
    OBVIOUS
  <2> QED BY <1>1, <2>1
<1> HIDE DEF w, p
<1>3. Reads(k, st, <<>>, o, w, "key", <<>>, p)
  BY <1>1, <1>2 DEF Reads
<1> QED BY <1>3 DEF w, p

\* One element more at the end.
LEMMA Longer ==
  ASSUME NEW S, NEW t \in Seq(S), NEW z \in Seq(S), Len(z) = Len(t) + 1,
         \A i \in 1..Len(t) : z[i] = t[i], NEW c, z[Len(z)] = c
  PROVE  z = t \o <<c>>
<1> DEFINE y == Append(t, c)
<1>1. Len(t) \in Nat
  BY LenProperties
<1>2. c \in S
  <2>1. Len(z) \in 1..Len(z)
    BY <1>1
  <2> QED BY <2>1, ElementOfSeq
<1>3. y \in Seq(S) /\ Len(y) = Len(t) + 1 /\ y[Len(t) + 1] = c
      /\ \A i \in 1..Len(t) : y[i] = t[i]
  BY <1>2, AppendProperties
<1>4. y = t \o <<c>>
  BY <1>2, AppendIsConcat
<1> HIDE DEF y
<1>5. \A i \in 1..Len(z) : z[i] = y[i]
  BY <1>1, <1>3
<1>6. z = y
  BY <1>3, <1>5, SeqEqual
<1> QED BY <1>4, <1>6

\* Four in a row, at once and one by one.
Row(a, b, c, d) == <<a, b, c, d>>
OneByOne(a, b, c, d) == ((<<a>> \o <<b>>) \o <<c>>) \o <<d>>

LEMMA Quad ==
  ASSUME NEW a \in Chars, NEW b \in Chars, NEW c \in Chars, NEW d \in Chars
  PROVE  Row(a, b, c, d) = OneByOne(a, b, c, d)
<1> DEFINE x == <<a, b>>  y == <<a, b, c>>  z == <<a, b, c, d>>
           u == <<c>>  v == <<d>>  w == <<a>> \o <<b>>
<1>1. x = w
  BY Pair
<1> HIDE DEF w
<1>2. x \in Seq(Chars) /\ Len(x) = 2 /\ x[1] = a /\ x[2] = b
  OBVIOUS
<1>3. y \in Seq(Chars) /\ Len(y) = 3 /\ y[1] = a /\ y[2] = b /\ y[3] = c
  OBVIOUS
<1>4. /\ z \in Seq(Chars) /\ Len(z) = 4
      /\ z[1] = a /\ z[2] = b /\ z[3] = c /\ z[4] = d
  OBVIOUS
<1> HIDE DEF x, y, z
<1>5. y = x \o u
  <2>1. \A i \in 1..Len(x) : y[i] = x[i]
    BY <1>2, <1>3
  <2>2. x \in Seq(Chars) /\ y \in Seq(Chars) /\ Len(y) = Len(x) + 1 /\ y[Len(y)] = c
    BY <1>2, <1>3
  <2> HIDE DEF u
  <2>3. y = x \o <<c>>
    BY <2>1, <2>2, Longer
  <2> QED BY <2>3 DEF u
<1>6. z = y \o v
  <2>1. \A i \in 1..Len(y) : z[i] = y[i]
    BY <1>3, <1>4
  <2>2. y \in Seq(Chars) /\ z \in Seq(Chars) /\ Len(z) = Len(y) + 1 /\ z[Len(z)] = d
    BY <1>3, <1>4
  <2> HIDE DEF v
  <2>3. z = y \o <<d>>
    BY <2>1, <2>2, Longer
  <2> QED BY <2>3 DEF v
<1> HIDE DEF u, v
<1>7. z = (w \o u) \o v
  BY <1>1, <1>5, <1>6
<1> QED BY <1>7, Zenon DEF z, w, u, v, Row, OneByOne

\* The tokens of a first line.
LEMMA FirstLineTakes ==
  /\ \A m \in Nat : Takes("request", "method", {"A"}, m)
  /\ \A m \in Nat : Takes("request", "resource", Printable \ {SP}, m)
  /\ Takes("request", "version", {"HTTP/1"}, 1) /\ Takes("request", "minor", {"1"}, 1)
  /\ Takes("response", "first", {"HTTP/1"}, 1) /\ Takes("response", "minor", {"1"}, 1)
  /\ \A m \in Nat : Takes("response", "code", Digits, m)
  /\ Takes("response", "reason", {"A"}, 1)
<1>1. /\ "A" \in Chars /\ "HTTP/1" \in Chars /\ "1" \in Chars /\ Digits \subseteq Chars
      /\ Printable \ {SP} \subseteq Chars
  BY DEF Chars, Printable, KeyChars, Digits
<1>2. /\ "A" # SP /\ "A" # "." /\ "HTTP/1" # "." /\ "1" # "."
      /\ "HTTP/1" # SP /\ \A c \in Digits : c # SP
  BY Space DEF Digits
<1>3. ASSUME NEW m \in Nat PROVE Takes("request", "method", {"A"}, m)
  BY <1>1, <1>2, FieldMoves DEF Takes, Fits, At
<1>4. ASSUME NEW m \in Nat PROVE Takes("request", "resource", Printable \ {SP}, m)
  BY <1>1, FieldMoves DEF Takes, Fits, At
<1>5. Takes("request", "version", {"HTTP/1"}, 1)
  BY <1>1, <1>2, FirstLineMoves DEF Takes, Fits, At
<1>6. \A g \in Seq(Chars) : Len(g) < 1 => g = <<>>
  BY EmptySeq
<1>7. Takes("request", "minor", {"1"}, 1)
  BY <1>1, <1>6, FirstLineMoves DEF Takes, Fits, At
<1>8. Takes("response", "first", {"HTTP/1"}, 1)
  BY <1>1, <1>2, FirstLineMoves DEF Takes, Fits, At
<1>9. Takes("response", "minor", {"1"}, 1)
  BY <1>1, <1>6, FirstLineMoves DEF Takes, Fits, At
<1>10. ASSUME NEW m \in Nat PROVE Takes("response", "code", Digits, m)
  BY <1>1, FieldMoves DEF Takes, Fits, At
<1>11. Takes("response", "reason", {"A"}, 1)
  BY <1>1, FirstLineMoves DEF Takes, Fits, At
<1> QED BY <1>3, <1>4, <1>5, <1>7, <1>8, <1>9, <1>10, <1>11

\* A token of one character.
LEMMA ReadsToken ==
  ASSUME NEW k, NEW st, NEW c, Takes(k, st, {c}, 1), NEW o \in Seq(Seq(Chars))
  PROVE  Reads(k, st, <<>>, o, <<c>>, st, <<c>>, o)
<1> DEFINE w == <<c>>  C == {c}
<1>1. w \in Seq(C) /\ Len(w) = 1
  OBVIOUS
<1> HIDE DEF w, C
<1>2. Takes(k, st, C, Len(w))
  BY <1>1 DEF C
<1>3. Reads(k, st, <<>>, o, w, st, w, o)
  BY <1>1, <1>2, ReadsField
<1> QED BY <1>3 DEF w

\* The head of a message whose first line is read as o.
LEMMA ReadsHead ==
  ASSUME NEW k \in Kinds, NEW st, NEW fl, NEW o \in Seq(Seq(Chars)),
         NEW hs \in Seq(Seq(Seq(Chars))), NEW e \in Eols, NEW lines, Heads(hs, e, lines),
         Reads(k, st, <<>>, <<>>, fl \o e, "key", <<>>, o)
  PROVE  Reads(k, st, <<>>, <<>>, ((fl \o e) \o FlattenSeq(lines)) \o e,
               "done", <<>>, o \o FlattenSeq(hs))
<1> DEFINE x == fl \o e  y == FlattenSeq(lines)  p == o \o FlattenSeq(hs)
<1>1. Reads(k, "key", <<>>, o, y, "key", <<>>, p)
  <2> DEFINE s == "key"
  <2>1. s \in {"key", "first"} /\ s # "first"
    OBVIOUS
  <2> HIDE DEF s
  <2>2. Reads(k, s, <<>>, o, y, "key", <<>>, p)
    BY <2>1, ReadsHeaders
  <2> QED BY <2>2 DEF s
<1>2. Reads(k, "key", <<>>, p, e, "done", <<>>, p)
  BY ReadsLast
<1> HIDE DEF x, y, p
<1>3. Reads(k, st, <<>>, <<>>, x \o y, "key", <<>>, p)
  BY <1>1, ReadsThen DEF x
<1>4. Reads(k, st, <<>>, <<>>, (x \o y) \o e, "done", <<>>, p)
  BY <1>2, <1>3, ReadsThen
<1> QED BY <1>4 DEF x, y, p

\* The first line of a request: its method and its resource are kept.
LEMMA ReadsRequestLine ==
  ASSUME NEW w \in Seq({"A"}), Len(w) <= MaxVerb, NEW v \in Seq(Printable \ {SP}),
         NEW e \in Eols
  PROVE  Reads("request", "method", <<>>, <<>>,
               (((w \o <<SP>>) \o v) \o <<SP, "HTTP/1", ".", "1">>) \o e,
               "key", <<>>, <<w, v>>)
<1> DEFINE k == "request"  sp == <<SP>>  b == <<"HTTP/1">>  c == <<".">>  d == <<"1">>
           z == <<SP, "HTTP/1", ".", "1">>  o1 == <<w>>  o2 == <<w, v>>  o == <<>>
<1>1. w \in Seq(Chars) /\ v \in Seq(Chars) /\ Len(w) \in Nat /\ Len(v) \in Nat
  <2>1. {"A"} \subseteq Chars /\ Printable \ {SP} \subseteq Chars
    BY DEF Chars, Printable, KeyChars
  <2> QED BY <2>1, SeqMonotonic, LenProperties
<1>2. o \in Seq(Seq(Chars)) /\ o1 \in Seq(Seq(Chars)) /\ o2 \in Seq(Seq(Chars))
      /\ Append(o, w) = o1 /\ Append(o1, v) = o2
  <2>1. o \in Seq(Seq(Chars)) /\ o1 \in Seq(Seq(Chars)) /\ Append(o, w) = o1
    BY <1>1
  <2>2. o2 \in Seq(Seq(Chars))
    BY <1>1
  <2>3. Append(o1, v) = o2
    <3> DEFINE x == <<v>>  T == Seq(Chars)
    <3>1. o2 = o1 \o x
      BY Pair
    <3>2. o1 \in Seq(T) /\ v \in T
      BY <1>1
    <3> HIDE DEF x, T, o1, o2
    <3>3. Append(o1, v) = o1 \o x
      BY <3>2, AppendIsConcat DEF x
    <3> QED BY <3>1, <3>3
  <2> QED BY <2>1, <2>2, <2>3
<1>3. SP \in Chars /\ "." \in Chars
  BY DEF Chars, Printable
<1>4. z = ((sp \o b) \o c) \o d
  <2>1. "HTTP/1" \in Chars /\ "1" \in Chars
    BY DEF Chars, Printable, KeyChars, Digits
  <2>2. Row(SP, "HTTP/1", ".", "1") = OneByOne(SP, "HTTP/1", ".", "1")
    BY <1>3, <2>1, Quad
  <2> QED BY <2>2, Zenon DEF Row, OneByOne
<1> HIDE DEF z, o, o1, o2
<1>5. Reads(k, "method", <<>>, o, w, "method", w, o)
  <2>1. Takes(k, "method", {"A"}, Len(w))
    BY <1>1, FirstLineTakes
  <2> QED BY <1>2, <2>1, ReadsField
<1>6. Reads(k, "method", w, o, sp, "resource", <<>>, o1)
  <2>1. Moves(k, "method")[SP] = "resource" /\ <<"method", "resource">> \in Keeps
    BY FirstLineMoves DEF Keeps
  <2>2. \A n \in Nat : Fits(At("method", w, o, n), SP)
    BY Space DEF Fits, At, KeyChars, Digits
  <2>3. Reads(k, "method", w, o, <<SP>>, "resource", <<>>, Append(o, w))
    BY <1>3, <2>1, <2>2, ReadsKeep
  <2> QED BY <1>2, <2>3
<1>7. Reads(k, "resource", <<>>, o1, v, "resource", v, o1)
  <2>1. Takes(k, "resource", Printable \ {SP}, Len(v))
    BY <1>1, FirstLineTakes
  <2> QED BY <1>2, <2>1, ReadsField
<1>8. Reads(k, "resource", v, o1, sp, "version", <<>>, o2)
  <2>1. Moves(k, "resource")[SP] = "version" /\ <<"resource", "version">> \in Keeps
    BY FirstLineMoves DEF Keeps
  <2>2. \A n \in Nat : Fits(At("resource", v, o1, n), SP)
    BY DEF Fits, At
  <2>3. Reads(k, "resource", v, o1, <<SP>>, "version", <<>>, Append(o1, v))
    BY <1>3, <2>1, <2>2, ReadsKeep
  <2> QED BY <1>2, <2>3
<1>9. Reads(k, "version", <<>>, o2, b, "version", b, o2)
  BY <1>2, FirstLineTakes, ReadsToken
<1>10. Reads(k, "version", b, o2, c, "minor", <<>>, o2)
  <2>1. Moves(k, "version")["."] = "minor" /\ <<"version", "minor">> \notin Keeps
    BY FirstLineMoves DEF Keeps
  <2>2. \A n \in Nat : Fits(At("version", b, o2, n), ".")
    BY DEF Fits, At
  <2> QED BY <1>3, <2>1, <2>2, ReadsSkip
<1>11. Reads(k, "minor", <<>>, o2, d, "minor", d, o2)
  BY <1>2, FirstLineTakes, ReadsToken
<1>12. Reads(k, "minor", d, o2, e, "key", <<>>, o2)
  <2> DEFINE s == "minor"
  <2>1. Moves(k, s)[CR] = "eol" /\ Moves(k, s)[LF] = "key" /\ s \in {"minor", "reason"}
        /\ k \in Kinds
    BY FirstLineMoves DEF Kinds
  <2> HIDE DEF s, k
  <2>2. Reads(k, s, d, o2, e, "key", <<>>, o2)
    BY <2>1, ReadsEol
  <2> QED BY <2>2 DEF s
<1> HIDE DEF k, sp, b, c, d
<1> DEFINE a1 == w \o sp  a2 == a1 \o v
           b1 == sp \o b  b2 == b1 \o c  b3 == b2 \o d
           a3 == a2 \o b3
<1>13. Reads(k, "method", <<>>, o, a1, "resource", <<>>, o1)
  BY <1>5, <1>6, ReadsThen
<1> HIDE DEF a1
<1>14. Reads(k, "method", <<>>, o, a2, "resource", v, o1)
  BY <1>7, <1>13, ReadsThen
<1> HIDE DEF a2
<1>15. Reads(k, "resource", v, o1, b1, "version", b, o2)
  BY <1>8, <1>9, ReadsThen
<1> HIDE DEF b1
<1>16. Reads(k, "resource", v, o1, b2, "minor", <<>>, o2)
  BY <1>10, <1>15, ReadsThen
<1> HIDE DEF b2
<1>17. Reads(k, "resource", v, o1, b3, "minor", d, o2)
  BY <1>11, <1>16, ReadsThen
<1> HIDE DEF b3
<1>18. Reads(k, "method", <<>>, o, a3, "minor", d, o2)
  BY <1>14, <1>17, ReadsThen
<1> HIDE DEF a3
<1>19. Reads(k, "method", <<>>, o, a3 \o e, "key", <<>>, o2)
  BY <1>12, <1>18, ReadsThen
<1>20. a3 = ((w \o sp) \o v) \o z
  BY <1>4 DEF a3, a2, a1, b3, b2, b1
<1>21. Reads(k, "method", <<>>, o, (((w \o sp) \o v) \o z) \o e, "key", <<>>, o2)
  BY <1>19, <1>20
<1> QED BY <1>21, Zenon DEF k, sp, z, o, o2

\* The first line of a response: its code is kept.
LEMMA ReadsStatusLine ==
  ASSUME NEW w \in Seq(Digits), NEW e \in Eols
  PROVE  Reads("response", "first", <<>>, <<>>,
               ((<<"HTTP/1", ".", "1", SP>> \o w) \o <<SP, "A">>) \o e,
               "key", <<>>, <<w>>)
<1> DEFINE k == "response"  sp == <<SP>>  b == <<"HTTP/1">>  c == <<".">>  d == <<"1">>
           a == <<"A">>  z == <<"HTTP/1", ".", "1", SP>>  y == <<SP, "A">>
           o1 == <<w>>  o == <<>>
<1>1. w \in Seq(Chars) /\ Len(w) \in Nat
  <2>1. Digits \subseteq Chars
    BY DEF Chars, Printable, KeyChars
  <2> QED BY <2>1, SeqMonotonic, LenProperties
<1>2. o \in Seq(Seq(Chars)) /\ o1 \in Seq(Seq(Chars)) /\ Append(o, w) = o1
  BY <1>1
<1>3. SP \in Chars /\ "." \in Chars
  BY DEF Chars, Printable
<1>4. z = ((b \o c) \o d) \o sp /\ y = sp \o a
  <2>1. "HTTP/1" \in Chars /\ "1" \in Chars
    BY DEF Chars, Printable, KeyChars, Digits
  <2>2. z = ((b \o c) \o d) \o sp
    <3>1. Row("HTTP/1", ".", "1", SP) = OneByOne("HTTP/1", ".", "1", SP)
      BY <1>3, <2>1, Quad
    <3> QED BY <3>1, Zenon DEF Row, OneByOne
  <2>3. y = sp \o a
    BY Pair, Zenon
  <2> QED BY <2>2, <2>3
<1> HIDE DEF z, y, o, o1
<1>5. Reads(k, "first", <<>>, o, b, "first", b, o)
  BY <1>2, FirstLineTakes, ReadsToken
<1>6. Reads(k, "first", b, o, c, "minor", <<>>, o)
  <2>1. Moves(k, "first")["."] = "minor" /\ <<"first", "minor">> \notin Keeps
    BY FirstLineMoves DEF Keeps
  <2>2. \A n \in Nat : Fits(At("first", b, o, n), ".")
    BY DEF Fits, At
  <2> QED BY <1>3, <2>1, <2>2, ReadsSkip
<1>7. Reads(k, "minor", <<>>, o, d, "minor", d, o)
  BY <1>2, FirstLineTakes, ReadsToken
<1>8. Reads(k, "minor", d, o, sp, "code", <<>>, o)
  <2>1. Moves(k, "minor")[SP] = "code" /\ <<"minor", "code">> \notin Keeps
    BY FirstLineMoves DEF Keeps
  <2>2. \A n \in Nat : Fits(At("minor", d, o, n), SP)
    BY Space DEF Fits, At, Digits
  <2> QED BY <1>3, <2>1, <2>2, ReadsSkip
<1>9. Reads(k, "code", <<>>, o, w, "code", w, o)
  <2>1. Takes(k, "code", Digits, Len(w))
    BY <1>1, FirstLineTakes
  <2> QED BY <1>2, <2>1, ReadsField
<1>10. Reads(k, "code", w, o, sp, "reason", <<>>, o1)
  <2>1. Moves(k, "code")[SP] = "reason" /\ <<"code", "reason">> \in Keeps
    BY FirstLineMoves DEF Keeps
  <2>2. \A n \in Nat : Fits(At("code", w, o, n), SP)
    BY DEF Fits, At
  <2>3. Reads(k, "code", w, o, <<SP>>, "reason", <<>>, Append(o, w))
    BY <1>3, <2>1, <2>2, ReadsKeep
  <2> QED BY <1>2, <2>3
<1>11. Reads(k, "reason", <<>>, o1, a, "reason", a, o1)
  BY <1>2, FirstLineTakes, ReadsToken
<1>12. Reads(k, "reason", a, o1, e, "key", <<>>, o1)
  <2> DEFINE s == "reason"
  <2>1. Moves(k, s)[CR] = "eol" /\ Moves(k, s)[LF] = "key" /\ s \in {"minor", "reason"}
        /\ k \in Kinds
    BY FirstLineMoves DEF Kinds
  <2> HIDE DEF s, k
  <2>2. Reads(k, s, a, o1, e, "key", <<>>, o1)
    BY <2>1, ReadsEol
  <2> QED BY <2>2 DEF s
<1> HIDE DEF k, sp, b, c, d, a
<1> DEFINE b1 == b \o c  b2 == b1 \o d  b3 == b2 \o sp  b4 == b3 \o w
           c1 == sp \o a  b5 == b4 \o c1
<1>13. Reads(k, "first", <<>>, o, b1, "minor", <<>>, o)
  BY <1>5, <1>6, ReadsThen
<1> HIDE DEF b1
<1>14. Reads(k, "first", <<>>, o, b2, "minor", d, o)
  BY <1>7, <1>13, ReadsThen
<1> HIDE DEF b2
<1>15. Reads(k, "first", <<>>, o, b3, "code", <<>>, o)
  BY <1>8, <1>14, ReadsThen
<1> HIDE DEF b3
<1>16. Reads(k, "first", <<>>, o, b4, "code", w, o)
  BY <1>9, <1>15, ReadsThen
<1> HIDE DEF b4
<1>17. Reads(k, "code", w, o, c1, "reason", a, o1)
  BY <1>10, <1>11, ReadsThen
<1> HIDE DEF c1
<1>18. Reads(k, "first", <<>>, o, b5, "reason", a, o1)
  BY <1>16, <1>17, ReadsThen
<1> HIDE DEF b5
<1>19. Reads(k, "first", <<>>, o, b5 \o e, "key", <<>>, o1)
  BY <1>12, <1>18, ReadsThen
<1>20. b5 = (z \o w) \o y
  BY <1>4 DEF b5, b4, b3, b2, b1, c1
<1>21. Reads(k, "first", <<>>, o, ((z \o w) \o y) \o e, "key", <<>>, o1)
  BY <1>19, <1>20
<1> QED BY <1>21, Zenon DEF k, z, y, o, o1

\* decode() makes of the characters of a well-formed head all of its parts, and
\* stops behind it.
Decodes(k, m) ==
  /\ m.chars \in Seq(Chars) /\ m.chars # <<>>
  /\ Scan(k, Begin(k), m.chars) = At("done", <<>>, m.parts, Len(m.chars))

LEMMA ReadsDecodes ==
  ASSUME NEW k \in Kinds, NEW m,
         Reads(k, Start(k), <<>>, <<>>, m.chars, "done", <<>>, m.parts)
  PROVE  Decodes(k, m)
<1> DEFINE w == m.chars  p == m.parts  n == 0
<1>1. w \in Seq(Chars) /\ Scan(k, Begin(k), w) = At("done", <<>>, p, n + Len(w))
  <2>1. n \in Nat /\ Begin(k) = At(Start(k), <<>>, <<>>, n)
    BY BeginIs
  <2> HIDE DEF w, p, n
  <2>2. w \in Seq(Chars) /\ Scan(k, At(Start(k), <<>>, <<>>, n), w) = At("done", <<>>, p, n + Len(w))
    BY <2>1 DEF Reads, w, p
  <2> QED BY <2>1, <2>2
<1>2. Len(w) \in Nat
  BY <1>1, LenProperties
<1>3. n + Len(w) = Len(w)
  BY <1>2
<1>4. w # <<>>
  <2>1. ASSUME w = <<>> PROVE FALSE
    <3>1. Scan(k, Begin(k), w) = Begin(k)
      BY <2>1, ScanEmpty
    <3>2. Begin(k).st = "done"
      BY <1>1, <3>1 DEF At
    <3> QED BY <3>2 DEF Begin, Start
  <2> QED BY <2>1
<1> QED BY <1>1, <1>3, <1>4 DEF Decodes

\* The headers of a message and the way its lines end.
LEMMA HasHeadersIs ==
  ASSUME NEW m, HasHeaders(m)
  PROVE  /\ m.hs \in Seq(Seq(Seq(Chars))) /\ m.eol \in Eols
         /\ Heads(m.hs, m.eol,
                  [i \in DOMAIN m.hs |-> Line(m.hs[i][1], m.hs[i][2], m.eol)])
BY DEF HasHeaders, Heads, Eols

\* decode() undoes serialize(): a well-formed request is read whole, its method,
\* its resource and the names and values of its headers are what was written,
\* and the decoder stops at the character after the empty line.
THEOREM RequestRoundTrip ==
  ASSUME NEW m, IsRequest(m)
  PROVE  Decodes("request", m)
<1> DEFINE w == m.line[1]  v == m.line[2]  e == m.eol  hs == m.hs
           fl == ((w \o <<SP>>) \o v) \o <<SP, "HTTP/1", ".", "1">>
           lines == [i \in DOMAIN hs |-> Line(hs[i][1], hs[i][2], e)]
           o == <<w, v>>
<1>1. /\ w \in Seq({"A"}) /\ Len(w) <= MaxVerb /\ v \in Seq(Printable \ {SP})
      /\ hs \in Seq(Seq(Seq(Chars))) /\ e \in Eols /\ Heads(hs, e, lines)
  <2>1. /\ m.line[1] \in Seq({"A"}) /\ Len(m.line[1]) <= MaxVerb
        /\ m.line[2] \in Seq(Printable \ {SP}) /\ HasHeaders(m)
    BY DEF IsRequest
  <2> QED BY <2>1, HasHeadersIs
<1>2. m.parts = o \o FlattenSeq(hs)
  BY DEF IsRequest, RequestMessage, Message
<1>3. fl # <<>>
  <2> DEFINE x == (w \o <<SP>>) \o v  z == <<SP, "HTTP/1", ".", "1">>
  <2>1. x \in Seq(Chars)
    <3>1. {"A"} \subseteq Chars /\ Printable \ {SP} \subseteq Chars /\ SP \in Chars
      BY DEF Chars, Printable, KeyChars
    <3>2. w \in Seq(Chars) /\ v \in Seq(Chars) /\ <<SP>> \in Seq(Chars)
      BY <1>1, <3>1, SeqMonotonic
    <3> DEFINE sp == <<SP>>
    <3> HIDE DEF w, v, sp
    <3>3. w \o sp \in Seq(Chars)
      BY <3>2, ConcatProperties DEF sp
    <3>4. (w \o sp) \o v \in Seq(Chars)
      BY <3>2, <3>3, ConcatProperties
    <3> QED BY <3>4 DEF sp
  <2>2. z \in Seq(Chars) /\ z # <<>>
    <3>1. SP \in Chars /\ "HTTP/1" \in Chars /\ "." \in Chars /\ "1" \in Chars
      BY DEF Chars, Printable, KeyChars, Digits
    <3> QED BY <3>1
  <2> HIDE DEF x, z
  <2>3. x \o z # <<>>
    BY <2>1, <2>2, ConcatEqualIffEmpty
  <2> QED BY <2>3 DEF x, z
<1>4. m.chars = ((fl \o e) \o FlattenSeq(lines)) \o e
  <2> DEFINE r == RequestMessage(w, v, hs, e)
  <2>1. m.chars = r.chars
    BY DEF IsRequest
  <2>2. r = Message(fl, o, hs, e)
    BY DEF RequestMessage
  <2> HIDE DEF fl, w, v, hs, e, o, r
  <2>3. Message(fl, o, hs, e).chars = ((fl \o e) \o FlattenSeq(lines)) \o e
    BY <1>3 DEF Message
  <2> QED BY <2>1, <2>2, <2>3
<1>5. Reads("request", "method", <<>>, <<>>, fl \o e, "key", <<>>, o)
  BY <1>1, ReadsRequestLine
<1>6. o \in Seq(Seq(Chars))
  <2>1. {"A"} \subseteq Chars /\ Printable \ {SP} \subseteq Chars
    BY DEF Chars, Printable, KeyChars
  <2>2. w \in Seq(Chars) /\ v \in Seq(Chars)
    BY <1>1, <2>1, SeqMonotonic
  <2> HIDE DEF w, v
  <2> QED BY <2>2
<1> HIDE DEF fl, lines, w, v, hs, e, o
<1> DEFINE k == "request"  st == "method"
<1>7. k \in Kinds /\ Start(k) = st
  BY DEF Kinds, Start
<1>8. Reads(k, st, <<>>, <<>>, ((fl \o e) \o FlattenSeq(lines)) \o e, "done", <<>>,
            o \o FlattenSeq(hs))
  <2>1. Reads(k, st, <<>>, <<>>, fl \o e, "key", <<>>, o)
    BY <1>5
  <2> HIDE DEF k, st
  <2> QED BY <1>1, <1>6, <1>7, <2>1, ReadsHead
<1> HIDE DEF k, st
<1>9. Reads(k, Start(k), <<>>, <<>>, m.chars, "done", <<>>, m.parts)
  BY <1>2, <1>4, <1>7, <1>8
<1>10. Decodes(k, m)
  BY <1>7, <1>9, ReadsDecodes
<1> QED BY <1>10 DEF k

\* The same for a response: what is kept is its code, then its headers.
LEMMA ResponseDecodes ==
  ASSUME NEW m, IsResponse(m)
  PROVE  Decodes("response", m)
<1> DEFINE w == m.line[1]  e == m.eol  hs == m.hs
           fl == (<<"HTTP/1", ".", "1", SP>> \o w) \o <<SP, "A">>
           lines == [i \in DOMAIN hs |-> Line(hs[i][1], hs[i][2], e)]
           o == <<w>>
<1>1. /\ w \in Seq(Digits) /\ hs \in Seq(Seq(Seq(Chars))) /\ e \in Eols
      /\ Heads(hs, e, lines)
  <2>1. m.line[1] \in Seq(Digits) /\ HasHeaders(m)
    BY DEF IsResponse
  <2> QED BY <2>1, HasHeadersIs
<1>2. m.parts = o \o FlattenSeq(hs)
  BY DEF IsResponse, ResponseMessage, Message
<1>3. Digits \subseteq Chars /\ SP \in Chars /\ "HTTP/1" \in Chars /\ "." \in Chars
      /\ "1" \in Chars /\ "A" \in Chars
  BY DEF Chars, Printable, KeyChars, Digits
<1>4. w \in Seq(Chars)
  BY <1>1, <1>3, SeqMonotonic
<1>5. fl # <<>>
  <2> DEFINE y == <<"HTTP/1", ".", "1", SP>>  z == <<SP, "A">>
  <2>1. y \in Seq(Chars) /\ z \in Seq(Chars) /\ z # <<>>
    BY <1>3
  <2> HIDE DEF w, y, z
  <2>2. y \o w \in Seq(Chars)
    BY <1>4, <2>1, ConcatProperties
  <2>3. (y \o w) \o z # <<>>
    BY <2>1, <2>2, ConcatEqualIffEmpty
  <2> QED BY <2>3 DEF y, z
<1>6. m.chars = ((fl \o e) \o FlattenSeq(lines)) \o e
  <2> DEFINE r == ResponseMessage(w, hs, e)
  <2>1. m.chars = r.chars
    BY DEF IsResponse
  <2>2. r = Message(fl, o, hs, e)
    BY DEF ResponseMessage
  <2> HIDE DEF fl, w, hs, e, o, r
  <2>3. Message(fl, o, hs, e).chars = ((fl \o e) \o FlattenSeq(lines)) \o e
    BY <1>5 DEF Message
  <2> QED BY <2>1, <2>2, <2>3
<1>7. Reads("response", "first", <<>>, <<>>, fl \o e, "key", <<>>, o)
  BY <1>1, ReadsStatusLine
<1>8. o \in Seq(Seq(Chars))
  <2> HIDE DEF w
  <2> QED BY <1>4
<1> HIDE DEF fl, lines, w, hs, e, o
<1> DEFINE k == "response"  st == "first"
<1>9. k \in Kinds /\ Start(k) = st
  BY DEF Kinds, Start
<1>10. Reads(k, st, <<>>, <<>>, ((fl \o e) \o FlattenSeq(lines)) \o e, "done", <<>>,
             o \o FlattenSeq(hs))
  <2>1. Reads(k, st, <<>>, <<>>, fl \o e, "key", <<>>, o)
    BY <1>7
  <2> HIDE DEF k, st
  <2> QED BY <1>1, <1>8, <1>9, <2>1, ReadsHead
<1> HIDE DEF k, st
<1>11. Reads(k, Start(k), <<>>, <<>>, m.chars, "done", <<>>, m.parts)
  BY <1>2, <1>6, <1>9, <1>10
<1>12. Decodes(k, m)
  BY <1>9, <1>11, ReadsDecodes
<1> QED BY <1>12 DEF k

\* And for what a CGI program sends, headers alone.
LEMMA CgiDecodes ==
  ASSUME NEW m, IsCgi(m)
  PROVE  Decodes("response", m)
<1> DEFINE e == m.eol  hs == m.hs  o == <<>>  k == "response"  st == "first"
           lines == [i \in DOMAIN hs |-> Line(hs[i][1], hs[i][2], e)]
           y == FlattenSeq(lines)  p == o \o FlattenSeq(hs)
<1>1. /\ hs \in Seq(Seq(Seq(Chars))) /\ e \in Eols /\ Heads(hs, e, lines) /\ hs # <<>>
  <2>1. HasHeaders(m) /\ m.hs # <<>>
    BY DEF IsCgi
  <2> QED BY <2>1, HasHeadersIs
<1>2. m.parts = p
  BY DEF IsCgi, CgiMessage, Message
<1>3. m.chars = (<<>> \o y) \o e
  BY DEF IsCgi, CgiMessage, Message
<1>4. k \in Kinds /\ Start(k) = st /\ st \in {"key", "first"} /\ o \in Seq(Seq(Chars))
      /\ (st = "first" => k = "response")
  BY DEF Kinds, Start
<1> HIDE DEF lines, hs, e, k, st
<1>5. Reads(k, st, <<>>, o, y, "key", <<>>, p)
  <2> HIDE DEF o
  <2> QED BY <1>1, <1>4, ReadsHeaders
<1>6. Reads(k, "key", <<>>, p, e, "done", <<>>, p)
  BY <1>1, <1>4, ReadsLast
<1>7. <<>> \o y = y
  <2>1. y \in Seq(Chars)
    BY <1>5 DEF Reads
  <2> HIDE DEF y
  <2> QED BY <2>1, ConcatEmptySeq
<1> HIDE DEF y, p, o
<1>8. Reads(k, st, <<>>, o, y \o e, "done", <<>>, p)
  BY <1>5, <1>6, ReadsThen
<1>9. Reads(k, Start(k), <<>>, <<>>, m.chars, "done", <<>>, m.parts)
  BY <1>2, <1>3, <1>4, <1>7, <1>8 DEF o
<1>10. Decodes(k, m)
  BY <1>4, <1>9, ReadsDecodes
<1> QED BY <1>10 DEF k

\* decode() undoes serialize() for responses too, and reads what a CGI program
\* sends, a head without a status line.
THEOREM ResponseRoundTrip ==
  ASSUME NEW m, IsResponse(m) \/ IsCgi(m)
  PROVE  Decodes("response", m)
BY ResponseDecodes, CgiDecodes

-----------------------------------------------------------------------------
(* Heads that arrive in pieces.                                            *)

\* A scan that has ended does not go on.
LEMMA ScanEnds ==
  ASSUME NEW k, NEW r, r.st \in {"done", "bad"}, NEW b \in Seq(Chars)
  PROVE  Scan(k, r, b) = r
<1> DEFINE N == {n \in Nat : \A s \in Seq(Chars) : Len(s) = n => Scan(k, r, s) = r}
<1>1. 0 \in N
  <2> SUFFICES ASSUME NEW s \in Seq(Chars), Len(s) = 0 PROVE Scan(k, r, s) = r
    OBVIOUS
  <2>1. s = <<>>
    OBVIOUS
  <2> QED BY <2>1, ScanEmpty
<1>2. ASSUME NEW n \in N PROVE n + 1 \in N
  <2> SUFFICES ASSUME NEW s \in Seq(Chars), Len(s) = n + 1 PROVE Scan(k, r, s) = r
    OBVIOUS
  <2>1. PICK t \in Seq(Chars), c \in Chars : s = Append(t, c)
    <3>1. s # <<>>
      BY EmptySeq
    <3> QED BY <3>1, SequenceEmptyOrAppend
  <2>2. Len(t) = n
    <3>1. Len(s) = Len(t) + 1 /\ Len(t) \in Nat
      BY <2>1, AppendProperties
    <3> QED BY <3>1
  <2>3. Scan(k, r, s) = Round(k, Scan(k, r, t), c)
    BY <2>1, ScanNext
  <2>4. Scan(k, r, t) = r
    BY <2>2
  <2>5. Round(k, r, c) = r
    BY Zenon DEF Round
  <2> QED BY <2>3, <2>4, <2>5
<1>3. N = Nat
  <2>1. N \in SUBSET Nat
    OBVIOUS
  <2> HIDE DEF N
  <2> QED BY <1>1, <1>2, <2>1, SetInduction
<1> QED BY <1>3, LenProperties

\* No round counts more than the character it looks at.
LEMMA RoundCounts ==
  ASSUME NEW k, NEW st, NEW f, NEW o, NEW n \in Nat, NEW c
  PROVE  \E st2, f2, o2 : \E n2 \in {n, n + 1} : Round(k, At(st, f, o, n), c) = At(st2, f2, o2, n2)
<1> DEFINE r == At(st, f, o, n)  to == Moves(k, st)[c]
<1>1. r.st = st /\ r.n = n
  BY DEF At
<1>2. CASE st \in {"done", "bad"}
  <2>1. Round(k, r, c) = At(st, f, o, n)
    BY <1>2 DEF Round, At
  <2> HIDE DEF r
  <2> QED BY <2>1 DEF r
<1>3. CASE st \notin {"done", "bad"} /\ (to = "bad" \/ ~Fits(r, c))
  <2>1. [r EXCEPT !.st = "bad"] = At("bad", f, o, n)
    BY DEF At
  <2>2. Round(k, r, c) = [r EXCEPT !.st = "bad"]
    <3> HIDE DEF r
    <3> QED BY <1>1, <1>3, Zenon DEF Round
  <2> HIDE DEF r
  <2> QED BY <2>1, <2>2 DEF r
<1>4. CASE st \notin {"done", "bad"} /\ ~(to = "bad" \/ ~Fits(r, c))
  <2> DEFINE f2 == IF to = st /\ to # "skip" THEN Append(f, c)
                   ELSE IF to = "value" THEN <<c>> ELSE <<>>
             o2 == IF <<st, to>> \in Keeps THEN Append(o, f) ELSE o
  <2>1. Round(k, r, c) = At(to, f2, o2, n + 1)
    <3> HIDE DEF to
    <3> QED BY <1>4, RoundMoves DEF to
  <2> HIDE DEF f2, o2, to, r
  <2> QED BY <2>1 DEF r
<1> QED BY <1>2, <1>3, <1>4

LEMMA ScanCounts ==
  ASSUME NEW k, NEW b \in Seq(Chars)
  PROVE  Scan(k, Begin(k), b).n \in 0..Len(b)
<1> DEFINE Good(s, m) == \E st, f, o : \E n \in 0..m : Scan(k, Begin(k), s) = At(st, f, o, n)
           N == {m \in Nat : \A s \in Seq(Chars) : Len(s) = m => Good(s, m)}
<1>1. 0 \in N
  <2> SUFFICES ASSUME NEW s \in Seq(Chars), Len(s) = 0 PROVE Good(s, 0)
    OBVIOUS
  <2>1. s = <<>>
    OBVIOUS
  <2>2. Scan(k, Begin(k), s) = At(Start(k), <<>>, <<>>, 0)
    BY <2>1, ScanEmpty, BeginIs
  <2> QED BY <2>2
<1>2. ASSUME NEW m \in N PROVE m + 1 \in N
  <2> SUFFICES ASSUME NEW s \in Seq(Chars), Len(s) = m + 1 PROVE Good(s, m + 1)
    OBVIOUS
  <2>1. PICK t \in Seq(Chars), c \in Chars : s = Append(t, c)
    <3>1. s # <<>>
      BY EmptySeq
    <3> QED BY <3>1, SequenceEmptyOrAppend
  <2>2. Len(t) = m /\ m \in Nat
    <3>1. Len(s) = Len(t) + 1 /\ Len(t) \in Nat
      BY <2>1, AppendProperties
    <3> QED BY <3>1
  <2>3. Scan(k, Begin(k), s) = Round(k, Scan(k, Begin(k), t), c)
    BY <2>1, ScanNext
  <2>4. Good(t, m)
    BY <2>2
  <2>5. PICK st, f, o : \E n \in 0..m : Scan(k, Begin(k), t) = At(st, f, o, n)
    BY <2>4
  <2>6. PICK n \in 0..m : Scan(k, Begin(k), t) = At(st, f, o, n)
    BY <2>5
  <2>7. n \in Nat
    BY <2>2
  <2>8. PICK st2, f2, o2 : \E n2 \in {n, n + 1} : Round(k, At(st, f, o, n), c) = At(st2, f2, o2, n2)
    <3> HIDE DEF N, Good
    <3> QED BY <2>7, RoundCounts
  <2>9. \A n2 \in {n, n + 1} : n2 \in 0..(m + 1)
    BY <2>2
  <2> QED BY <2>3, <2>6, <2>8, <2>9
<1>3. N = Nat
  <2>1. N \in SUBSET Nat
    OBVIOUS
  <2> HIDE DEF N
  <2> QED BY <1>1, <1>2, <2>1, SetInduction
<1>4. Good(b, Len(b))
  <2>1. Len(b) \in N
    BY <1>3, LenProperties
  <2> HIDE DEF Good
  <2> QED BY <2>1
<1> QED BY <1>4 DEF At

\* What decode() finds at the beginning of a stream that begins with a
\* well-formed head: as long as the head is not complete, neither an end nor an
\* error; then the head, whatever has arrived behind it.
LEMMA HeadRead ==
  ASSUME NEW k, NEW m, Decodes(k, m), NEW b \in Seq(Chars), NEW y \in Seq(Chars),
         NEW z \in Seq(Chars), b \o y = m.chars \o z
  PROVE  IF Len(b) < Len(m.chars) THEN Scan(k, Begin(k), b).st \notin {"done", "bad"}
         ELSE Scan(k, Begin(k), b) = At("done", <<>>, m.parts, Len(m.chars))
<1> DEFINE w == m.chars  p == m.parts  s == Scan(k, Begin(k), b)
<1>1. w \in Seq(Chars) /\ Scan(k, Begin(k), w) = At("done", <<>>, p, Len(w))
  BY DEF Decodes
<1>2. b \o y = w \o z
  OBVIOUS
<1> HIDE DEF w, p
<1>3. Len(b) \in Nat /\ Len(w) \in Nat
  BY <1>1, LenProperties
<1>4. CASE Len(b) < Len(w)
  <2>1. PICK x \in Seq(Chars) : w = b \o x /\ y = x \o z
    <3>1. Len(b) <= Len(w) /\ w \in Seq(Chars) /\ Divides(b, y, w, z)
      BY <1>1, <1>2, <1>3, <1>4 DEF Divides
    <3>2. GoesOn(b, y, w, z, Chars)
      BY <3>1, SplitConcat
    <3> QED BY <3>2, Zenon DEF GoesOn
  <2>2. Scan(k, Begin(k), w) = Scan(k, s, x)
    BY <2>1, ScanConcat
  <2>3. ASSUME s.st \in {"done", "bad"} PROVE FALSE
    <3>1. s = At("done", <<>>, p, Len(w))
      <4> HIDE DEF s
      <4>1. Scan(k, s, x) = s
        BY <2>3, ScanEnds
      <4> QED BY <1>1, <2>2, <4>1
    <3>2. s.n = Len(w)
      <4> HIDE DEF s
      <4> QED BY <3>1 DEF At
    <3>3. s.n \in 0..Len(b)
      BY ScanCounts
    <3> HIDE DEF s
    <3> QED BY <1>3, <1>4, <3>2, <3>3
  <2> QED BY <1>4, <2>3 DEF w
<1>5. CASE ~(Len(b) < Len(w))
  <2>1. PICK x \in Seq(Chars) : b = w \o x /\ z = x \o y
    <3>1. Len(w) <= Len(b) /\ w \in Seq(Chars) /\ Divides(w, z, b, y)
      BY <1>1, <1>2, <1>3, <1>5 DEF Divides
    <3>2. GoesOn(w, z, b, y, Chars)
      BY <3>1, SplitConcat
    <3> QED BY <3>2, Zenon DEF GoesOn
  <2> DEFINE r == At("done", <<>>, p, Len(w))
  <2>2. r.st = "done"
    BY DEF At
  <2>3. Scan(k, Begin(k), w) = r
    BY <1>1
  <2> HIDE DEF r
  <2>4. Scan(k, Begin(k), b) = Scan(k, r, x)
    BY <1>1, <2>1, <2>3, ScanThen
  <2>5. Scan(k, r, x) = r
    BY <2>2, ScanEnds
  <2> QED BY <1>5, <2>4, <2>5, Zenon DEF r, w, p
<1> QED BY <1>4, <1>5 DEF w

\* At the beginning of a stream that begins with a malformed head, it never
\* finds a head.
LEMMA MalformedRead ==
  ASSUME NEW k, NEW m, IsMalformed(k, m), m.chars \in Seq(Chars), NEW b \in Seq(Chars),
         NEW y \in Seq(Chars), NEW z \in Seq(Chars), b \o y = m.chars \o z
  PROVE  Scan(k, Begin(k), b).st # "done"
<1> DEFINE w == m.chars  s == Scan(k, Begin(k), b)  r == Scan(k, Begin(k), w)
<1>1. w \in Seq(Chars) /\ r.st = "bad" /\ b \o y = w \o z
  BY DEF IsMalformed
<1> HIDE DEF w
<1>2. Len(b) \in Nat /\ Len(w) \in Nat
  BY <1>1, LenProperties
<1>3. CASE Len(b) <= Len(w)
  <2>1. PICK x \in Seq(Chars) : w = b \o x /\ y = x \o z
    <3>1. Len(b) <= Len(w) /\ w \in Seq(Chars) /\ Divides(b, y, w, z)
      BY <1>1, <1>3 DEF Divides
    <3> HIDE DEF r, s
    <3>2. GoesOn(b, y, w, z, Chars)
      BY <3>1, SplitConcat
    <3> QED BY <3>2, Zenon DEF GoesOn
  <2>2. r = Scan(k, s, x)
    BY <2>1, ScanConcat
  <2> HIDE DEF s, r
  <2>3. ASSUME s.st = "done" PROVE FALSE
    <3>1. r = s
      BY <2>2, <2>3, ScanEnds
    <3> QED BY <1>1, <2>3, <3>1
  <2> QED BY <2>3 DEF s
<1>4. CASE Len(w) <= Len(b)
  <2>1. PICK x \in Seq(Chars) : b = w \o x /\ z = x \o y
    <3>1. Len(w) <= Len(b) /\ w \in Seq(Chars) /\ Divides(w, z, b, y)
      BY <1>1, <1>4 DEF Divides
    <3> HIDE DEF r, s
    <3>2. GoesOn(w, z, b, y, Chars)
      BY <3>1, SplitConcat
    <3> QED BY <3>2, Zenon DEF GoesOn
  <2>2. s = Scan(k, r, x)
    BY <1>1, <2>1, ScanConcat
  <2> HIDE DEF s, r
  <2>3. s = r
    BY <1>1, <2>2, ScanEnds
  <2> QED BY <1>1, <2>3 DEF s
<1> QED BY <1>2, <1>3, <1>4

-----------------------------------------------------------------------------
(* What is left of joined sequences when the first is taken away.          *)

\* t is s without its first member.
Follows(s, t) == Len(s) = Len(t) + 1 /\ \A i \in 1..Len(t) : t[i] = s[i + 1]

\* t is s without its last member.
Precedes(s, t) == Len(s) = Len(t) + 1 /\ \A i \in 1..Len(t) : t[i] = s[i]

LEMMA WithoutLast ==
  ASSUME NEW S, NEW s \in Seq(S), Len(s) # 0
  PROVE  \E t \in Seq(S) : Precedes(s, t)
<1>1. PICK t \in Seq(S), e \in S : s = Append(t, e)
  <2>1. s # <<>>
    OBVIOUS
  <2> QED BY <2>1, SequenceEmptyOrAppend
<1>2. Precedes(s, t)
  BY <1>1, AppendProperties DEF Precedes
<1> QED BY <1>2

Associates(a, b, c) == (a \o b) \o c = a \o (b \o c)

LEMMA ConcatAssociates ==
  ASSUME NEW S, NEW a \in Seq(S), NEW b \in Seq(S), NEW c \in Seq(S)
  PROVE  Associates(a, b, c)
BY ConcatAssociative DEF Associates

LEMMA FlattenLast ==
  ASSUME NEW S, NEW s \in Seq(Seq(S)), NEW t \in Seq(Seq(S)), Precedes(s, t)
  PROVE  FlattenSeq(s) = FlattenSeq(t) \o s[Len(s)]
BY FlattenNext DEF Precedes

LEMMA FlattenFirst ==
  ASSUME NEW S, NEW s \in Seq(Seq(S)), NEW t \in Seq(Seq(S)), Follows(s, t)
  PROVE  FlattenSeq(s) = s[1] \o FlattenSeq(t)
<1> DEFINE Good(u, v) == FlattenSeq(u) = u[1] \o FlattenSeq(v)
           N == {n \in Nat : \A u, v \in Seq(Seq(S)) :
                               Follows(u, v) /\ Len(v) = n => Good(u, v)}
<1>1. 0 \in N
  <2> SUFFICES ASSUME NEW u \in Seq(Seq(S)), NEW v \in Seq(Seq(S)), Follows(u, v), Len(v) = 0
               PROVE  Good(u, v)
    OBVIOUS
  <2>1. v = <<>> /\ Len(u) = 1 /\ u[1] \in Seq(S)
    <3>1. Len(u) = 1
      BY DEF Follows
    <3>2. 1 \in 1..Len(u)
      BY <3>1
    <3>3. u[1] \in Seq(S)
      BY <3>2, ElementOfSeq
    <3> QED BY <3>1, <3>3
  <2>2. FlattenSeq(v) = <<>>
    BY <2>1, FlattenEmpty
  <2>3. Precedes(u, v)
    BY <2>1 DEF Precedes
  <2>4. FlattenSeq(u) = FlattenSeq(v) \o u[Len(u)]
    <3> HIDE DEF Good
    <3> QED BY <2>3, FlattenLast
  <2>5. <<>> \o u[1] = u[1] /\ u[1] \o <<>> = u[1]
    BY <2>1, ConcatEmptySeq
  <2> QED BY <2>1, <2>2, <2>4, <2>5
<1>2. ASSUME NEW n \in N PROVE n + 1 \in N
  <2> SUFFICES ASSUME NEW u \in Seq(Seq(S)), NEW v \in Seq(Seq(S)), Follows(u, v), Len(v) = n + 1
               PROVE  Good(u, v)
    OBVIOUS
  <2>1. Len(v) # 0 /\ Len(u) # 0 /\ Len(u) = n + 2 /\ n \in Nat
    BY DEF Follows
  <2>2. PICK x \in Seq(Seq(S)) : Precedes(u, x)
    BY <2>1, WithoutLast
  <2>3. PICK y \in Seq(Seq(S)) : Precedes(v, y)
    BY <2>1, WithoutLast
  <2>4. Len(x) = n + 1 /\ Len(y) = n
    BY <2>1, <2>2, <2>3 DEF Precedes
  <2>5. Follows(x, y)
    <3>1. ASSUME NEW i \in 1..n PROVE y[i] = x[i + 1]
      <4>1. i \in 1..Len(y) /\ i \in 1..Len(v) /\ i + 1 \in 1..Len(x)
        BY <2>1, <2>4
      <4>2. y[i] = v[i]
        BY <2>3, <4>1 DEF Precedes
      <4>3. v[i] = u[i + 1]
        BY <4>1 DEF Follows
      <4>4. u[i + 1] = x[i + 1]
        BY <2>2, <4>1 DEF Precedes
      <4> QED BY <4>2, <4>3, <4>4
    <3> QED BY <2>1, <2>4, <3>1 DEF Follows
  <2>6. Good(x, y)
    <3> HIDE DEF Good
    <3> QED BY <2>4, <2>5
  <2>7. FlattenSeq(u) = FlattenSeq(x) \o u[Len(u)] /\ FlattenSeq(v) = FlattenSeq(y) \o v[Len(v)]
    <3> HIDE DEF Good, N
    <3> QED BY <2>2, <2>3, FlattenLast
  <2>8. u[Len(u)] = v[Len(v)] /\ x[1] = u[1]
    BY <2>1, <2>2, <2>4 DEF Follows, Precedes
  <2> DEFINE a == u[1]  b == FlattenSeq(y)  c == v[Len(v)]
  <2>9. a \in Seq(S) /\ b \in Seq(S) /\ c \in Seq(S)
    <3>1. 1 \in 1..Len(u) /\ Len(v) \in 1..Len(v)
      BY <2>1
    <3>2. FlattenSeq(y) \in Seq(S)
      BY FlattenType
    <3> QED BY <3>1, <3>2, ElementOfSeq
  <2>10. FlattenSeq(u) = (a \o b) \o c /\ FlattenSeq(v) = b \o c
    BY <2>6, <2>7, <2>8
  <2> HIDE DEF a, b, c
  <2>11. Associates(a, b, c)
    BY <2>9, ConcatAssociates
  <2>12. FlattenSeq(u) = a \o FlattenSeq(v)
    BY <2>10, <2>11, Zenon DEF Associates
  <2> QED BY <2>12, Zenon DEF a
<1>3. N = Nat
  <2>1. N \in SUBSET Nat
    OBVIOUS
  <2> HIDE DEF N
  <2> QED BY <1>1, <1>2, <2>1, SetInduction
<1>4. Good(s, t)
  <2>1. Len(t) \in N
    BY <1>3, LenProperties
  <2> HIDE DEF Good
  <2> QED BY <2>1
<1> QED BY <1>4

-----------------------------------------------------------------------------
(* Chunks that arrive in pieces.                                           *)

\* A chunk as IsChunked has it.
IsChunk(c) ==
  /\ c.size \in Seq(DOMAIN Digit) \ {<<>>} /\ c.data \in Seq(Chars)
  /\ Number(c.size) = Len(c.data)

LEMMA DigitsAre == DOMAIN Digit = Digits /\ Digits \subseteq Chars /\ CR \notin Digits
BY DEF Digit, Digits, Chars, Printable, KeyChars, CR

LEMMA WidthIs ==
  ASSUME NEW b \in Seq(Chars), NEW w \in 0..Len(b),
         \A i \in 1..w : b[i] \in DOMAIN Digit,
         w < Len(b) => b[w + 1] \notin DOMAIN Digit
  PROVE  SizeWidth(b) = w
<1>1. Len(b) \in Nat /\ DOMAIN b = 1..Len(b)
  BY LenProperties
<1>2. CASE w = Len(b)
  BY <1>1, <1>2 DEF SizeWidth
<1>3. CASE w < Len(b)
  <2> DEFINE I == {i \in 1..Len(b) : b[i] \notin DOMAIN Digit}
             Least(i) == i \in I /\ \A j \in I : i <= j
  <2>1. w + 1 \in I /\ \A j \in I : w + 1 <= j
    BY <1>1, <1>3
  <2>2. SizeWidth(b) = SelectInSeq(b, LAMBDA c : c \notin DOMAIN Digit) - 1
    BY <1>1, <2>1, Zenon DEF SizeWidth
  <2>3. SelectInSeq(b, LAMBDA c : c \notin DOMAIN Digit) = Min(I)
    BY <2>1 DEF SelectInSeq
  <2>4. Min(I) = w + 1
    BY <2>1 DEF Min
  <2> QED BY <2>2, <2>3, <2>4
<1> QED BY <1>2, <1>3

\* What two sequences that begin the same have in common.
LEMMA SameBeginning ==
  ASSUME NEW b \in Seq(Chars), NEW y \in Seq(Chars), NEW w \in Seq(Chars),
         NEW z \in Seq(Chars), Divides(b, y, w, z),
         NEW i \in 1..Len(b), i <= Len(w)
  PROVE  b[i] = w[i]
<1>1. Len(b) \in Nat /\ Len(w) \in Nat /\ i \in 1..Len(w)
  BY LenProperties
<1>2. (b \o y)[i] = b[i]
  BY <1>1, ConcatProperties
<1>3. (w \o z)[i] = w[i]
  BY <1>1, ConcatProperties
<1> QED BY <1>2, <1>3, Zenon DEF Divides

\* r is s and then t, of lengths m and n.
IsJoin(r, s, t, m, n) == r = s \o t /\ Len(s) = m /\ Len(t) = n

LEMMA JoinIs ==
  ASSUME NEW s \in Seq(Chars), NEW t \in Seq(Chars), NEW r, NEW m, NEW n,
         IsJoin(r, s, t, m, n)
  PROVE  /\ r \in Seq(Chars) /\ Len(r) = m + n
         /\ \A i \in 1..m : r[i] = s[i]
         /\ \A i \in 1..n : r[m + i] = t[i]
<1> DEFINE x == s \o t
<1>1. m \in Nat /\ n \in Nat /\ Len(s) = m /\ Len(t) = n
  BY LenProperties DEF IsJoin
<1>2. /\ x \in Seq(Chars) /\ Len(x) = Len(s) + Len(t)
      /\ \A i \in 1..(Len(s) + Len(t)) : x[i] = IF i <= Len(s) THEN s[i] ELSE t[i - Len(s)]
  BY ConcatProperties
<1> HIDE DEF x
<1>3. \A i \in 1..m : x[i] = s[i]
  BY <1>1, <1>2
<1>4. ASSUME NEW i \in 1..n PROVE x[m + i] = t[i]
  <2>1. m + i \in 1..(m + n) /\ ~(m + i <= m) /\ (m + i) - m = i
    BY <1>1
  <2> QED BY <1>1, <1>2, <2>1
<1>5. r = x
  BY Zenon DEF IsJoin, x
<1> QED BY <1>1, <1>2, <1>3, <1>4, <1>5

\* The characters of a chunk.
LEMMA ChunkIs ==
  ASSUME NEW c, IsChunk(c)
  PROVE  /\ Chunk(c) \in Seq(Chars) /\ Len(Chunk(c)) = Len(c.size) + Len(c.data) + 4
         /\ \A i \in 1..Len(c.size) : Chunk(c)[i] = c.size[i]
         /\ Chunk(c)[Len(c.size) + 1] = CR /\ Chunk(c)[Len(c.size) + 2] = LF
         /\ \A i \in 1..Len(c.data) : Chunk(c)[Len(c.size) + 2 + i] = c.data[i]
<1> DEFINE w == c.size  v == c.data  u == <<CR, LF>>  m == Len(w)  n == Len(v)
           p == w \o u  q == p \o v
<1>1. Chunk(c) = q \o u
  BY Zenon DEF Chunk, CR, LF
<1>2. w \in Seq(Chars) /\ v \in Seq(Chars)
  BY DigitsAre, SeqMonotonic DEF IsChunk
<1> HIDE DEF w, v
<1>3. u \in Seq(Chars) /\ Len(u) = 2 /\ u[1] = CR /\ u[2] = LF
  BY DEF Chars
<1>4. m \in Nat /\ n \in Nat /\ Len(w) = m /\ Len(v) = n
  BY <1>2, LenProperties
<1> HIDE DEF u, m, n
<1>5. /\ p \in Seq(Chars) /\ Len(p) = m + 2
      /\ \A i \in 1..m : p[i] = w[i]
      /\ p[m + 1] = CR /\ p[m + 2] = LF
  <2>1. IsJoin(p, w, u, m, 2)
    BY <1>3, <1>4, Zenon DEF IsJoin
  <2> HIDE DEF p
  <2>2. /\ p \in Seq(Chars) /\ Len(p) = m + 2
        /\ \A i \in 1..m : p[i] = w[i]
        /\ \A i \in 1..2 : p[m + i] = u[i]
    BY <1>2, <1>3, <2>1, JoinIs
  <2> QED BY <1>3, <2>2
<1>6. /\ q \in Seq(Chars) /\ Len(q) = m + 2 + n
      /\ \A i \in 1..(m + 2) : q[i] = p[i]
      /\ \A i \in 1..n : q[m + 2 + i] = v[i]
  <2> DEFINE j == m + 2
  <2> HIDE DEF p
  <2>1. IsJoin(q, p, v, j, n)
    BY <1>4, <1>5, Zenon DEF IsJoin
  <2> HIDE DEF q, j
  <2>2. /\ q \in Seq(Chars) /\ Len(q) = j + n
        /\ \A i \in 1..j : q[i] = p[i]
        /\ \A i \in 1..n : q[j + i] = v[i]
    BY <1>2, <1>5, <2>1, JoinIs
  <2> QED BY <2>2 DEF j
<1> DEFINE t == q \o u
<1>7. /\ t \in Seq(Chars) /\ Len(t) = m + n + 4
      /\ \A i \in 1..(m + 2 + n) : t[i] = q[i]
  <2> DEFINE j == m + 2 + n
  <2> HIDE DEF p, q
  <2>1. IsJoin(t, q, u, j, 2)
    BY <1>3, <1>6, Zenon DEF IsJoin
  <2> HIDE DEF t, j
  <2>2. /\ t \in Seq(Chars) /\ Len(t) = j + 2
        /\ \A i \in 1..j : t[i] = q[i]
    BY <1>3, <1>6, <2>1, JoinIs
  <2> QED BY <1>4, <2>2 DEF j
<1> HIDE DEF p, q, t
<1>8. /\ \A i \in 1..m : t[i] = w[i]
      /\ t[m + 1] = CR /\ t[m + 2] = LF
      /\ \A i \in 1..n : t[m + 2 + i] = v[i]
  <2>1. ASSUME NEW i \in 1..m PROVE t[i] = w[i]
    <3>1. i \in 1..(m + 2 + n) /\ i \in 1..(m + 2)
      BY <1>4
    <3> QED BY <1>5, <1>6, <1>7, <3>1
  <2>2. t[m + 1] = CR /\ t[m + 2] = LF
    <3>1. m + 1 \in 1..(m + 2 + n) /\ m + 1 \in 1..(m + 2) /\ m + 2 \in 1..(m + 2 + n) /\ m + 2 \in 1..(m + 2)
      BY <1>4
    <3> QED BY <1>5, <1>6, <1>7, <3>1
  <2>3. ASSUME NEW i \in 1..n PROVE t[m + 2 + i] = v[i]
    <3>1. m + 2 + i \in 1..(m + 2 + n)
      BY <1>4
    <3> QED BY <1>6, <1>7, <3>1
  <2> QED BY <2>1, <2>2, <2>3
<1>9. Chunk(c) = t
  BY <1>1, Zenon DEF t, q, p
<1> QED BY <1>4, <1>7, <1>8, <1>9 DEF w, v

\* Cut out of a sequence: what lies at the same places.
LEMMA CutIs ==
  ASSUME NEW b \in Seq(Chars), NEW v \in Seq(Chars), NEW m \in Nat,
         m + Len(v) <= Len(b), \A i \in 1..Len(v) : b[m + i] = v[i]
  PROVE  SubSeq(b, m + 1, m + Len(v)) = v
<1> DEFINE n == Len(v)  s == SubSeq(b, m + 1, m + n)
<1>1. n \in Nat /\ Len(b) \in Nat /\ m + n <= Len(b)
  BY LenProperties
<1>2. \A i \in (m + 1)..(m + n) : b[i] \in Chars
  BY <1>1, ElementOfSeq
<1> HIDE DEF n
<1>3. /\ s \in Seq(Chars) /\ Len(s) = IF m + 1 <= m + n THEN (m + n) - (m + 1) + 1 ELSE 0
      /\ \A i \in 1..((m + n) - (m + 1) + 1) : s[i] = b[(m + 1) + i - 1]
  BY <1>1, <1>2, SubSeqProperties
<1>4. \A i \in 1..n : (m + 1) + i - 1 = m + i /\ i \in 1..((m + n) - (m + 1) + 1)
  BY <1>1
<1> HIDE DEF s
<1>5. Len(s) = n /\ \A i \in 1..n : s[i] = b[m + i]
  BY <1>1, <1>3, <1>4
<1>6. \A i \in 1..n : s[i] = v[i]
  BY <1>5 DEF n
<1>7. Len(v) = n
  BY DEF n
<1>8. s = v
  BY <1>3, <1>5, <1>6, <1>7, SeqEqual
<1> QED BY <1>8, Zenon DEF s, n

\* What decode() does at the beginning of a stream that begins with a chunk:
\* as long as the chunk is not complete, it waits, or throws because it looks
\* behind the buffer; then it takes the chunk, whatever has arrived behind it.
ReadsChunk(d, b, c) ==
  IF Len(b) < Len(Chunk(c))
  THEN \A r \in DecodeChunk(d, b) : r = Wait(d) \/ (r = Bad(d) /\ Overread(b))
  ELSE DecodeChunk(d, b) =
         {Msg([d EXCEPT !.rest = IF c.data = <<>> THEN 0 ELSE @], c.data, Len(Chunk(c)))}

LEMMA ChunkRead ==
  ASSUME NEW c, IsChunk(c), NEW b \in Seq(Chars), NEW y \in Seq(Chars),
         NEW z \in Seq(Chars), Divides(b, y, Chunk(c), z), NEW d
  PROVE  ReadsChunk(d, b, c)
<1> DEFINE w == Chunk(c)  s == c.size  v == c.data  m == Len(s)  n == Len(v)
<1>1. /\ w \in Seq(Chars) /\ Len(w) = m + n + 4
      /\ \A i \in 1..m : w[i] = s[i]
      /\ w[m + 1] = CR /\ w[m + 2] = LF
      /\ \A i \in 1..n : w[m + 2 + i] = v[i]
  BY ChunkIs
<1>2. s \in Seq(Chars) /\ s \in Seq(DOMAIN Digit) /\ v \in Seq(Chars) /\ s # <<>> /\ Number(s) = n
  BY DigitsAre, SeqMonotonic DEF IsChunk
<1>3. Divides(b, y, w, z)
  OBVIOUS
<1> HIDE DEF w, s, v
<1>4. m \in Nat /\ n \in Nat /\ m # 0 /\ Len(b) \in Nat
  BY <1>2, LenProperties, EmptySeq
<1> HIDE DEF m, n
<1>5. ASSUME NEW i \in 1..Len(b), i <= m + n + 4 PROVE b[i] = w[i]
  <2>1. i <= Len(w)
    BY <1>1, <1>5
  <2> QED BY <1>1, <1>3, <2>1, SameBeginning
<1>6. \A i \in 1..m : i <= Len(b) => b[i] \in DOMAIN Digit
  <2> SUFFICES ASSUME NEW i \in 1..m, i <= Len(b) PROVE b[i] \in DOMAIN Digit
    OBVIOUS
  <2>1. b[i] = s[i]
    BY <1>1, <1>4, <1>5
  <2>2. s[i] \in DOMAIN Digit
    BY <1>2, ElementOfSeq DEF m
  <2> QED BY <2>1, <2>2
<1>7. CASE Len(b) <= m
  <2>1. SizeWidth(b) = Len(b)
    <3> DEFINE k == Len(b)
    <3>1. k \in 0..Len(b) /\ ~(k < Len(b)) /\ \A i \in 1..k : b[i] \in DOMAIN Digit
      BY <1>4, <1>6, <1>7
    <3> HIDE DEF k
    <3>2. SizeWidth(b) = k
      BY <3>1, WidthIs
    <3> QED BY <3>2 DEF k
  <2>2. Overread(b)
    BY <2>1 DEF Overread
  <2>3. \A r \in DecodeChunk(d, b) : r = Wait(d) \/ r = Bad(d)
    BY <2>2, Zenon DEF DecodeChunk
  <2>4. Len(b) < Len(w)
    BY <1>1, <1>4, <1>7
  <2> QED BY <2>2, <2>3, <2>4, Zenon DEF ReadsChunk, w
<1>8. CASE m < Len(b)
  <2>1. b[m + 1] = CR
    <3>1. m + 1 \in 1..Len(b) /\ m + 1 <= m + n + 4
      BY <1>4, <1>8
    <3> QED BY <1>1, <1>5, <3>1
  <2>2. SizeWidth(b) = m
    <3>1. m \in 0..Len(b) /\ \A i \in 1..m : b[i] \in DOMAIN Digit
      BY <1>4, <1>6, <1>8
    <3>2. b[m + 1] \notin DOMAIN Digit
      BY <2>1, DigitsAre
    <3> QED BY <3>1, <3>2, WidthIs
  <2>3. SubSeq(b, 1, m) = s
    <3> DEFINE k == 0
    <3>1. k \in Nat /\ k + Len(s) <= Len(b) /\ \A i \in 1..Len(s) : b[k + i] = s[i]
      <4>1. \A i \in 1..m : k + i = i /\ i \in 1..Len(b) /\ i <= m + n + 4
        BY <1>4, <1>8
      <4>2. \A i \in 1..m : b[i] = s[i]
        BY <1>1, <1>5, <4>1
      <4> QED BY <1>4, <1>8, <4>1, <4>2 DEF m
    <3> HIDE DEF k
    <3>2. SubSeq(b, k + 1, k + Len(s)) = s
      BY <1>2, <3>1, CutIs
    <3>3. k + 1 = 1 /\ k + Len(s) = m
      BY <1>4 DEF k, m
    <3> QED BY <3>2, <3>3
  <2>4. Size(b) = n /\ ChunkSize(b) = m + n + 4
    <3>1. Size(b) = n
      BY <1>2, <2>2, <2>3 DEF Size
    <3> QED BY <1>4, <2>2, <3>1 DEF ChunkSize
  <2>5. CASE Len(b) = m + 1
    <3>1. Overread(b)
      <4>1. m = Len(b) - 1
        BY <1>4, <2>5
      <4> QED BY <2>1, <2>2, <4>1 DEF Overread, CR
    <3>2. \A r \in DecodeChunk(d, b) : r = Wait(d) \/ r = Bad(d)
      BY <3>1, Zenon DEF DecodeChunk
    <3>3. Len(b) < Len(w)
      BY <1>1, <1>4, <2>5
    <3> QED BY <3>1, <3>2, <3>3, Zenon DEF ReadsChunk, w
  <2>6. CASE m + 1 < Len(b)
    <3>1. ~Overread(b)
      <4>1. m # Len(b) /\ m # Len(b) - 1
        BY <1>4, <2>6
      <4> QED BY <2>2, <4>1 DEF Overread
    <3>2. SubSeq(b, m + 1, m + 2) = <<"\r", "\n">>
      <4> DEFINE u == <<CR, LF>>
      <4>1. u \in Seq(Chars) /\ Len(u) = 2 /\ u[1] = CR /\ u[2] = LF
        BY DEF Chars
      <4>2. b[m + 1] = CR /\ b[m + 2] = LF
        <5>1. m + 2 \in 1..Len(b) /\ m + 2 <= m + n + 4
          BY <1>4, <2>6
        <5> QED BY <1>1, <1>5, <2>1, <5>1
      <4> HIDE DEF u
      <4>3. m + Len(u) <= Len(b) /\ \A i \in 1..Len(u) : b[m + i] = u[i]
        BY <1>4, <2>6, <4>1, <4>2
      <4>4. SubSeq(b, m + 1, m + Len(u)) = u
        BY <1>4, <4>1, <4>3, CutIs
      <4>5. SubSeq(b, m + 1, m + 2) = u
        BY <4>1, <4>4
      <4> QED BY <4>5, Zenon DEF u, CR, LF
    <3>3. CASE Len(b) < m + n + 4
      <4>1. \A r \in DecodeChunk(d, b) : r = Wait(d)
        BY <1>4, <2>2, <2>4, <3>1, <3>2, <3>3, Zenon DEF DecodeChunk
      <4>2. Len(b) < Len(w)
        BY <1>1, <3>3
      <4> QED BY <4>1, <4>2, Zenon DEF ReadsChunk, w
    <3>4. CASE ~(Len(b) < m + n + 4)
      <4>1. SubSeq(b, m + 3, m + 2 + n) = v
        <5> DEFINE k == m + 2
        <5>1. k \in Nat /\ k + Len(v) <= Len(b)
          BY <1>4, <3>4 DEF n
        <5>2. \A i \in 1..Len(v) : b[k + i] = v[i]
          <6>1. \A i \in 1..n : m + 2 + i \in 1..Len(b) /\ m + 2 + i <= m + n + 4
            BY <1>4, <3>4
          <6>2. \A i \in 1..n : b[m + 2 + i] = v[i]
            BY <1>1, <1>5, <6>1
          <6> QED BY <6>2 DEF n
        <5> HIDE DEF k
        <5>3. SubSeq(b, k + 1, k + Len(v)) = v
          BY <1>2, <5>1, <5>2, CutIs
        <5>4. k + 1 = m + 3 /\ k + Len(v) = m + 2 + n
          BY <1>4 DEF k, n
        <5> QED BY <5>3, <5>4
      <4>2. ~(Len(b) <= 3) /\ ~(Len(b) < ChunkSize(b))
        BY <1>4, <2>4, <3>4
      <4> DEFINE e == [d EXCEPT !.rest = IF Size(b) = 0 THEN 0 ELSE @]
      <4>3. DecodeChunk(d, b) = {Msg(e, SubSeq(b, m + 3, m + 2 + Size(b)), ChunkSize(b))}
        BY <1>4, <2>2, <3>1, <3>2, <4>2, Zenon DEF DecodeChunk
      <4>4. e = [d EXCEPT !.rest = IF v = <<>> THEN 0 ELSE @]
        <5>1. n = 0 <=> v = <<>>
          BY <1>2, EmptySeq DEF n
        <5> QED BY <2>4, <5>1
      <4> HIDE DEF e
      <4>5. DecodeChunk(d, b) = {Msg([d EXCEPT !.rest = IF v = <<>> THEN 0 ELSE @], v, Len(w))}
        BY <1>1, <2>4, <4>1, <4>3, <4>4, Zenon
      <4>6. ~(Len(b) < Len(w))
        BY <1>1, <3>4
      <4> QED BY <4>5, <4>6, Zenon DEF ReadsChunk, w, v
    <3> QED BY <3>3, <3>4
  <2> QED BY <1>4, <1>8, <2>5, <2>6
<1> QED BY <1>4, <1>7, <1>8

-----------------------------------------------------------------------------
(* Bodies that arrive in pieces.                                           *)

ChunkRecords == [size : Seq(Chars), data : Seq(Chars)]

\* What is left of a body in chunks: v on the wire, with the data u.
LeftInChunks(v, u) == \E cs \in Seq(ChunkRecords) : IsChunked(cs) /\ v = Chunks(cs) /\ u = Data(cs)

\* What is left for decoder d of a body: v on the wire, with the data u.
Left(d, v, u) == IF d.chunked /\ d.rest = -1 THEN LeftInChunks(v, u)
                 ELSE v = u /\ (d.rest # -1 => d.rest = Len(u))

\* r is s and behind it t.
JoinFirst(r, s, t) == r = s \o t

LEMMA FlattenFrom ==
  ASSUME NEW s \in Seq(Seq(Chars)), NEW t \in Seq(Seq(Chars)), Follows(s, t)
  PROVE  /\ JoinFirst(FlattenSeq(s), s[1], FlattenSeq(t))
         /\ FlattenSeq(s) \in Seq(Chars) /\ FlattenSeq(t) \in Seq(Chars)
<1>1. FlattenSeq(s) = s[1] \o FlattenSeq(t)
  BY FlattenFirst
<1>2. FlattenSeq(s) \in Seq(Chars) /\ FlattenSeq(t) \in Seq(Chars)
  BY FlattenType
<1> QED BY <1>1, <1>2, Zenon DEF JoinFirst

\* A body in chunks is a chunk and what is left behind it, nothing if it is
\* the last one.
ChunksAfter(c, v, u, v2, u2) ==
  /\ JoinFirst(v, Chunk(c), v2) /\ JoinFirst(u, c.data, u2)
  /\ v2 \in Seq(Chars) /\ u2 \in Seq(Chars)
  /\ IF c.data = <<>> THEN v2 = <<>> /\ u2 = <<>> ELSE LeftInChunks(v2, u2)

LEMMA ChunksFirst ==
  ASSUME NEW v, NEW u, LeftInChunks(v, u)
  PROVE  \E c, v2, u2 : IsChunk(c) /\ ChunksAfter(c, v, u, v2, u2)
<1>1. PICK cs \in Seq(ChunkRecords) : IsChunked(cs) /\ v = Chunks(cs) /\ u = Data(cs)
  BY DEF LeftInChunks
<1> DEFINE n == Len(cs)  ds == [i \in 1..(n - 1) |-> cs[i + 1]]
           X == [i \in 1..n |-> Chunk(cs[i])]  Y == [i \in 1..n |-> cs[i].data]
           X2 == [i \in 1..(n - 1) |-> Chunk(ds[i])]  Y2 == [i \in 1..(n - 1) |-> ds[i].data]
<1>2. n \in Nat /\ n # 0 /\ cs # <<>>
  BY <1>1, LenProperties, EmptySeq DEF IsChunked
<1>3. ASSUME NEW i \in 1..n
      PROVE  /\ cs[i] \in ChunkRecords /\ IsChunk(cs[i]) /\ Chunk(cs[i]) \in Seq(Chars)
             /\ cs[i].data \in Seq(Chars) /\ (cs[i].data = <<>> <=> i = n)
  <2>1. cs[i] \in ChunkRecords
    BY ElementOfSeq
  <2>2. /\ cs[i].size \in Seq(DOMAIN Digit) \ {<<>>} /\ Number(cs[i].size) = Len(cs[i].data)
        /\ (cs[i].data = <<>> <=> i = n)
    BY <1>1, Zenon DEF IsChunked
  <2>3. cs[i].data \in Seq(Chars)
    BY <2>1 DEF ChunkRecords
  <2>4. IsChunk(cs[i])
    BY <2>2, <2>3, Zenon DEF IsChunk
  <2>5. Chunk(cs[i]) \in Seq(Chars)
    BY <2>4, ChunkIs
  <2> QED BY <2>1, <2>2, <2>3, <2>4, <2>5
<1>4. ds \in Seq(ChunkRecords) /\ Len(ds) = n - 1 /\ \A i \in 1..(n - 1) : ds[i] = cs[i + 1]
  <2>1. \A i \in 1..(n - 1) : i + 1 \in 1..n
    BY <1>2
  <2>2. \A i \in 1..(n - 1) : cs[i + 1] \in ChunkRecords
    BY <1>3, <2>1
  <2> HIDE DEF n
  <2> QED BY <1>2, <2>2
<1> HIDE DEF n, ds
<1>5. /\ X \in Seq(Seq(Chars)) /\ Len(X) = n /\ Y \in Seq(Seq(Chars)) /\ Len(Y) = n
      /\ \A i \in 1..n : X[i] = Chunk(cs[i]) /\ Y[i] = cs[i].data
  BY <1>2, <1>3
<1>6. /\ X2 \in Seq(Seq(Chars)) /\ Len(X2) = n - 1 /\ Y2 \in Seq(Seq(Chars)) /\ Len(Y2) = n - 1
      /\ \A i \in 1..(n - 1) : X2[i] = Chunk(cs[i + 1]) /\ Y2[i] = cs[i + 1].data
  <2>1. \A i \in 1..(n - 1) : i + 1 \in 1..n
    BY <1>2
  <2>2. \A i \in 1..(n - 1) : Chunk(ds[i]) = Chunk(cs[i + 1]) /\ ds[i].data = cs[i + 1].data
    BY <1>4
  <2>3. \A i \in 1..(n - 1) : Chunk(ds[i]) \in Seq(Chars) /\ ds[i].data \in Seq(Chars)
    BY <1>3, <2>1, <2>2
  <2> QED BY <1>2, <2>2, <2>3
<1>7. FlattenSeq(X) = v /\ FlattenSeq(Y) = u
  BY <1>1, Zenon DEF Chunks, Data, n
<1>8. FlattenSeq(X2) = Chunks(ds) /\ FlattenSeq(Y2) = Data(ds)
  <2>1. n - 1 = Len(ds)
    BY <1>4
  <2> QED BY <2>1, Zenon DEF Chunks, Data
<1> HIDE DEF X, Y, X2, Y2
<1>9. Follows(X, X2) /\ Follows(Y, Y2)
  <2>1. ASSUME NEW i \in 1..(n - 1) PROVE X2[i] = X[i + 1] /\ Y2[i] = Y[i + 1]
    <3>1. i + 1 \in 1..n
      BY <1>2
    <3>2. X[i + 1] = Chunk(cs[i + 1]) /\ Y[i + 1] = cs[i + 1].data
      BY <1>5, <3>1
    <3>3. X2[i] = Chunk(cs[i + 1]) /\ Y2[i] = cs[i + 1].data
      BY <1>6
    <3> QED BY <3>2, <3>3
  <2>2. n = (n - 1) + 1
    BY <1>2
  <2>3. Len(X) = Len(X2) + 1 /\ \A i \in 1..Len(X2) : X2[i] = X[i + 1]
    BY <1>5, <1>6, <2>1, <2>2
  <2>4. Len(Y) = Len(Y2) + 1 /\ \A i \in 1..Len(Y2) : Y2[i] = Y[i + 1]
    BY <1>5, <1>6, <2>1, <2>2
  <2> QED BY <2>3, <2>4 DEF Follows
<1> DEFINE c == cs[1]  v2 == Chunks(ds)  u2 == Data(ds)
<1>10. 1 \in 1..n /\ X[1] = Chunk(c) /\ Y[1] = c.data
  BY <1>2, <1>5
<1>11. JoinFirst(v, Chunk(c), v2) /\ v2 \in Seq(Chars)
  <2>1. JoinFirst(FlattenSeq(X), X[1], FlattenSeq(X2)) /\ FlattenSeq(X2) \in Seq(Chars)
    BY <1>5, <1>6, <1>9, FlattenFrom
  <2> QED BY <1>7, <1>8, <1>10, <2>1
<1>12. JoinFirst(u, c.data, u2) /\ u2 \in Seq(Chars)
  <2>1. JoinFirst(FlattenSeq(Y), Y[1], FlattenSeq(Y2)) /\ FlattenSeq(Y2) \in Seq(Chars)
    BY <1>5, <1>6, <1>9, FlattenFrom
  <2> QED BY <1>7, <1>8, <1>10, <2>1
<1>13. IF c.data = <<>> THEN v2 = <<>> /\ u2 = <<>> ELSE LeftInChunks(v2, u2)
  <2>1. CASE c.data = <<>>
    <3>1. n = 1
      BY <1>3, <1>10, <2>1
    <3>2. Len(X2) = 0 /\ Len(Y2) = 0 /\ X2 = <<>> /\ Y2 = <<>>
      BY <1>6, <3>1
    <3>3. FlattenSeq(X2) = <<>> /\ FlattenSeq(Y2) = <<>>
      BY <3>2, FlattenEmpty
    <3> QED BY <1>8, <2>1, <3>3
  <2>2. CASE c.data # <<>>
    <3>1. n # 1 /\ n - 1 \in Nat /\ n - 1 # 0
      BY <1>2, <1>3, <1>10, <2>2
    <3>2. ds # <<>>
      BY <1>4, <3>1
    <3>3. ASSUME NEW i \in 1..Len(ds)
          PROVE  /\ ds[i].size \in Seq(DOMAIN Digit) \ {<<>>}
                 /\ Number(ds[i].size) = Len(ds[i].data)
                 /\ ds[i].data = <<>> <=> i = Len(ds)
      <4>1. i + 1 \in 1..n /\ ds[i] = cs[i + 1] /\ Len(ds) = n - 1
        BY <1>2, <1>4
      <4>2. i + 1 = n <=> i = Len(ds)
        BY <1>2, <4>1
      <4>3. IsChunk(cs[i + 1]) /\ (cs[i + 1].data = <<>> <=> i + 1 = n)
        BY <1>3, <4>1
      <4> QED BY <4>1, <4>2, <4>3 DEF IsChunk
    <3>4. IsChunked(ds)
      BY <3>2, <3>3, Zenon DEF IsChunked
    <3>5. LeftInChunks(v2, u2)
      BY <1>4, <3>4 DEF LeftInChunks
    <3> QED BY <2>2, <3>5
  <2> QED BY <2>1, <2>2
<1>14. IsChunk(c)
  BY <1>3, <1>10
<1>15. ChunksAfter(c, v, u, v2, u2)
  BY <1>11, <1>12, <1>13 DEF ChunksAfter
<1> HIDE DEF c, v2, u2
<1> QED BY <1>14, <1>15

\* What is left of a sequence behind its first n members.
Cut(b, n) == SubSeq(b, n + 1, Len(b))

LEMMA CutTail ==
  ASSUME NEW b \in Seq(Chars), NEW n \in Nat, n <= Len(b)
  PROVE  /\ Cut(b, n) \in Seq(Chars) /\ Len(Cut(b, n)) = Len(b) - n
         /\ SubSeq(b, 1, n) \in Seq(Chars) /\ Len(SubSeq(b, 1, n)) = n
         /\ \A i \in 1..n : SubSeq(b, 1, n)[i] = b[i]
         /\ JoinFirst(b, SubSeq(b, 1, n), Cut(b, n))
<1> DEFINE m == Len(b)
<1>1. m \in Nat /\ n <= m /\ \A i \in 1..m : b[i] \in Chars
  BY LenProperties, ElementOfSeq
<1> HIDE DEF m
<1>2. /\ SubSeq(b, 1, n) \in Seq(Chars) /\ Len(SubSeq(b, 1, n)) = n
      /\ \A i \in 1..n : SubSeq(b, 1, n)[i] = b[i]
  <2>1. \A i \in 1..n : b[i] \in Chars
    BY <1>1
  <2> QED BY <1>1, <2>1, SubSeqProperties
<1>3. SubSeq(b, n + 1, m) \in Seq(Chars) /\ Len(SubSeq(b, n + 1, m)) = m - n
  <2>1. \A i \in (n + 1)..m : b[i] \in Chars
    BY <1>1
  <2>2. /\ SubSeq(b, n + 1, m) \in Seq(Chars)
        /\ Len(SubSeq(b, n + 1, m)) = IF n + 1 <= m THEN m - (n + 1) + 1 ELSE 0
    BY <1>1, <2>1, SubSeqProperties
  <2> QED BY <1>1, <2>2
<1>4. SubSeq(b, 1, n) \o SubSeq(b, n + 1, m) = b
  <2>1. SubSeq(b, 1, m) = b
    BY SubSeqFull DEF m
  <2>2. 1 \in 1..(Len(b) + 1) /\ n \in (1 - 1)..Len(b) /\ m \in n..Len(b)
    BY <1>1 DEF m
  <2>3. SubSeq(b, 1, n) \o SubSeq(b, n + 1, m) = SubSeq(b, 1, m)
    BY <2>2, ConcatAdjacentSubSeq
  <2> QED BY <2>1, <2>3
<1>5. JoinFirst(b, SubSeq(b, 1, n), SubSeq(b, n + 1, m))
  BY <1>4, Zenon DEF JoinFirst
<1> QED BY <1>2, <1>3, <1>5 DEF Cut, m

\* The same number of members taken from two divisions of a sequence.
LEMMA CutBoth ==
  ASSUME NEW b \in Seq(Chars), NEW y \in Seq(Chars), NEW v \in Seq(Chars),
         NEW z \in Seq(Chars), Divides(b, y, v, z),
         NEW n \in Nat, n <= Len(b), n <= Len(v)
  PROVE  SubSeq(b, 1, n) = SubSeq(v, 1, n) /\ Divides(Cut(b, n), y, Cut(v, n), z)
<1> DEFINE a == SubSeq(b, 1, n)  c == SubSeq(v, 1, n)  x == Cut(b, n)  w == Cut(v, n)
<1>1. /\ x \in Seq(Chars) /\ a \in Seq(Chars) /\ Len(a) = n
      /\ (\A i \in 1..n : a[i] = b[i]) /\ JoinFirst(b, a, x)
  BY CutTail
<1>2. /\ w \in Seq(Chars) /\ c \in Seq(Chars) /\ Len(c) = n
      /\ (\A i \in 1..n : c[i] = v[i]) /\ JoinFirst(v, c, w)
  BY CutTail
<1>3. ASSUME NEW i \in 1..n PROVE b[i] = v[i]
  <2>1. Len(b) \in Nat /\ Len(v) \in Nat
    BY LenProperties
  <2>2. i \in 1..Len(b) /\ i <= Len(v)
    BY <2>1
  <2> QED BY <2>2, SameBeginning
<1> HIDE DEF a, c, x, w
<1>4. a = c
  <2>1. \A i \in 1..n : a[i] = c[i]
    BY <1>1, <1>2, <1>3
  <2> QED BY <1>1, <1>2, <2>1, SeqEqual
<1>5. (a \o x) \o y = (a \o w) \o z
  BY <1>1, <1>2, <1>4, Zenon DEF JoinFirst, Divides
<1>6. Associates(a, x, y) /\ Associates(a, w, z)
  BY <1>1, <1>2, ConcatAssociates
<1>7. a \o (x \o y) = a \o (w \o z)
  BY <1>5, <1>6, Zenon DEF Associates
<1>8. x \o y = w \o z
  <2> DEFINE p == x \o y  q == w \o z
  <2>1. p \in Seq(Chars) /\ q \in Seq(Chars)
    BY <1>1, <1>2, ConcatProperties
  <2>2. a \o p = a \o q
    BY <1>7
  <2> HIDE DEF p, q
  <2>3. p = q
    BY <1>1, <2>1, <2>2, ConcatSimplifications
  <2> QED BY <2>3, Zenon DEF p, q
<1>9. Divides(x, y, w, z)
  BY <1>8, Zenon DEF Divides
<1> QED BY <1>4, <1>9 DEF a, c, x, w

\* What is left when all of v is taken.
LEMMA CutWhole ==
  ASSUME NEW b \in Seq(Chars), NEW y \in Seq(Chars), NEW v \in Seq(Chars),
         NEW z \in Seq(Chars), Divides(b, y, v, z), Len(v) <= Len(b)
  PROVE  Cut(b, Len(v)) \in Seq(Chars) /\ JoinFirst(z, Cut(b, Len(v)), y)
<1> DEFINE n == Len(v)  x == Cut(b, n)
<1>1. n \in Nat /\ n <= Len(b) /\ n <= Len(v)
  BY LenProperties
<1>2. Cut(v, n) = <<>>
  <2>1. Cut(v, n) \in Seq(Chars) /\ Len(Cut(v, n)) = Len(v) - n
    BY <1>1, CutTail
  <2>2. Len(v) - n = 0
    BY <1>1
  <2> HIDE DEF n
  <2> QED BY <2>1, <2>2, EmptySeq
<1> HIDE DEF n
<1>3. x \in Seq(Chars) /\ Divides(x, y, Cut(v, n), z)
  BY <1>1, CutBoth, CutTail
<1> HIDE DEF x
<1>4. <<>> \o z = z
  BY ConcatEmptySeq
<1>5. JoinFirst(z, x, y)
  BY <1>2, <1>3, <1>4, Zenon DEF Divides, JoinFirst
<1> QED BY <1>3, <1>5 DEF x, n

\* The first part of a division is divided itself.
LEMMA DividesFirst ==
  ASSUME NEW b, NEW y, NEW v, NEW z \in Seq(Chars), Divides(b, y, v, z),
         NEW w \in Seq(Chars), NEW v2 \in Seq(Chars), JoinFirst(v, w, v2)
  PROVE  Divides(b, y, w, v2 \o z) /\ v2 \o z \in Seq(Chars)
<1>1. Associates(w, v2, z)
  BY ConcatAssociates
<1>2. v2 \o z \in Seq(Chars)
  BY ConcatProperties
<1>3. b \o y = w \o (v2 \o z)
  BY <1>1, Zenon DEF Divides, JoinFirst, Associates
<1> QED BY <1>2, <1>3, Zenon DEF Divides

Decoders == [chunked : BOOLEAN, rest : Nat \cup {-1}]

\* A decoder that takes what comes until the end.
Unbounded(d) == d.rest = -1 /\ ~d.chunked

\* decode() has read nothing: there is not enough, or it has looked behind the
\* buffer b before all has arrived (y has not).
Stuck(d, r, b, y) == r = Wait(d) \/ (r = Bad(d) /\ Overread(b) /\ y # <<>>)

\* decode() has read a part of the body: of the rest v on the wire, with the
\* data u, the rest v2 with the data u2 is left, and z behind it.
Progress(d, r, b, y, u, z) ==
  \E v2, u2 \in Seq(Chars) :
    /\ r.res = "msg" /\ r.d \in Decoders /\ r.data \in Seq(Chars)
    /\ Left(r.d, v2, u2) /\ JoinFirst(u, r.data, u2)
    /\ Cut(b, r.n) \in Seq(Chars) /\ Divides(Cut(b, r.n), y, v2, z)
    /\ Unbounded(r.d) => Unbounded(d)

\* Where a body is: v is left of it on the wire, with the data u, and z behind
\* it; of all this b is in the buffer and y on its way.
BodyAt(d, b, y, v, u, z) ==
  /\ d \in Decoders /\ b \in Seq(Chars) /\ y \in Seq(Chars)
  /\ v \in Seq(Chars) /\ u \in Seq(Chars) /\ z \in Seq(Chars)
  /\ Divides(b, y, v, z) /\ Left(d, v, u) /\ (Unbounded(d) => z = <<>>)

LEMMA ChunkStep ==
  ASSUME NEW d, NEW b, NEW y, NEW v, NEW u, NEW z, BodyAt(d, b, y, v, u, z),
         d.rest = -1, d.chunked, NEW r \in DecodeTransfer(d, b)
  PROVE  Stuck(d, r, b, y) \/ Progress(d, r, b, y, u, z)
<1>1. PICK c, v2, u2 : IsChunk(c) /\ ChunksAfter(c, v, u, v2, u2)
  <2>1. LeftInChunks(v, u)
    BY DEF BodyAt, Left
  <2> QED BY <2>1, ChunksFirst
<1>2. Chunk(c) \in Seq(Chars)
  BY <1>1, ChunkIs
<1>3. /\ b \in Seq(Chars) /\ y \in Seq(Chars) /\ z \in Seq(Chars) /\ Divides(b, y, v, z)
      /\ d \in Decoders
  BY DEF BodyAt
<1>4. /\ v2 \in Seq(Chars) /\ u2 \in Seq(Chars) /\ JoinFirst(v, Chunk(c), v2)
      /\ JoinFirst(u, c.data, u2) /\ c.data \in Seq(Chars)
      /\ IF c.data = <<>> THEN v2 = <<>> /\ u2 = <<>> ELSE LeftInChunks(v2, u2)
  BY <1>1 DEF ChunksAfter, IsChunk
<1> DEFINE w == Chunk(c)  t == v2 \o z
<1>5. Divides(b, y, w, t) /\ t \in Seq(Chars)
  BY <1>2, <1>3, <1>4, DividesFirst
<1>6. ReadsChunk(d, b, c)
  <2> HIDE DEF t
  <2> QED BY <1>1, <1>3, <1>5, ChunkRead
<1>7. r \in DecodeChunk(d, b)
  BY DEF DecodeTransfer
<1>8. CASE Len(b) < Len(w)
  <2>1. r = Wait(d) \/ (r = Bad(d) /\ Overread(b))
    BY <1>6, <1>7, <1>8, Zenon DEF ReadsChunk
  <2>2. y # <<>>
    <3>1. ASSUME y = <<>> PROVE FALSE
      <4> HIDE DEF w, t
      <4>1. b \o y = b /\ b \o y = w \o t
        BY <1>3, <1>5, <3>1, ConcatEmptySeq, Zenon DEF Divides
      <4>2. Len(w \o t) = Len(w) + Len(t) /\ Len(w) \in Nat /\ Len(t) \in Nat /\ Len(b) \in Nat
        BY <1>2, <1>3, <1>5, ConcatProperties, LenProperties DEF w
      <4>3. b = w \o t
        BY <4>1, Zenon
      <4>4. Len(b) = Len(w) + Len(t)
        BY <4>2, <4>3, Zenon
      <4> QED BY <1>8, <4>2, <4>4
    <3> QED BY <3>1
  <2> QED BY <2>1, <2>2 DEF Stuck
<1>9. CASE ~(Len(b) < Len(w))
  <2> DEFINE e == [d EXCEPT !.rest = IF c.data = <<>> THEN 0 ELSE @]  n == Len(w)
  <2>1. r = Msg(e, c.data, n)
    BY <1>6, <1>7, <1>9, Zenon DEF ReadsChunk
  <2>2. e \in Decoders /\ e.chunked = d.chunked /\ e.rest = IF c.data = <<>> THEN 0 ELSE -1
    BY <1>3 DEF Decoders
  <2>3. Len(w) <= Len(b)
    <3>1. Len(w) \in Nat /\ Len(b) \in Nat
      BY <1>2, <1>3, LenProperties
    <3> QED BY <1>9, <3>1
  <2> HIDE DEF e, w, t
  <2>4. Cut(b, Len(w)) \in Seq(Chars) /\ JoinFirst(t, Cut(b, Len(w)), y)
    BY <1>2, <1>3, <1>5, <2>3, CutWhole DEF w
  <2>5. Divides(Cut(b, n), y, v2, z)
    BY <2>4, Zenon DEF JoinFirst, Divides, t
  <2>6. r.res = "msg" /\ r.d = e /\ r.data = c.data /\ r.n = n
    <3> HIDE DEF n
    <3> QED BY <2>1 DEF Msg
  <2>7. Left(e, v2, u2)
    <3>1. CASE c.data = <<>>
      <4>1. e.rest = 0 /\ v2 = <<>> /\ u2 = <<>>
        BY <1>4, <2>2, <3>1
      <4> QED BY <4>1 DEF Left
    <3>2. CASE c.data # <<>>
      <4>1. e.rest = -1 /\ e.chunked /\ LeftInChunks(v2, u2)
        BY <1>4, <2>2, <3>2
      <4> QED BY <4>1 DEF Left
    <3> QED BY <3>1, <3>2
  <2>8. ~Unbounded(r.d)
    BY <2>2, <2>6 DEF Unbounded
  <2>9. Progress(d, r, b, y, u, z)
    <3> HIDE DEF n
    <3>1. Cut(b, r.n) \in Seq(Chars) /\ Divides(Cut(b, r.n), y, v2, z)
      BY <2>4, <2>5, <2>6 DEF n
    <3>2. r.d \in Decoders /\ r.data \in Seq(Chars) /\ Left(r.d, v2, u2) /\ JoinFirst(u, r.data, u2)
      BY <1>4, <2>2, <2>6, <2>7
    <3> QED BY <1>4, <2>6, <2>8, <3>1, <3>2 DEF Progress
  <2> QED BY <2>9
<1> QED BY <1>8, <1>9

LEMMA StringStep ==
  ASSUME NEW d, NEW b, NEW y, NEW v, NEW u, NEW z, BodyAt(d, b, y, v, u, z),
         more(d), ~(d.rest = -1 /\ d.chunked), NEW r \in DecodeTransfer(d, b)
  PROVE  Stuck(d, r, b, y) \/ Progress(d, r, b, y, u, z)
<1>1. /\ b \in Seq(Chars) /\ y \in Seq(Chars) /\ z \in Seq(Chars) /\ Divides(b, y, v, z)
      /\ d \in Decoders /\ v \in Seq(Chars) /\ v = u /\ (d.rest # -1 => d.rest = Len(v))
      /\ (Unbounded(d) => z = <<>>)
  BY DEF BodyAt, Left
<1>2. r = DecodeString(d, b)
  BY DEF DecodeTransfer
<1>3. Len(b) \in Nat /\ Len(v) \in Nat
  BY <1>1, LenProperties
<1>4. CASE b = <<>>
  BY <1>2, <1>4 DEF DecodeString, Stuck
<1>5. CASE b # <<>>
  <2> DEFINE n == Amount(d, b)  e == [d EXCEPT !.rest = Rest(d, n)]
  <2>1. r = Msg(e, SubSeq(b, 1, n), n)
    BY <1>2, <1>5, Zenon DEF DecodeString
  <2>2. n \in Nat /\ n <= Len(b) /\ n <= Len(v) /\ (d.rest # -1 => Rest(d, n) = Len(v) - n)
    <3>1. CASE d.rest = -1
      <4>1. Unbounded(d)
        BY <1>1, <3>1 DEF Unbounded, Decoders
      <4>2. v = b \o y
        <5>1. v \o <<>> = v
          BY <1>1, ConcatEmptySeq
        <5> QED BY <1>1, <4>1, <5>1, Zenon DEF Divides
      <4>3. Len(v) = Len(b) + Len(y) /\ Len(y) \in Nat
        <5>1. Len(b \o y) = Len(b) + Len(y) /\ Len(y) \in Nat
          BY <1>1, ConcatProperties, LenProperties
        <5> QED BY <4>2, <5>1, Zenon
      <4> QED BY <1>3, <3>1, <4>3 DEF Amount
    <3>2. CASE d.rest # -1
      BY <1>1, <1>3, <3>2 DEF Amount, Rest
    <3> QED BY <3>1, <3>2
  <2> HIDE DEF n
  <2>3. /\ SubSeq(b, 1, n) = SubSeq(v, 1, n) /\ Divides(Cut(b, n), y, Cut(v, n), z)
    BY <1>1, <2>2, CutBoth
  <2>4. SubSeq(b, 1, n) \in Seq(Chars) /\ Cut(b, n) \in Seq(Chars)
    BY <1>1, <2>2, CutTail
  <2>5. Cut(v, n) \in Seq(Chars) /\ Len(Cut(v, n)) = Len(v) - n /\ JoinFirst(v, SubSeq(v, 1, n), Cut(v, n))
    BY <1>1, <2>2, CutTail
  <2>6. e \in Decoders /\ e.chunked = d.chunked /\ e.rest = IF d.rest = -1 THEN -1 ELSE Len(v) - n
    BY <1>1, <1>3, <2>2 DEF Decoders, Rest
  <2> HIDE DEF e
  <2> DEFINE w == Cut(v, n)
  <2>7. Left(e, w, w)
    BY <2>5, <2>6 DEF Left
  <2>8. Unbounded(e) => Unbounded(d)
    BY <1>3, <2>2, <2>6 DEF Unbounded
  <2>9. r.res = "msg" /\ r.d = e /\ r.data = SubSeq(b, 1, n) /\ r.n = n
    BY <2>1 DEF Msg
  <2>10. JoinFirst(u, r.data, w)
    BY <1>1, <2>3, <2>5, <2>9
  <2>11. r.data \in Seq(Chars) /\ w \in Seq(Chars) /\ Cut(b, r.n) \in Seq(Chars) /\ Divides(Cut(b, r.n), y, w, z)
    BY <2>3, <2>4, <2>5, <2>9
  <2> HIDE DEF w
  <2>12. r.d \in Decoders /\ Left(r.d, w, w) /\ (Unbounded(r.d) => Unbounded(d))
    BY <2>6, <2>7, <2>8, <2>9
  <2>13. Progress(d, r, b, y, u, z)
    BY <2>9, <2>10, <2>11, <2>12 DEF Progress
  <2> QED BY <2>13
<1> QED BY <1>4, <1>5

LEMMA BodyStep ==
  ASSUME NEW d, NEW b, NEW y, NEW v, NEW u, NEW z, BodyAt(d, b, y, v, u, z),
         more(d), NEW r \in DecodeTransfer(d, b)
  PROVE  Stuck(d, r, b, y) \/ Progress(d, r, b, y, u, z)
BY ChunkStep, StringStep

\* When everything has arrived, only a body without a length can make a decoder
\* wait, and only for more than there is.
LEMMA BodyWaits ==
  ASSUME NEW d, NEW b, NEW v, NEW u, NEW z, BodyAt(d, b, <<>>, v, u, z),
         more(d), Wait(d) \in DecodeTransfer(d, b)
  PROVE  Unbounded(d) /\ b = <<>>
<1>1. /\ b \in Seq(Chars) /\ z \in Seq(Chars) /\ Divides(b, <<>>, v, z) /\ d \in Decoders
      /\ v \in Seq(Chars) /\ Left(d, v, u) /\ b \o <<>> = b
  BY ConcatEmptySeq DEF BodyAt
<1>2. JoinFirst(b, v, z)
  BY <1>1, Zenon DEF Divides, JoinFirst
<1>3. CASE d.rest = -1 /\ d.chunked
  <2>1. PICK c, v2, u2 : IsChunk(c) /\ ChunksAfter(c, v, u, v2, u2)
    <3>1. LeftInChunks(v, u)
      BY <1>1, <1>3 DEF Left
    <3> QED BY <3>1, ChunksFirst
  <2> DEFINE w == Chunk(c)  t == v2 \o z  y == <<>>
  <2>2. w \in Seq(Chars) /\ v2 \in Seq(Chars) /\ JoinFirst(v, w, v2) /\ y \in Seq(Chars)
    <3>1. y \in Seq(Chars)
      OBVIOUS
    <3>2. Chunk(c) \in Seq(Chars) /\ v2 \in Seq(Chars) /\ JoinFirst(v, Chunk(c), v2)
      BY <2>1, ChunkIs DEF ChunksAfter
    <3> QED BY <3>1, <3>2
  <2>3. Divides(b, y, w, t) /\ t \in Seq(Chars)
    <3> HIDE DEF w
    <3> QED BY <1>1, <2>2, DividesFirst
  <2>4. ReadsChunk(d, b, c)
    <3> HIDE DEF t, y
    <3> QED BY <1>1, <2>1, <2>2, <2>3, ChunkRead
  <2>5. ~(Len(b) < Len(w))
    <3> HIDE DEF w, t
    <3>1. b = w \o t
      BY <1>1, <2>3, Zenon DEF Divides
    <3>2. Len(w \o t) = Len(w) + Len(t) /\ Len(w) \in Nat /\ Len(t) \in Nat
      BY <2>2, <2>3, ConcatProperties, LenProperties
    <3>3. Len(b) = Len(w) + Len(t)
      BY <3>1, <3>2, Zenon
    <3> QED BY <3>2, <3>3
  <2>6. Wait(d) \in DecodeChunk(d, b)
    BY <1>3 DEF DecodeTransfer
  <2>7. \E e, x, n : Wait(d) = Msg(e, x, n)
    BY <2>4, <2>5, <2>6, Zenon DEF ReadsChunk
  <2>8. FALSE
    BY <2>7 DEF Wait, Msg
  <2> QED BY <2>8
<1>4. CASE ~(d.rest = -1 /\ d.chunked)
  <2>1. v = u /\ (d.rest # -1 => d.rest = Len(v))
    BY <1>1, <1>4 DEF Left
  <2>2. b = <<>>
    <3>1. ASSUME b # <<>> PROVE FALSE
      <4>1. Wait(d) = DecodeString(d, b)
        BY <1>4 DEF DecodeTransfer
      <4>2. \E e, x, n : Wait(d) = Msg(e, x, n)
        BY <3>1, <4>1, Zenon DEF DecodeString
      <4> QED BY <4>2 DEF Wait, Msg
    <3> QED BY <3>1
  <2>3. v = <<>>
    <3>1. Len(v \o z) = Len(v) + Len(z) /\ Len(v) \in Nat /\ Len(z) \in Nat
      BY <1>1, ConcatProperties, LenProperties
    <3>2. Len(v \o z) = 0
      <4>1. v \o z = b
        BY <1>2, Zenon DEF JoinFirst
      <4>2. Len(b) = 0
        BY <2>2
      <4> QED BY <4>1, <4>2, Zenon
    <3>3. Len(v) = 0
      BY <3>1, <3>2
    <3> QED BY <1>1, <3>3, EmptySeq
  <2>4. d.rest = -1
    <3>1. Len(v) = 0
      BY <2>3
    <3> QED BY <2>1, <3>1 DEF more
  <2> QED BY <1>1, <1>4, <2>2, <2>4 DEF Unbounded, Decoders
<1> QED BY <1>3, <1>4

-----------------------------------------------------------------------------
(* The connection.                                                         *)

\* What the messages of s behind the k-th one are on the wire.
Wires(s, k) == [i \in 1..(Len(s) - k) |-> s[k + i].chars \o s[k + i].wire]
Ahead(s, k) == FlattenSeq(Wires(s, k))

\* Messages with their characters.
Written(s) ==
  /\ Len(s) \in Nat
  /\ \A i \in 1..Len(s) : s[i].chars \in Seq(Chars) /\ s[i].wire \in Seq(Chars)

LEMMA WiresType ==
  ASSUME NEW s, Written(s), NEW k \in 0..Len(s)
  PROVE  /\ Wires(s, k) \in Seq(Seq(Chars)) /\ Len(Wires(s, k)) = Len(s) - k
         /\ \A i \in 1..(Len(s) - k) : Wires(s, k)[i] = s[k + i].chars \o s[k + i].wire
<1>1. ASSUME NEW i \in 1..(Len(s) - k) PROVE s[k + i].chars \o s[k + i].wire \in Seq(Chars)
  <2>1. k + i \in 1..Len(s)
    BY DEF Written
  <2>2. s[k + i].chars \in Seq(Chars) /\ s[k + i].wire \in Seq(Chars)
    BY <2>1 DEF Written
  <2> QED BY <2>2, ConcatProperties
<1>2. Len(s) - k \in Nat
  BY DEF Written
<1> DEFINE n == Len(s) - k  F(i) == s[k + i].chars \o s[k + i].wire
<1>3. \A i \in 1..n : F(i) \in Seq(Chars)
  BY <1>1
<1>4. n \in Nat
  BY <1>2
<1> HIDE DEF n, F
<1>5. /\ [i \in 1..n |-> F(i)] \in Seq(Seq(Chars)) /\ Len([i \in 1..n |-> F(i)]) = n
      /\ \A i \in 1..n : [j \in 1..n |-> F(j)][i] = F(i)
  BY <1>3, <1>4
<1>6. Wires(s, k) = [i \in 1..n |-> F(i)]
  BY Zenon DEF Wires, n, F
<1> QED BY <1>5, <1>6 DEF n, F

LEMMA AheadType ==
  ASSUME NEW s, Written(s), NEW k \in 0..Len(s)
  PROVE  Ahead(s, k) \in Seq(Chars)
BY WiresType, FlattenType DEF Ahead

LEMMA AheadNothing ==
  ASSUME NEW s, Written(s)
  PROVE  Ahead(s, Len(s)) = <<>>
<1> DEFINE k == Len(s)
<1>1. k \in 0..Len(s) /\ Len(s) - k = 0
  BY DEF Written
<1>2. Wires(s, k) \in Seq(Seq(Chars)) /\ Len(Wires(s, k)) = 0
  BY <1>1, WiresType
<1>3. Wires(s, k) = <<>>
  BY <1>2, EmptySeq
<1>4. FlattenSeq(Wires(s, k)) = Wires(s, k)
  BY <1>2, FlattenEmpty
<1> QED BY <1>3, <1>4 DEF Ahead

\* The next message comes first, its head before its body.
LEMMA AheadFirst ==
  ASSUME NEW s, Written(s), NEW k \in Nat, k < Len(s)
  PROVE  /\ JoinFirst(Ahead(s, k), s[k + 1].chars, s[k + 1].wire \o Ahead(s, k + 1))
         /\ s[k + 1].chars \in Seq(Chars) /\ s[k + 1].wire \in Seq(Chars)
         /\ Ahead(s, k + 1) \in Seq(Chars)
         /\ s[k + 1].wire \o Ahead(s, k + 1) \in Seq(Chars)
<1> DEFINE m == k + 1  n == Len(s) - k  X == Wires(s, k)  Y == Wires(s, m)
           c == s[m].chars  w == s[m].wire
<1>1. /\ k \in 0..Len(s) /\ m \in 0..Len(s) /\ m \in 1..Len(s) /\ n \in Nat /\ n # 0
      /\ Len(s) - m = n - 1
  BY DEF Written
<1>2. /\ X \in Seq(Seq(Chars)) /\ Len(X) = n
      /\ \A i \in 1..n : X[i] = s[k + i].chars \o s[k + i].wire
  BY <1>1, WiresType
<1>3. /\ Y \in Seq(Seq(Chars)) /\ Len(Y) = n - 1
      /\ \A i \in 1..(n - 1) : Y[i] = s[m + i].chars \o s[m + i].wire
  <2> HIDE DEF m
  <2>1. /\ Y \in Seq(Seq(Chars)) /\ Len(Y) = Len(s) - m
        /\ \A i \in 1..(Len(s) - m) : Y[i] = s[m + i].chars \o s[m + i].wire
    BY <1>1, WiresType
  <2> QED BY <1>1, <2>1
<1>4. c \in Seq(Chars) /\ w \in Seq(Chars)
  BY <1>1 DEF Written
<1> HIDE DEF n, X, Y
<1>5. X[1] = c \o w
  <2>1. 1 \in 1..n
    BY <1>1
  <2> QED BY <1>2, <2>1
<1>6. Follows(X, Y)
  <2>1. ASSUME NEW i \in 1..(n - 1) PROVE Y[i] = X[i + 1]
    <3>1. i + 1 \in 1..n /\ k + (i + 1) = m + i
      BY <1>1
    <3>2. X[i + 1] = s[k + (i + 1)].chars \o s[k + (i + 1)].wire
      BY <1>2, <3>1
    <3> QED BY <1>3, <3>1, <3>2
  <2>2. n = (n - 1) + 1
    BY <1>1
  <2> QED BY <1>2, <1>3, <2>1, <2>2 DEF Follows
<1> DEFINE z == FlattenSeq(Y)
<1>7. JoinFirst(FlattenSeq(X), X[1], z) /\ z \in Seq(Chars)
  BY <1>2, <1>3, <1>6, FlattenFrom
<1> HIDE DEF z, c, w
<1>8. Associates(c, w, z)
  BY <1>4, <1>7, ConcatAssociates
<1>9. JoinFirst(FlattenSeq(X), c, w \o z)
  BY <1>5, <1>7, <1>8, Zenon DEF JoinFirst, Associates
<1>10. w \o z \in Seq(Chars)
  BY <1>4, <1>7, ConcatProperties
<1> QED BY <1>4, <1>7, <1>9, <1>10, Zenon DEF Ahead, c, w, z, X, Y, m

\* A message more comes last.
LEMMA AheadNext ==
  ASSUME NEW s, Written(s), NEW t, Written(t), Len(t) = Len(s) + 1,
         \A i \in 1..Len(s) : t[i] = s[i], NEW k \in 0..Len(s)
  PROVE  Ahead(t, k) = Ahead(s, k) \o (t[Len(t)].chars \o t[Len(t)].wire)
<1> DEFINE n == Len(s) - k  X == Wires(s, k)  Y == Wires(t, k)
<1>1. k \in 0..Len(t) /\ n \in Nat /\ Len(t) - k = n + 1 /\ k \in Nat
  BY DEF Written
<1>2. /\ X \in Seq(Seq(Chars)) /\ Len(X) = n
      /\ \A i \in 1..n : X[i] = s[k + i].chars \o s[k + i].wire
  BY WiresType
<1>3. /\ Y \in Seq(Seq(Chars)) /\ Len(Y) = n + 1
      /\ \A i \in 1..(n + 1) : Y[i] = t[k + i].chars \o t[k + i].wire
  <2> HIDE DEF n
  <2>1. /\ Y \in Seq(Seq(Chars)) /\ Len(Y) = Len(t) - k
        /\ \A i \in 1..(Len(t) - k) : Y[i] = t[k + i].chars \o t[k + i].wire
    BY <1>1, WiresType
  <2> QED BY <1>1, <2>1
<1> HIDE DEF X, Y
<1>4. Precedes(Y, X)
  <2>1. ASSUME NEW i \in 1..n PROVE X[i] = Y[i]
    <3>1. i \in 1..(n + 1) /\ k + i \in 1..Len(s)
      BY <1>1
    <3>2. t[k + i] = s[k + i]
      BY <3>1
    <3> HIDE DEF n
    <3> QED BY <1>2, <1>3, <3>1, <3>2
  <2> HIDE DEF n
  <2> QED BY <1>2, <1>3, <2>1 DEF Precedes
<1>5. FlattenSeq(Y) = FlattenSeq(X) \o Y[Len(Y)]
  BY <1>2, <1>3, <1>4, FlattenLast
<1>6. Y[Len(Y)] = t[Len(t)].chars \o t[Len(t)].wire
  <2>1. n + 1 \in 1..(n + 1) /\ k + (n + 1) = Len(t)
    BY <1>1 DEF Written
  <2> HIDE DEF n
  <2> QED BY <1>3, <2>1
<1> QED BY <1>5, <1>6, Zenon DEF Ahead, X, Y

LEMMA MessageIs ==
  ASSUME NEW k \in Kinds, NEW m \in Messages(k)
  PROVE  /\ m.bad \in BOOLEAN /\ m.te \in BOOLEAN /\ m.length \in Nat \cup {-1}
         /\ m.chars \in Seq(Chars) /\ m.wire \in Seq(Chars)
         /\ m.bad => IsMalformed(k, m)
         /\ ~m.bad => Decodes(k, m) /\ HasBody(k, m)
<1>1. m \in Requests \cup Responses
  BY DEF Messages, Kinds
<1>2. /\ m.bad \in BOOLEAN /\ m.te \in BOOLEAN /\ m.length \in Nat \cup {-1}
      /\ m.chars \in Seq(Chars) /\ m.wire \in Seq(Chars)
  BY <1>1, MessagesAssumption, Zenon
<1>3. CASE k = "request"
  <2>1. m \in Requests
    BY <1>3 DEF Messages
  <2>2. /\ m.bad => IsMalformed(k, m)
        /\ ~m.bad => IsRequest(m) /\ HasBody(k, m)
    BY <1>3, <2>1, MessagesAssumption, Zenon
  <2>3. ~m.bad => Decodes(k, m)
    BY <1>3, <2>2, RequestRoundTrip, Zenon
  <2> QED BY <1>2, <2>2, <2>3, Zenon
<1>4. CASE k = "response"
  <2>1. m \in Responses
    BY <1>4 DEF Messages
  <2>2. /\ m.bad => IsMalformed(k, m)
        /\ ~m.bad => (IsResponse(m) \/ IsCgi(m)) /\ HasBody(k, m)
    BY <1>4, <2>1, MessagesAssumption, Zenon
  <2>3. ~m.bad => Decodes(k, m)
    BY <1>4, <2>2, ResponseRoundTrip, Zenon
  <2> QED BY <1>2, <2>2, <2>3, Zenon
<1> QED BY <1>3, <1>4 DEF Kinds

\* Whether the body of m lasts until the end: Endless, of messages of kind k.
NoLength(k, m) == k = "response" /\ ~m.te /\ m.length = -1

LEMMA EndlessIs == ASSUME NEW m PROVE Endless(m) <=> NoLength(kind, m)
BY DEF Endless, NoLength

\* The decoder of the body of m: BodyDecoder, of messages of kind k.
DecoderOf(k, m) ==
  IF k = "response" THEN NewTransfer(m.te, m.length)
  ELSE StringDecoder(IF m.length = -1 THEN 0 ELSE m.length)

LEMMA BodyDecoderIs == ASSUME NEW m PROVE BodyDecoder(m) = DecoderOf(kind, m)
BY DEF BodyDecoder, DecoderOf

\* A body that has not begun to arrive.
LEMMA BodyBegins ==
  ASSUME NEW k \in Kinds, NEW m, HasBody(k, m), m.te \in BOOLEAN,
         m.length \in Nat \cup {-1}, m.wire \in Seq(Chars)
  PROVE  /\ DecoderOf(k, m) \in Decoders /\ m.body \in Seq(Chars)
         /\ Left(DecoderOf(k, m), m.wire, m.body)
         /\ Unbounded(DecoderOf(k, m)) => NoLength(k, m)
<1> DEFINE d == DecoderOf(k, m)
<1>1. CASE k = "response" /\ m.te
  <2>1. d.chunked = TRUE /\ d.rest = -1 /\ d \in Decoders
    BY <1>1 DEF DecoderOf, NewTransfer, Decoders
  <2>2. /\ IsChunked(m.chunks) /\ m.chunks \in Seq(ChunkRecords)
        /\ m.wire = Chunks(m.chunks) /\ m.body = Data(m.chunks)
    BY <1>1, Zenon DEF HasBody, ChunkRecords
  <2>3. LeftInChunks(m.wire, m.body)
    BY <2>2, Zenon DEF LeftInChunks
  <2>4. m.body \in Seq(Chars)
    <3>1. PICK c, v2, u2 : IsChunk(c) /\ ChunksAfter(c, m.wire, m.body, v2, u2)
      BY <2>3, ChunksFirst
    <3>2. c.data \in Seq(Chars) /\ u2 \in Seq(Chars) /\ JoinFirst(m.body, c.data, u2)
      BY <3>1 DEF IsChunk, ChunksAfter
    <3>3. c.data \o u2 \in Seq(Chars)
      BY <3>2, ConcatProperties
    <3> QED BY <3>2, <3>3, Zenon DEF JoinFirst
  <2> HIDE DEF d
  <2>5. Left(d, m.wire, m.body) /\ ~Unbounded(d)
    BY <2>1, <2>3 DEF Left, Unbounded
  <2> QED BY <2>1, <2>4, <2>5 DEF d
<1>2. CASE ~(k = "response" /\ m.te)
  <2>1. /\ m.wire = m.body
        /\ IF m.length = -1 THEN k = "request" => m.body = <<>> ELSE Len(m.body) = m.length
    BY <1>2, Zenon DEF HasBody
  <2>2. d.chunked = FALSE /\ d \in Decoders
        /\ d.rest = IF m.length = -1 /\ k = "request" THEN 0 ELSE m.length
    <3>1. CASE k = "response"
      <4>1. m.te = FALSE
        BY <1>2, <3>1
      <4> QED BY <3>1, <4>1 DEF DecoderOf, NewTransfer, Decoders
    <3>2. CASE k = "request"
      BY <3>2 DEF DecoderOf, StringDecoder, Decoders
    <3> QED BY <3>1, <3>2 DEF Kinds
  <2> HIDE DEF d
  <2>3. d.rest # -1 => d.rest = Len(m.body)
    <3>1. m.body = <<>> => Len(m.body) = 0
      OBVIOUS
    <3> QED BY <2>1, <2>2, <3>1 DEF Kinds
  <2>4. Left(d, m.wire, m.body)
    BY <2>1, <2>2, <2>3 DEF Left
  <2>5. Unbounded(d) => NoLength(k, m)
    BY <1>2, <2>2 DEF Unbounded, NoLength, Kinds
  <2> QED BY <2>1, <2>2, <2>4, <2>5 DEF d
<1> QED BY <1>1, <1>2

-----------------------------------------------------------------------------
(* The inductive invariant, part by part, of the values of the variables:  *)
(* the kind k, the messages s sent and g got, the decoder d, the buffer b  *)
(* and what is on its way, y.                                              *)

GotRecords(k) == [parts : {m.parts : m \in Messages(k)}, body : Seq(Chars)]

Typed(k, s, g) == k \in Kinds /\ s \in Seq(Messages(k)) /\ g \in Seq(GotRecords(k))

\* What has been read is what was sent, but for the body of the last message.
Agree(s, g) ==
  /\ Len(g) <= Len(s)
  /\ \A i \in 1..Len(g) : /\ ~s[i].bad /\ g[i].parts = s[i].parts
                          /\ i < Len(g) => g[i].body = s[i].body

\* Only the last message may last until the end, and only of such a message the
\* decoder takes what comes.
Ends(k, s, g, d) ==
  /\ \A i \in 1..Len(s) : i < Len(s) => ~NoLength(k, s[i])
  /\ Unbounded(d) => g # <<>> /\ NoLength(k, s[Len(g)])

\* Where the reader is in the stream: v is left of the body it reads, with the
\* data u, and behind it the messages that it has not begun.
Place(s, g, d, b, y, v, u) ==
  /\ BodyAt(d, b, y, v, u, Ahead(s, Len(g)))
  /\ IF g = <<>> THEN ~more(d) ELSE JoinFirst(s[Len(g)].body, g[Len(g)].body, u)

\* The decoder has looked at all there is, in vain.
LookedInVain(k, d, b) ==
  IF more(d) THEN Wait(d) \in DecodeTransfer(d, b)
  ELSE DecodeHead(k, b).st \notin {"done", "bad"}

\* A reason to throw.
MayThrow(s, g, d, b, y) ==
  \/ Len(b) > MaxSize
  \/ ~more(d) /\ Len(g) < Len(s) /\ s[Len(g) + 1].bad
  \/ more(d) /\ Overread(b) /\ y # <<>>

LEMMA TypedIs ==
  ASSUME NEW k, NEW s, NEW g, Typed(k, s, g)
  PROVE  /\ Written(s) /\ Len(s) \in Nat /\ Len(g) \in Nat
         /\ \A i \in 1..Len(s) : s[i] \in Messages(k)
         /\ \A i \in 1..Len(g) : g[i] \in GotRecords(k)
<1>1. k \in Kinds /\ s \in Seq(Messages(k)) /\ g \in Seq(GotRecords(k))
  BY DEF Typed
<1>2. /\ Len(s) \in Nat /\ Len(g) \in Nat
      /\ \A i \in 1..Len(s) : s[i] \in Messages(k)
      /\ \A i \in 1..Len(g) : g[i] \in GotRecords(k)
  BY <1>1, LenProperties, ElementOfSeq
<1>3. ASSUME NEW i \in 1..Len(s) PROVE s[i].chars \in Seq(Chars) /\ s[i].wire \in Seq(Chars)
  <2>1. s[i] \in Messages(k)
    BY <1>2
  <2> QED BY <1>1, <2>1, MessageIs
<1> QED BY <1>2, <1>3 DEF Written

\* Between two messages nothing is left of a body.
LEMMA BetweenMessages ==
  ASSUME NEW s, NEW g, NEW d, NEW b, NEW y, NEW v, NEW u, Place(s, g, d, b, y, v, u), ~more(d)
  PROVE  /\ v = <<>> /\ u = <<>> /\ JoinFirst(Ahead(s, Len(g)), b, y)
         /\ b \in Seq(Chars) /\ y \in Seq(Chars) /\ Ahead(s, Len(g)) \in Seq(Chars)
         /\ g # <<>> => s[Len(g)].body = g[Len(g)].body \o <<>>
<1> DEFINE z == Ahead(s, Len(g))
<1>1. /\ BodyAt(d, b, y, v, u, z)
      /\ g # <<>> => JoinFirst(s[Len(g)].body, g[Len(g)].body, u)
  BY DEF Place
<1> HIDE DEF z
<1>2. /\ b \in Seq(Chars) /\ y \in Seq(Chars) /\ z \in Seq(Chars) /\ Divides(b, y, v, z)
      /\ v \in Seq(Chars) /\ Left(d, v, u)
  BY <1>1 DEF BodyAt
<1>3. v = u /\ Len(u) = 0
  BY <1>2 DEF Left, more
<1>4. v = <<>> /\ u = <<>>
  BY <1>2, <1>3, EmptySeq
<1>5. <<>> \o z = z
  BY <1>2, ConcatEmptySeq
<1>6. JoinFirst(z, b, y)
  BY <1>2, <1>4, <1>5, Zenon DEF Divides, JoinFirst
<1>7. g # <<>> => s[Len(g)].body = g[Len(g)].body \o <<>>
  BY <1>1, <1>4, Zenon DEF JoinFirst
<1> QED BY <1>2, <1>4, <1>6, <1>7 DEF z

\* When all messages have been read, there is nothing to decode.
LEMMA NothingNext ==
  ASSUME NEW k, NEW s, NEW g, Typed(k, s, g), Len(g) = Len(s), NEW d, NEW b, NEW y,
         NEW v, NEW u, Place(s, g, d, b, y, v, u), ~more(d)
  PROVE  b = <<>> /\ DecodeHead(k, b).st \notin {"done", "bad"}
<1>1. Written(s) /\ JoinFirst(Ahead(s, Len(g)), b, y) /\ b \in Seq(Chars) /\ y \in Seq(Chars)
  BY TypedIs, BetweenMessages
<1>2. Ahead(s, Len(g)) = <<>>
  BY <1>1, AheadNothing
<1>3. b \o y = <<>>
  BY <1>1, <1>2, Zenon DEF JoinFirst
<1>4. b = <<>>
  BY <1>1, <1>3, ConcatSimplifications
<1>5. Len(b) = 0 /\ ~(Len(b) > MaxSize)
  BY <1>4, HeadAssumption
<1>6. DecodeHead(k, b) = Begin(k)
  <2>1. Scan(k, Begin(k), b) = Begin(k)
    BY <1>4, ScanEmpty
  <2> QED BY <1>5, <2>1, Zenon DEF DecodeHead
<1> QED BY <1>4, <1>6 DEF Begin, Start

\* The next message begins the stream.
LEMMA NextMessage ==
  ASSUME NEW k, NEW s, NEW g, Typed(k, s, g), Len(g) < Len(s), NEW d, NEW b, NEW y,
         NEW v, NEW u, Place(s, g, d, b, y, v, u), ~more(d)
  PROVE  LET m == s[Len(g) + 1]  z == Ahead(s, Len(g) + 1) IN
         /\ k \in Kinds /\ m \in Messages(k)
         /\ b \in Seq(Chars) /\ y \in Seq(Chars)
         /\ m.chars \in Seq(Chars) /\ m.wire \in Seq(Chars) /\ z \in Seq(Chars)
         /\ m.wire \o z \in Seq(Chars) /\ Divides(b, y, m.chars, m.wire \o z)
<1> DEFINE n == Len(g)  m == s[n + 1]  z == Ahead(s, n + 1)
<1>1. Written(s) /\ JoinFirst(Ahead(s, n), b, y) /\ b \in Seq(Chars) /\ y \in Seq(Chars)
  BY TypedIs, BetweenMessages
<1>2. k \in Kinds /\ n \in Nat /\ m \in Messages(k)
  <2>1. Len(s) \in Nat /\ n \in Nat /\ (\A i \in 1..Len(s) : s[i] \in Messages(k))
    BY TypedIs
  <2>2. n + 1 \in 1..Len(s)
    BY <2>1
  <2> QED BY <2>1, <2>2 DEF Typed
<1>3. n < Len(s)
  OBVIOUS
<1> HIDE DEF n
<1>4. /\ JoinFirst(Ahead(s, n), m.chars, m.wire \o z)
      /\ m.chars \in Seq(Chars) /\ m.wire \in Seq(Chars) /\ z \in Seq(Chars)
      /\ m.wire \o z \in Seq(Chars)
  BY <1>1, <1>2, <1>3, AheadFirst
<1>5. Divides(b, y, m.chars, m.wire \o z)
  BY <1>1, <1>4, Zenon DEF JoinFirst, Divides
<1> QED BY <1>1, <1>2, <1>4, <1>5 DEF n

\* decode() of a head throws only at a malformed one, or when the buffer is too
\* full.
LEMMA HeadThrows ==
  ASSUME NEW k, NEW s, NEW g, Typed(k, s, g), Agree(s, g), NEW d, NEW b, NEW y,
         NEW v, NEW u, Place(s, g, d, b, y, v, u), ~more(d),
         DecodeHead(k, b).st = "bad"
  PROVE  MayThrow(s, g, d, b, y)
<1>1. Len(s) \in Nat /\ Len(g) \in Nat /\ Len(g) <= Len(s)
  BY TypedIs DEF Agree
<1>2. CASE Len(g) = Len(s)
  BY <1>2, NothingNext
<1>3. CASE Len(g) < Len(s) /\ ~(Len(b) > MaxSize)
  <2> DEFINE m == s[Len(g) + 1]  w == m.wire \o Ahead(s, Len(g) + 1)
  <2>1. /\ k \in Kinds /\ m \in Messages(k) /\ b \in Seq(Chars) /\ y \in Seq(Chars)
        /\ w \in Seq(Chars) /\ Divides(b, y, m.chars, w)
    BY <1>3, NextMessage
  <2> HIDE DEF m, w
  <2>2. Scan(k, Begin(k), b).st = "bad"
    BY <1>3, Zenon DEF DecodeHead
  <2>3. ASSUME ~m.bad PROVE FALSE
    <3>1. Decodes(k, m)
      BY <2>1, <2>3, MessageIs
    <3>2. b \o y = m.chars \o w
      BY <2>1, Zenon DEF Divides
    <3>3. IF Len(b) < Len(m.chars) THEN Scan(k, Begin(k), b).st \notin {"done", "bad"}
          ELSE Scan(k, Begin(k), b) = At("done", <<>>, m.parts, Len(m.chars))
      BY <2>1, <3>1, <3>2, HeadRead, Zenon
    <3> QED BY <2>2, <3>3 DEF At
  <2>4. m.bad
    BY <2>3
  <2> QED BY <1>3, <2>4 DEF MayThrow, m
<1>4. CASE Len(b) > MaxSize
  BY <1>4 DEF MayThrow
<1> QED BY <1>1, <1>2, <1>3, <1>4

\* decode() of a head finds that of the next message, and leaves its body and
\* what follows.
LEMMA HeadFound ==
  ASSUME NEW k, NEW s, NEW g, Typed(k, s, g), Agree(s, g), NEW d, NEW b, NEW y,
         NEW v, NEW u, Place(s, g, d, b, y, v, u), ~more(d),
         NEW r, r = DecodeHead(k, b), r.st = "done"
  PROVE  LET m == s[Len(g) + 1]  z == Ahead(s, Len(g) + 1) IN
         /\ Len(g) < Len(s) /\ k \in Kinds /\ m \in Messages(k) /\ ~m.bad /\ r.out = m.parts
         /\ y \in Seq(Chars) /\ m.wire \in Seq(Chars) /\ z \in Seq(Chars)
         /\ Cut(b, r.n) \in Seq(Chars) /\ Divides(Cut(b, r.n), y, m.wire, z)
<1> DEFINE m == s[Len(g) + 1]  z == Ahead(s, Len(g) + 1)  w == m.wire \o z
<1>1. Len(g) < Len(s)
  <2>1. Len(s) \in Nat /\ Len(g) \in Nat /\ Len(g) <= Len(s)
    BY TypedIs DEF Agree
  <2>2. Len(g) # Len(s)
    BY NothingNext
  <2> QED BY <2>1, <2>2
<1>2. /\ k \in Kinds /\ m \in Messages(k) /\ b \in Seq(Chars) /\ y \in Seq(Chars)
      /\ m.wire \in Seq(Chars) /\ z \in Seq(Chars) /\ m.chars \in Seq(Chars)
      /\ w \in Seq(Chars) /\ Divides(b, y, m.chars, w)
  BY <1>1, NextMessage
<1>3. Scan(k, Begin(k), b) = r
  <2>1. Len(b) > MaxSize => r.st = "bad"
    BY DEF DecodeHead, Begin
  <2> QED BY <2>1, Zenon DEF DecodeHead
<1> HIDE DEF m, z, w
<1>4. b \o y = m.chars \o w
  BY <1>2, Zenon DEF Divides
<1>5. ~m.bad
  <2>1. ASSUME m.bad PROVE FALSE
    <3>1. IsMalformed(k, m)
      BY <1>2, <2>1, MessageIs
    <3>2. Scan(k, Begin(k), b).st # "done"
      BY <1>2, <1>4, <3>1, MalformedRead, Zenon
    <3> QED BY <1>3, <3>2
  <2> QED BY <2>1
<1>6. Decodes(k, m)
  BY <1>2, <1>5, MessageIs
<1>7. IF Len(b) < Len(m.chars) THEN Scan(k, Begin(k), b).st \notin {"done", "bad"}
      ELSE Scan(k, Begin(k), b) = At("done", <<>>, m.parts, Len(m.chars))
  BY <1>2, <1>4, <1>6, HeadRead, Zenon
<1>8. ~(Len(b) < Len(m.chars)) /\ r = At("done", <<>>, m.parts, Len(m.chars))
  BY <1>3, <1>7
<1> DEFINE n == Len(m.chars)
<1>9. r.out = m.parts /\ r.n = n
  BY <1>8 DEF At
<1>10. n <= Len(b)
  <2>1. Len(b) \in Nat /\ n \in Nat
    BY <1>2, LenProperties
  <2> QED BY <1>8, <2>1
<1>11. Cut(b, n) \in Seq(Chars) /\ JoinFirst(w, Cut(b, n), y)
  BY <1>2, <1>10, CutWhole
<1>12. Divides(Cut(b, n), y, m.wire, z)
  <2> HIDE DEF n
  <2> QED BY <1>11, Zenon DEF JoinFirst, Divides, w
<1> HIDE DEF n
<1> QED BY <1>1, <1>2, <1>5, <1>9, <1>11, <1>12 DEF m, z

\* Everything has arrived, and decode() of a head finds none: there is no other
\* message.
LEMMA NoMoreHeads ==
  ASSUME NEW k, NEW s, NEW g, Typed(k, s, g), Agree(s, g), NEW d, NEW b,
         NEW v, NEW u, Place(s, g, d, b, <<>>, v, u), ~more(d),
         \A i \in 1..Len(s) : ~s[i].bad, LookedInVain(k, d, b)
  PROVE  Len(g) = Len(s) /\ b = <<>>
<1>1. Len(s) \in Nat /\ Len(g) \in Nat /\ Len(g) <= Len(s)
  BY TypedIs DEF Agree
<1>2. ASSUME Len(g) < Len(s) PROVE FALSE
  <2> DEFINE m == s[Len(g) + 1]  w == m.wire \o Ahead(s, Len(g) + 1)  y == <<>>
  <2>1. /\ k \in Kinds /\ m \in Messages(k) /\ b \in Seq(Chars) /\ y \in Seq(Chars)
        /\ m.chars \in Seq(Chars) /\ w \in Seq(Chars) /\ Divides(b, y, m.chars, w)
    BY <1>2, NextMessage
  <2>2. b \o <<>> = b
    BY <2>1, ConcatEmptySeq
  <2>3. ~m.bad
    <3>1. Len(g) + 1 \in 1..Len(s)
      BY <1>1, <1>2
    <3> QED BY <3>1
  <2>4. DecodeHead(k, b).st \notin {"done", "bad"}
    BY DEF LookedInVain
  <2>5. ~(Len(b) > MaxSize)
    <3>1. Len(b) > MaxSize => DecodeHead(k, b).st = "bad"
      BY DEF DecodeHead, Begin
    <3> QED BY <2>4, <3>1
  <2> HIDE DEF m, w
  <2>6. Scan(k, Begin(k), b) = DecodeHead(k, b)
    BY <2>5, Zenon DEF DecodeHead
  <2>7. Decodes(k, m)
    BY <2>1, <2>3, MessageIs
  <2>8. b \o y = m.chars \o w
    BY <2>1, Zenon DEF Divides
  <2> HIDE DEF y
  <2>9. IF Len(b) < Len(m.chars) THEN Scan(k, Begin(k), b).st \notin {"done", "bad"}
        ELSE Scan(k, Begin(k), b) = At("done", <<>>, m.parts, Len(m.chars))
    BY <2>1, <2>7, <2>8, HeadRead, Zenon
  <2>10. Len(b) < Len(m.chars)
    <3>1. At("done", <<>>, m.parts, Len(m.chars)).st = "done"
      BY DEF At
    <3> QED BY <2>4, <2>6, <2>9, <3>1
  <2>11. Len(b) = Len(m.chars) + Len(w) /\ Len(m.chars) \in Nat /\ Len(w) \in Nat
    <3>1. Len(m.chars \o w) = Len(m.chars) + Len(w) /\ Len(m.chars) \in Nat /\ Len(w) \in Nat
      BY <2>1, ConcatProperties, LenProperties
    <3>2. b = m.chars \o w
      BY <2>2, <2>8, Zenon DEF y
    <3> QED BY <3>1, <3>2, Zenon
  <2> QED BY <2>10, <2>11
<1>3. Len(g) = Len(s)
  BY <1>1, <1>2
<1> QED BY <1>3, NothingNext

-----------------------------------------------------------------------------
(* The steps.                                                              *)

\* What has been read is what was sent, up to where the reader is; a reader that
\* waits has looked at all there is; one that has failed does not go on.
ReadsAsSent ==
  /\ Typed(kind, sent, got) /\ tried \in BOOLEAN /\ failed \in BOOLEAN
  /\ Agree(sent, got) /\ Ends(kind, sent, got, body)
  /\ \E v, u : Place(sent, got, body, buffer, net, v, u)
  /\ tried => LookedInVain(kind, body, buffer)
  /\ failed => ~tried /\ MayThrow(sent, got, body, buffer, net)

\* Of the messages that have been read only the last is left unfinished.
LEMMA OneMore ==
  ASSUME NEW k, NEW s, NEW g, Typed(k, s, g), Agree(s, g),
         g # <<>> => g[Len(g)].body = s[Len(g)].body,
         Len(g) < Len(s), NEW p, p = s[Len(g) + 1].parts, ~s[Len(g) + 1].bad
  PROVE  LET h == Append(g, [parts |-> p, body |-> <<>>]) IN
         /\ Typed(k, s, h) /\ Agree(s, h) /\ Len(h) = Len(g) + 1 /\ h # <<>>
         /\ h[Len(h)].body = <<>>
<1> DEFINE n == Len(g)  e == [parts |-> p, body |-> <<>>]  h == Append(g, e)
<1>1. /\ n \in Nat /\ Len(s) \in Nat /\ (\A i \in 1..Len(s) : s[i] \in Messages(k))
  BY TypedIs
<1>2. k \in Kinds /\ s \in Seq(Messages(k)) /\ g \in Seq(GotRecords(k))
  BY DEF Typed
<1>3. e \in GotRecords(k)
  <2>1. n + 1 \in 1..Len(s)
    BY <1>1
  <2>2. s[n + 1] \in Messages(k)
    BY <1>1, <2>1
  <2>3. p \in {m.parts : m \in Messages(k)}
    BY <2>2
  <2>4. <<>> \in Seq(Chars)
    OBVIOUS
  <2> QED BY <2>3, <2>4 DEF GotRecords
<1>4. e.parts = p /\ e.body = <<>>
  OBVIOUS
<1> HIDE DEF e
<1>5. /\ h \in Seq(GotRecords(k)) /\ Len(h) = n + 1 /\ h[n + 1] = e
      /\ \A i \in 1..n : h[i] = g[i]
  BY <1>2, <1>3, AppendProperties
<1> HIDE DEF h
<1>6. h # <<>>
  BY <1>1, <1>5
<1>7. ASSUME NEW i \in 1..(n + 1)
      PROVE  /\ ~s[i].bad /\ h[i].parts = s[i].parts
             /\ i < n + 1 => h[i].body = s[i].body
  <2>1. CASE i = n + 1
    BY <1>1, <1>4, <1>5, <2>1
  <2>2. CASE i \in 1..n
    <3>1. ~s[i].bad /\ g[i].parts = s[i].parts /\ (i < n => g[i].body = s[i].body)
      BY <2>2 DEF Agree
    <3>2. i = n => g[i].body = s[i].body
      <4>1. n # 0 => g # <<>>
        OBVIOUS
      <4> QED BY <2>2, <4>1
    <3>3. h[i] = g[i] /\ (i < n \/ i = n)
      BY <1>1, <1>5, <2>2
    <3> QED BY <3>1, <3>2, <3>3
  <2> QED BY <1>1, <2>1, <2>2
<1>8. Agree(s, h)
  <2>1. Len(h) <= Len(s)
    BY <1>1, <1>5
  <2> QED BY <1>5, <1>7, <2>1 DEF Agree
<1>9. Typed(k, s, h)
  BY <1>2, <1>5 DEF Typed
<1> QED BY <1>4, <1>5, <1>6, <1>8, <1>9 DEF h, e

\* The place behind a head: at the beginning of its body.
LEMMA PlaceBehindHead ==
  ASSUME NEW k \in Kinds, NEW s, NEW g, NEW h, Len(g) \in Nat, Len(h) = Len(g) + 1, h # <<>>,
         h[Len(h)].body = <<>>, \A i \in 1..Len(s) : i < Len(s) => ~NoLength(k, s[i]),
         Len(g) < Len(s), Len(s) \in Nat, NEW m \in Messages(k), m = s[Len(g) + 1], ~m.bad,
         NEW b \in Seq(Chars), NEW y \in Seq(Chars), Ahead(s, Len(g) + 1) \in Seq(Chars),
         Divides(b, y, m.wire, Ahead(s, Len(g) + 1)), Written(s)
  PROVE  /\ Place(s, h, DecoderOf(k, m), b, y, m.wire, m.body)
         /\ Ends(k, s, h, DecoderOf(k, m))
<1> DEFINE d == DecoderOf(k, m)
<1>1. /\ d \in Decoders /\ m.body \in Seq(Chars) /\ Left(d, m.wire, m.body)
      /\ (Unbounded(d) => NoLength(k, m)) /\ m.wire \in Seq(Chars)
  BY MessageIs, BodyBegins
<1> HIDE DEF d
<1>2. s[Len(h)] = m
  OBVIOUS
<1>3. Ends(k, s, h, d)
  <2>1. Unbounded(d) => h # <<>> /\ NoLength(k, s[Len(h)])
    BY <1>1, <1>2
  <2> QED BY <2>1 DEF Ends
<1>4. Unbounded(d) => Ahead(s, Len(h)) = <<>>
  <2> SUFFICES ASSUME Unbounded(d) PROVE Ahead(s, Len(h)) = <<>>
    OBVIOUS
  <2>1. NoLength(k, s[Len(h)]) /\ Len(h) \in 1..Len(s)
    BY <1>1, <1>2
  <2>2. Len(h) = Len(s)
    BY <1>3, <2>1 DEF Ends
  <2> QED BY <2>2, AheadNothing
<1>5. BodyAt(d, b, y, m.wire, m.body, Ahead(s, Len(h)))
  BY <1>1, <1>4 DEF BodyAt
<1>6. JoinFirst(s[Len(h)].body, h[Len(h)].body, m.body)
  <2>1. <<>> \o m.body = m.body
    BY <1>1, ConcatEmptySeq
  <2> QED BY <1>2, <2>1, Zenon DEF JoinFirst
<1>7. Place(s, h, d, b, y, m.wire, m.body)
  BY <1>5, <1>6 DEF Place
<1> QED BY <1>3, <1>7 DEF d

LEMMA InitReadsAsSent ==
  ASSUME Init
  PROVE  ReadsAsSent
<1>1. /\ kind \in Kinds /\ sent = <<>> /\ net = <<>> /\ buffer = <<>> /\ tried = FALSE
      /\ failed = FALSE /\ body = StringDecoder(0) /\ got = <<>>
  BY DEF Init, Kinds
<1>2. Len(sent) = 0 /\ Len(got) = 0
  BY <1>1
<1>3. Typed(kind, sent, got)
  BY <1>1 DEF Typed
<1>4. Agree(sent, got)
  BY <1>2 DEF Agree
<1>5. body.rest = 0 /\ body \in Decoders /\ ~Unbounded(body)
  BY <1>1 DEF StringDecoder, Decoders, Unbounded
<1>6. Ends(kind, sent, got, body)
  BY <1>2, <1>5 DEF Ends
<1>7. Place(sent, got, body, buffer, net, <<>>, <<>>)
  <2> DEFINE e == <<>>
  <2>1. Ahead(sent, Len(got)) = e
    <3>1. Written(sent)
      BY <1>2 DEF Written
    <3> QED BY <1>2, <3>1, AheadNothing
  <2>2. e \in Seq(Chars) /\ Divides(e, e, e, e) /\ Len(e) = 0
    BY DEF Divides
  <2>3. buffer = e /\ net = e /\ got = <<>>
    BY <1>1
  <2> HIDE DEF e
  <2>4. Left(body, e, e)
    BY <1>5, <2>2 DEF Left
  <2>5. BodyAt(body, e, e, e, e, e)
    BY <1>5, <2>2, <2>4 DEF BodyAt
  <2>6. ~more(body)
    BY <1>5 DEF more
  <2>7. Place(sent, got, body, buffer, net, e, e)
    BY <2>1, <2>3, <2>5, <2>6 DEF Place
  <2> QED BY <2>7 DEF e
<1> QED BY <1>1, <1>3, <1>4, <1>6, <1>7 DEF ReadsAsSent

\* Each action preserves it.
LEMMA TryHeadReadsAsSent ==
  ASSUME ReadsAsSent, TryHead
  PROVE  ReadsAsSent'
<1>1. /\ Typed(kind, sent, got) /\ tried = FALSE /\ failed = FALSE
      /\ Agree(sent, got) /\ Ends(kind, sent, got, body)
      /\ kind' = kind /\ sent' = sent /\ net' = net /\ ~more(body)
  BY DEF ReadsAsSent, TryHead, Trying
<1>2. PICK v, u : Place(sent, got, body, buffer, net, v, u)
  BY DEF ReadsAsSent
<1>3. PICK r : r = DecodeHead(kind, buffer)
  OBVIOUS
<1>4. CASE /\ r.st = "done"
           /\ buffer' = Pull(r.n)
           /\ got' = Append(got, [parts |-> r.out, body |-> <<>>])
           /\ body' = IF Len(got) < Len(sent) THEN BodyDecoder(sent[Len(got) + 1]) ELSE body
           /\ tried' = tried /\ failed' = failed
  <2> DEFINE m == sent[Len(got) + 1]  b == Cut(buffer, r.n)  h == Append(got, [parts |-> r.out, body |-> <<>>])
  <2>1. /\ Len(got) < Len(sent) /\ kind \in Kinds /\ m \in Messages(kind) /\ ~m.bad
        /\ r.out = m.parts /\ net \in Seq(Chars) /\ Ahead(sent, Len(got) + 1) \in Seq(Chars)
        /\ b \in Seq(Chars) /\ Divides(b, net, m.wire, Ahead(sent, Len(got) + 1))
    BY <1>1, <1>2, <1>3, <1>4, HeadFound
  <2>2. buffer' = b /\ body' = DecoderOf(kind, m)
    BY <1>4, <2>1, BodyDecoderIs DEF Pull, Cut
  <2>3. got # <<>> => got[Len(got)].body = sent[Len(got)].body
    <3> SUFFICES ASSUME got # <<>> PROVE got[Len(got)].body = sent[Len(got)].body
      OBVIOUS
    <3>1. sent[Len(got)].body = got[Len(got)].body \o <<>>
      BY <1>1, <1>2, BetweenMessages
    <3>2. got[Len(got)].body \in Seq(Chars)
      <4>1. Len(got) \in 1..Len(got) /\ \A i \in 1..Len(got) : got[i] \in GotRecords(kind)
        BY <1>1, TypedIs DEF Typed
      <4>2. got[Len(got)] \in GotRecords(kind)
        BY <4>1
      <4> QED BY <4>2 DEF GotRecords
    <3> QED BY <3>1, <3>2, ConcatEmptySeq
  <2> HIDE DEF b
  <2>4. /\ Typed(kind, sent, h) /\ Agree(sent, h) /\ Len(h) = Len(got) + 1 /\ h # <<>>
        /\ h[Len(h)].body = <<>>
    BY <1>1, <2>1, <2>3, OneMore
  <2>5. got' = h
    BY <1>4
  <2>6. Len(got) \in Nat /\ Len(sent) \in Nat /\ Written(sent)
    BY <1>1, TypedIs
  <2>7. \A i \in 1..Len(sent) : i < Len(sent) => ~NoLength(kind, sent[i])
    BY <1>1 DEF Ends
  <2>8. m = sent[Len(got) + 1]
    OBVIOUS
  <2> HIDE DEF h, m
  <2>9. /\ Place(sent, h, DecoderOf(kind, m), b, net, m.wire, m.body)
        /\ Ends(kind, sent, h, DecoderOf(kind, m))
    BY <2>1, <2>4, <2>6, <2>7, <2>8, PlaceBehindHead
  <2>10. /\ Typed(kind', sent', got') /\ Agree(sent', got') /\ Ends(kind', sent', got', body')
         /\ Place(sent', got', body', buffer', net', m.wire, m.body)
    BY <1>1, <2>2, <2>4, <2>5, <2>9
  <2> QED BY <1>1, <1>4, <2>10 DEF ReadsAsSent
<1>5. CASE /\ r.st = "bad" /\ failed' = TRUE
           /\ buffer' = buffer /\ got' = got /\ body' = body /\ tried' = tried
  <2>1. MayThrow(sent, got, body, buffer, net)
    BY <1>1, <1>2, <1>3, <1>5, HeadThrows
  <2> QED BY <1>1, <1>2, <1>5, <2>1 DEF ReadsAsSent
<1>6. CASE /\ r.st \notin {"done", "bad"} /\ tried' = TRUE
           /\ buffer' = buffer /\ got' = got /\ body' = body /\ failed' = failed
  <2>1. LookedInVain(kind, body, buffer)
    BY <1>1, <1>3, <1>6 DEF LookedInVain
  <2> QED BY <1>1, <1>2, <1>6, <2>1 DEF ReadsAsSent
<1> QED BY <1>3, <1>4, <1>5, <1>6 DEF TryHead

\* A part more of the body of the last message.
LEMMA MoreOfBody ==
  ASSUME NEW k, NEW s, NEW g, Typed(k, s, g), Agree(s, g), g # <<>>,
         NEW d, Ends(k, s, g, d), NEW u, JoinFirst(s[Len(g)].body, g[Len(g)].body, u),
         NEW x \in Seq(Chars), NEW h, h = [g EXCEPT ![Len(g)].body = @ \o x],
         NEW e, Unbounded(e) => Unbounded(d), NEW b, NEW y, NEW v, NEW t,
         JoinFirst(u, x, t), BodyAt(e, b, y, v, t, Ahead(s, Len(g)))
  PROVE  /\ Typed(k, s, h) /\ Agree(s, h) /\ Ends(k, s, h, e)
         /\ Place(s, h, e, b, y, v, t)
<1> DEFINE n == Len(g)
<1>1. /\ n \in Nat /\ n # 0 /\ k \in Kinds /\ s \in Seq(Messages(k)) /\ g \in Seq(GotRecords(k))
      /\ \A i \in 1..n : g[i] \in GotRecords(k)
  <2>1. n \in Nat /\ \A i \in 1..n : g[i] \in GotRecords(k)
    BY TypedIs
  <2>2. k \in Kinds /\ s \in Seq(Messages(k)) /\ g \in Seq(GotRecords(k))
    BY DEF Typed
  <2>3. n # 0
    BY <2>2, EmptySeq
  <2> QED BY <2>1, <2>2, <2>3
<1>2. n \in 1..n /\ g[n] \in GotRecords(k) /\ g[n].body \in Seq(Chars)
      /\ g[n].parts \in {m.parts : m \in Messages(k)}
  <2>1. n \in 1..n /\ g[n] \in GotRecords(k)
    BY <1>1
  <2> QED BY <2>1 DEF GotRecords
<1>3. h = [g EXCEPT ![n] = [g[n] EXCEPT !.body = g[n].body \o x]]
  OBVIOUS
<1> HIDE DEF n
<1> DEFINE w == g[n].body \o x  q == [g[n] EXCEPT !.body = w]
<1>4. w \in Seq(Chars)
  BY <1>2, ConcatProperties
<1>5. h = [g EXCEPT ![n] = q]
  BY <1>3
<1> HIDE DEF w
<1>6. q \in GotRecords(k) /\ q.parts = g[n].parts /\ q.body = w
  BY <1>2, <1>4 DEF GotRecords
<1> HIDE DEF q
<1>7. /\ h \in Seq(GotRecords(k)) /\ Len(h) = n /\ h[n] = q
      /\ \A i \in 1..n : i # n => h[i] = g[i]
  <2>1. Len(g) = n
    BY DEF n
  <2>2. h[n] = q /\ \A i \in 1..n : i # n => h[i] = g[i]
    BY <1>1, <1>2, <1>5, <2>1
  <2>3. h \in Seq(GotRecords(k)) /\ Len(h) = n
    <3> DEFINE R == GotRecords(k)
    <3>1. g \in Seq(R) /\ n \in 1..Len(g) /\ q \in R
      BY <1>1, <1>2, <1>6, <2>1
    <3> HIDE DEF R
    <3>2. [g EXCEPT ![n] = q] \in Seq(R) /\ Len([g EXCEPT ![n] = q]) = Len(g)
      BY <3>1, ExceptSeq
    <3> QED BY <1>5, <2>1, <3>2 DEF R
  <2> QED BY <2>2, <2>3
<1>8. h # <<>>
  BY <1>1, <1>7
<1>9. Typed(k, s, h)
  BY <1>1, <1>7 DEF Typed
<1>10. Agree(s, h)
  <2>1. n <= Len(s)
    BY DEF Agree, n
  <2>2. ASSUME NEW i \in 1..n
        PROVE  ~s[i].bad /\ h[i].parts = s[i].parts /\ (i < n => h[i].body = s[i].body)
    <3>1. ~s[i].bad /\ g[i].parts = s[i].parts /\ (i < n => g[i].body = s[i].body)
      BY DEF Agree, n
    <3>2. CASE i = n
      BY <1>1, <1>6, <1>7, <3>1, <3>2
    <3>3. CASE i # n
      BY <1>7, <3>1, <3>3
    <3> QED BY <3>2, <3>3
  <2> QED BY <1>7, <2>1, <2>2 DEF Agree
<1>11. Ends(k, s, h, e)
  BY <1>7, <1>8 DEF Ends, n
<1>12. JoinFirst(s[Len(h)].body, h[Len(h)].body, t)
  <2>1. x \in Seq(Chars) /\ t \in Seq(Chars) /\ g[n].body \in Seq(Chars)
    BY <1>2 DEF BodyAt
  <2>2. Associates(g[n].body, x, t)
    BY <2>1, ConcatAssociates
  <2>3. JoinFirst(s[n].body, w, t)
    BY <2>2, Zenon DEF JoinFirst, Associates, w, n
  <2> QED BY <1>6, <1>7, <2>3
<1>13. BodyAt(e, b, y, v, t, Ahead(s, Len(h)))
  BY <1>7 DEF n
<1>14. Place(s, h, e, b, y, v, t)
  BY <1>8, <1>12, <1>13 DEF Place
<1> QED BY <1>9, <1>10, <1>11, <1>14

LEMMA TryBodyReadsAsSent ==
  ASSUME ReadsAsSent, TryBody
  PROVE  ReadsAsSent'
<1>1. /\ Typed(kind, sent, got) /\ tried = FALSE /\ failed = FALSE
      /\ Agree(sent, got) /\ Ends(kind, sent, got, body)
      /\ kind' = kind /\ sent' = sent /\ net' = net /\ more(body)
  BY DEF ReadsAsSent, TryBody, Trying
<1>2. PICK v, u : Place(sent, got, body, buffer, net, v, u)
  BY DEF ReadsAsSent
<1>3. PICK r \in DecodeTransfer(body, buffer) :
        /\ failed' = (r.res = "bad") /\ tried' = (r.res = "wait") /\ body' = r.d
        /\ buffer' = Cut(buffer, r.n)
        /\ got' = [got EXCEPT ![Len(got)].body = @ \o r.data]
  BY DEF TryBody, Cut
<1> DEFINE z == Ahead(sent, Len(got))
<1>4. BodyAt(body, buffer, net, v, u, z)
  BY <1>2 DEF Place
<1>5. got # <<>> /\ JoinFirst(sent[Len(got)].body, got[Len(got)].body, u)
  BY <1>1, <1>2 DEF Place
<1>6. failed' \in BOOLEAN /\ tried' \in BOOLEAN
  BY <1>3
<1>7. CASE Stuck(body, r, buffer, net)
  <2>1. /\ r.d = body /\ r.data = <<>> /\ r.n = 0
        /\ (r.res = "wait" => r = Wait(body))
        /\ (r.res = "bad" => Overread(buffer) /\ net # <<>>)
        /\ ~(r.res = "wait" /\ r.res = "bad")
    BY <1>7 DEF Stuck, Wait, Bad
  <2>2. buffer' = buffer
    <3>1. buffer \in Seq(Chars)
      BY <1>4 DEF BodyAt
    <3>2. Cut(buffer, 0) = SubSeq(buffer, 1, Len(buffer))
      BY DEF Cut
    <3> QED BY <1>3, <2>1, <3>1, <3>2, SubSeqFull
  <2> DEFINE x == <<>>
  <2>3. x \in Seq(Chars) /\ JoinFirst(u, x, u)
    <3>1. u \in Seq(Chars)
      BY <1>4 DEF BodyAt
    <3>2. x \o u = u
      BY <3>1, ConcatEmptySeq
    <3>3. x \in Seq(Chars)
      OBVIOUS
    <3>4. JoinFirst(u, x, u)
      BY <3>2, Zenon DEF JoinFirst
    <3> QED BY <3>3, <3>4
  <2>4. got' = [got EXCEPT ![Len(got)].body = @ \o x]
    BY <1>3, <2>1
  <2> HIDE DEF x, z
  <2>5. /\ Typed(kind, sent, got') /\ Agree(sent, got') /\ Ends(kind, sent, got', body)
        /\ Place(sent, got', body, buffer, net, v, u)
    <3>1. BodyAt(body, buffer, net, v, u, Ahead(sent, Len(got))) /\ (Unbounded(body) => Unbounded(body))
      BY <1>4 DEF z
    <3> QED BY <1>1, <1>5, <2>3, <2>4, <3>1, MoreOfBody
  <2>6. /\ Typed(kind', sent', got') /\ Agree(sent', got') /\ Ends(kind', sent', got', body')
        /\ Place(sent', got', body', buffer', net', v, u)
    BY <1>1, <1>3, <2>1, <2>2, <2>5
  <2>7. tried' => LookedInVain(kind', body', buffer')
    <3>1. r.res = "wait" => LookedInVain(kind, body, buffer)
      BY <1>1, <2>1 DEF LookedInVain
    <3> QED BY <1>1, <1>3, <2>1, <2>2, <3>1
  <2>8. failed' => ~tried' /\ MayThrow(sent', got', body', buffer', net')
    <3>1. r.res = "bad" => MayThrow(sent, got', body, buffer, net)
      BY <1>1, <2>1 DEF MayThrow
    <3> QED BY <1>1, <1>3, <2>1, <2>2, <3>1
  <2> QED BY <1>6, <2>6, <2>7, <2>8 DEF ReadsAsSent
<1>8. CASE Progress(body, r, buffer, net, u, z)
  <2>1. PICK v2, u2 \in Seq(Chars) :
          /\ r.res = "msg" /\ r.d \in Decoders /\ r.data \in Seq(Chars)
          /\ Left(r.d, v2, u2) /\ JoinFirst(u, r.data, u2)
          /\ Cut(buffer, r.n) \in Seq(Chars) /\ Divides(Cut(buffer, r.n), net, v2, z)
          /\ Unbounded(r.d) => Unbounded(body)
    BY <1>8 DEF Progress
  <2>2. net \in Seq(Chars) /\ z \in Seq(Chars) /\ (Unbounded(body) => z = <<>>)
    BY <1>4 DEF BodyAt
  <2> HIDE DEF z
  <2>3. BodyAt(r.d, Cut(buffer, r.n), net, v2, u2, z)
    BY <2>1, <2>2 DEF BodyAt
  <2> DEFINE x == r.data  e == r.d
  <2>4. /\ x \in Seq(Chars) /\ got' = [got EXCEPT ![Len(got)].body = @ \o x]
        /\ (Unbounded(e) => Unbounded(body)) /\ JoinFirst(u, x, u2)
        /\ BodyAt(e, Cut(buffer, r.n), net, v2, u2, Ahead(sent, Len(got)))
    BY <1>3, <2>1, <2>3 DEF z
  <2> HIDE DEF x, e
  <2>5. /\ Typed(kind, sent, got') /\ Agree(sent, got') /\ Ends(kind, sent, got', e)
        /\ Place(sent, got', e, Cut(buffer, r.n), net, v2, u2)
    BY <1>1, <1>5, <2>4, MoreOfBody
  <2>6. /\ Typed(kind', sent', got') /\ Agree(sent', got') /\ Ends(kind', sent', got', body')
        /\ Place(sent', got', body', buffer', net', v2, u2)
    BY <1>1, <1>3, <2>5 DEF e
  <2>7. ~tried' /\ ~failed'
    BY <1>3, <2>1
  <2> QED BY <1>6, <2>6, <2>7 DEF ReadsAsSent
<1>9. Stuck(body, r, buffer, net) \/ Progress(body, r, buffer, net, u, z)
  <2> HIDE DEF z
  <2> QED BY <1>1, <1>4, BodyStep
<1> QED BY <1>7, <1>8, <1>9

LEMMA ReceiveReadsAsSent ==
  ASSUME ReadsAsSent, Receive
  PROVE  ReadsAsSent'
<1>1. /\ Typed(kind, sent, got) /\ tried /\ ~failed
      /\ Agree(sent, got) /\ Ends(kind, sent, got, body)
      /\ kind' = kind /\ sent' = sent /\ got' = got /\ body' = body
      /\ tried' = FALSE /\ failed' = failed
  BY DEF ReadsAsSent, Receive
<1>2. PICK v, u : Place(sent, got, body, buffer, net, v, u)
  BY DEF ReadsAsSent
<1>3. PICK n \in 1..Len(net) : buffer' = buffer \o SubSeq(net, 1, n) /\ net' = Cut(net, n)
  BY DEF Receive, Cut
<1> DEFINE z == Ahead(sent, Len(got))  p == SubSeq(net, 1, n)  c == Cut(net, n)
<1>4. BodyAt(body, buffer, net, v, u, z)
  BY <1>2 DEF Place
<1>5. buffer \in Seq(Chars) /\ net \in Seq(Chars) /\ Divides(buffer, net, v, z)
  BY <1>4 DEF BodyAt
<1>6. p \in Seq(Chars) /\ c \in Seq(Chars) /\ JoinFirst(net, p, c)
  <2>1. n \in Nat /\ n <= Len(net)
    <3>1. Len(net) \in Nat
      BY <1>5, LenProperties
    <3> QED BY <3>1
  <2> QED BY <1>5, <2>1, CutTail
<1> HIDE DEF z, p, c
<1>7. Associates(buffer, p, c)
  BY <1>5, <1>6, ConcatAssociates
<1>8. Divides(buffer \o p, c, v, z) /\ buffer \o p \in Seq(Chars)
  <2>1. buffer \o p \in Seq(Chars)
    BY <1>5, <1>6, ConcatProperties
  <2> QED BY <1>5, <1>6, <1>7, <2>1, Zenon DEF Divides, JoinFirst, Associates
<1> DEFINE b == buffer \o p
<1>9. b \in Seq(Chars) /\ Divides(b, c, v, z) /\ buffer' = b /\ net' = c
  BY <1>3, <1>8, Zenon DEF p, c
<1> HIDE DEF b
<1>10. BodyAt(body, b, c, v, u, z)
  BY <1>4, <1>6, <1>9 DEF BodyAt
<1>11. Place(sent, got, body, b, c, v, u)
  BY <1>2, <1>10 DEF Place, z
<1>12. Place(sent', got', body', buffer', net', v, u)
  BY <1>1, <1>9, <1>11
<1> QED BY <1>1, <1>12 DEF ReadsAsSent

LEMMA PeerSendReadsAsSent ==
  ASSUME ReadsAsSent, NEW m \in Messages(kind), PeerSend(m)
  PROVE  ReadsAsSent'
<1> DEFINE n == Len(sent)  k == Len(got)  t == Append(sent, m)
<1>1. /\ Typed(kind, sent, got) /\ Agree(sent, got) /\ Ends(kind, sent, got, body)
      /\ kind' = kind /\ got' = got /\ body' = body /\ buffer' = buffer
      /\ tried' = tried /\ failed' = failed
      /\ sent' = t /\ net' = (net \o m.chars) \o m.wire
      /\ sent # <<>> => ~NoLength(kind, sent[n])
  BY EndlessIs DEF ReadsAsSent, PeerSend, Last
<1>2. PICK v, u : Place(sent, got, body, buffer, net, v, u)
  BY DEF ReadsAsSent
<1>3. /\ n \in Nat /\ k \in 0..n /\ k \in Nat /\ Written(sent)
      /\ kind \in Kinds /\ sent \in Seq(Messages(kind)) /\ got \in Seq(GotRecords(kind))
  BY <1>1, TypedIs DEF Typed, Agree
<1>4. /\ t \in Seq(Messages(kind)) /\ Len(t) = n + 1 /\ t[n + 1] = m
      /\ \A i \in 1..n : t[i] = sent[i]
  BY <1>3, AppendProperties
<1> HIDE DEF t
<1>5. Typed(kind, t, got)
  BY <1>3, <1>4 DEF Typed
<1>6. Written(t) /\ m.chars \in Seq(Chars) /\ m.wire \in Seq(Chars)
  BY <1>3, <1>5, TypedIs, MessageIs
<1>7. Agree(t, got)
  <2>1. Len(got) <= Len(t)
    BY <1>3, <1>4
  <2>2. \A i \in 1..Len(got) : t[i] = sent[i]
    BY <1>3, <1>4
  <2> QED BY <1>1, <2>1, <2>2 DEF Agree
<1>8. Ends(kind, t, got, body) /\ (Unbounded(body) => FALSE)
  <2>1. ASSUME Unbounded(body) PROVE FALSE
    <3>1. got # <<>> /\ NoLength(kind, sent[k])
      BY <1>1, <2>1 DEF Ends
    <3>2. k # 0
      BY <1>3, <3>1, EmptySeq
    <3>3. k \in 1..n
      BY <1>3, <3>2
    <3>4. k = n
      <4>1. \A i \in 1..n : i < n => ~NoLength(kind, sent[i])
        BY <1>1 DEF Ends
      <4> QED BY <1>3, <3>1, <3>3, <4>1
    <3>5. sent # <<>>
      BY <3>3
    <3> QED BY <1>1, <3>1, <3>4, <3>5
  <2>2. ASSUME NEW i \in 1..Len(t), i < Len(t) PROVE ~NoLength(kind, t[i])
    <3>1. i \in 1..n /\ t[i] = sent[i]
      BY <1>3, <1>4, <2>2
    <3>2. CASE i < n
      BY <1>1, <3>1, <3>2 DEF Ends
    <3>3. CASE i = n
      <4>1. sent # <<>>
        BY <1>3, <3>1
      <4> QED BY <1>1, <3>1, <3>3, <4>1
    <3> QED BY <1>3, <3>1, <3>2, <3>3
  <2> QED BY <2>1, <2>2 DEF Ends
<1> DEFINE z == Ahead(sent, k)  y == net \o m.chars  c == m.chars \o m.wire
<1>9. BodyAt(body, buffer, net, v, u, z)
  BY <1>2 DEF Place
<1>10. /\ buffer \in Seq(Chars) /\ net \in Seq(Chars) /\ v \in Seq(Chars) /\ z \in Seq(Chars)
       /\ Divides(buffer, net, v, z) /\ body \in Decoders /\ u \in Seq(Chars) /\ Left(body, v, u)
  BY <1>9 DEF BodyAt
<1>11. Ahead(t, k) = z \o c
  <2>1. Len(t) = Len(sent) + 1 /\ (\A i \in 1..Len(sent) : t[i] = sent[i]) /\ t[Len(t)] = m
    BY <1>4
  <2>2. k \in 0..Len(sent)
    BY <1>3
  <2> HIDE DEF k
  <2>3. Ahead(t, k) = Ahead(sent, k) \o (t[Len(t)].chars \o t[Len(t)].wire)
    BY <1>3, <1>6, <2>1, <2>2, AheadNext
  <2> QED BY <2>1, <2>3
<1>12. c \in Seq(Chars) /\ y \in Seq(Chars)
  BY <1>6, <1>10, ConcatProperties
<1> HIDE DEF z
<1>13. Associates(net, m.chars, m.wire)
  BY <1>6, <1>10, ConcatAssociates
<1>14. net' = net \o c
  BY <1>1, <1>13, Zenon DEF Associates
<1> HIDE DEF c, y
<1>15. Associates(buffer, net, c) /\ Associates(v, z, c)
  BY <1>10, <1>12, ConcatAssociates
<1> DEFINE x == net \o c  a == z \o c
<1>16. Divides(buffer, x, v, a)
  BY <1>10, <1>15, Zenon DEF Divides, Associates
<1>17. x \in Seq(Chars) /\ a \in Seq(Chars) /\ (net # <<>> => x # <<>>)
  <2>1. x \in Seq(Chars) /\ a \in Seq(Chars)
    BY <1>10, <1>12, ConcatProperties
  <2>2. net # <<>> => x # <<>>
    BY <1>10, <1>12, ConcatSimplifications
  <2> QED BY <2>1, <2>2
<1>18. net' = x /\ Ahead(t, k) = a
  BY <1>11, <1>14
<1> HIDE DEF x, a
<1>19. BodyAt(body, buffer, x, v, u, a)
  BY <1>8, <1>10, <1>16, <1>17 DEF BodyAt
<1>20. Place(t, got, body, buffer, x, v, u)
  <2>1. BodyAt(body, buffer, x, v, u, Ahead(t, Len(got)))
    BY <1>18, <1>19
  <2>2. IF got = <<>> THEN ~more(body) ELSE JoinFirst(t[Len(got)].body, got[Len(got)].body, u)
    <3>1. CASE got = <<>>
      BY <1>2, <3>1 DEF Place
    <3>2. CASE got # <<>>
      <4>1. k # 0
        BY <1>3, <3>2, EmptySeq
      <4>2. t[k] = sent[k]
        BY <1>3, <1>4, <4>1
      <4>3. JoinFirst(sent[k].body, got[k].body, u)
        BY <1>2, <3>2 DEF Place
      <4> QED BY <3>2, <4>2, <4>3
    <3> QED BY <3>1, <3>2
  <2> QED BY <2>1, <2>2 DEF Place
<1>21. failed => ~tried /\ MayThrow(t, got, body, buffer, x)
  <2> SUFFICES ASSUME failed PROVE ~tried /\ MayThrow(t, got, body, buffer, x)
    OBVIOUS
  <2>1. ~tried /\ MayThrow(sent, got, body, buffer, net)
    BY DEF ReadsAsSent
  <2>2. k < n => k < Len(t) /\ t[k + 1] = sent[k + 1]
    BY <1>3, <1>4
  <2> QED BY <1>17, <2>1, <2>2 DEF MayThrow
<1>22. /\ Typed(kind', sent', got') /\ Agree(sent', got') /\ Ends(kind', sent', got', body')
       /\ Place(sent', got', body', buffer', net', v, u)
  BY <1>1, <1>5, <1>7, <1>8, <1>18, <1>20
<1>23. /\ tried' \in BOOLEAN /\ failed' \in BOOLEAN
       /\ tried' => LookedInVain(kind', body', buffer')
       /\ failed' => ~tried' /\ MayThrow(sent', got', body', buffer', net')
  <2>1. tried \in BOOLEAN /\ failed \in BOOLEAN /\ (tried => LookedInVain(kind, body, buffer))
    BY DEF ReadsAsSent
  <2> QED BY <1>1, <1>18, <1>21, <2>1
<1> QED BY <1>22, <1>23 DEF ReadsAsSent

\* The invariant holds all along.
LEMMA SpecReadsAsSent == Spec => []ReadsAsSent
<1>1. Init => ReadsAsSent
  BY InitReadsAsSent
<1>2. ReadsAsSent /\ [Next]_vars => ReadsAsSent'
  <2> SUFFICES ASSUME ReadsAsSent, [Next]_vars PROVE ReadsAsSent'
    OBVIOUS
  <2>1. CASE TryHead
    BY <2>1, TryHeadReadsAsSent
  <2>2. CASE TryBody
    BY <2>2, TryBodyReadsAsSent
  <2>3. CASE Receive
    BY <2>3, ReceiveReadsAsSent
  <2>4. CASE \E m \in Messages(kind) : PeerSend(m)
    BY <2>4, PeerSendReadsAsSent
  <2>5. CASE UNCHANGED vars
    <3>1. /\ kind' = kind /\ sent' = sent /\ net' = net /\ buffer' = buffer /\ tried' = tried
          /\ body' = body /\ got' = got /\ failed' = failed
      BY <2>5 DEF vars
    <3> QED BY <3>1 DEF ReadsAsSent
  <2> QED BY <2>1, <2>2, <2>3, <2>4, <2>5 DEF Next
<1> QED BY <1>1, <1>2, PTL DEF Spec

\* However the bytes of the peer are cut into pieces, the messages that
\* next_request, http_client and forward_to read are those that were sent, each
\* with its own headers and exactly its own body, and none is malformed.
THEOREM MessagesReadAsSent == Spec => []MessagesAsSent
<1>1. ReadsAsSent => MessagesAsSent
  <2> SUFFICES ASSUME ReadsAsSent, NEW i \in 1..Len(got)
               PROVE  /\ i <= Len(sent) /\ ~sent[i].bad /\ got[i].parts = sent[i].parts
                      /\ IF i < Len(got) \/ ~more(body) THEN got[i].body = sent[i].body
                         ELSE IsPrefix(got[i].body, sent[i].body)
    BY DEF MessagesAsSent
  <2> DEFINE k == Len(got)
  <2>1. Typed(kind, sent, got) /\ Agree(sent, got)
    BY DEF ReadsAsSent
  <2>2. PICK v, u : Place(sent, got, body, buffer, net, v, u)
    BY DEF ReadsAsSent
  <2>3. /\ k \in Nat /\ Len(sent) \in Nat /\ k <= Len(sent)
        /\ \A j \in 1..k : got[j] \in GotRecords(kind)
    BY <2>1, TypedIs DEF Agree
  <2>4. i <= Len(sent) /\ ~sent[i].bad /\ got[i].parts = sent[i].parts
    BY <2>1, <2>3 DEF Agree
  <2>5. CASE i < k
    <3>1. got[i].body = sent[i].body
      BY <2>1, <2>5 DEF Agree
    <3> QED BY <2>4, <2>5, <3>1
  <2>6. CASE i = k
    <3>1. got # <<>> /\ got[i].body \in Seq(Chars)
      <4>1. got[i] \in GotRecords(kind)
        BY <2>3
      <4>2. got # <<>>
        OBVIOUS
      <4> QED BY <4>1, <4>2 DEF GotRecords
    <3> DEFINE a == got[i].body  w == sent[i].body
    <3>2. JoinFirst(w, a, u)
      BY <2>2, <2>6, <3>1 DEF Place
    <3>3. u \in Seq(Chars)
      BY <2>2 DEF Place, BodyAt
    <3>4. CASE ~more(body)
      <4>1. u = <<>>
        BY <2>2, <3>4, BetweenMessages
      <4>2. a \o <<>> = a
        BY <3>1, ConcatEmptySeq
      <4>3. a = w
        BY <3>2, <4>1, <4>2, Zenon DEF JoinFirst
      <4> QED BY <2>4, <3>4, <4>3
    <3>5. CASE more(body)
      <4>1. a \in Seq(Chars)
        BY <3>1
      <4> HIDE DEF a, w
      <4>2. SubSeq(a \o u, 1, Len(a)) = a
        BY <3>3, <4>1, PullConcat
      <4>3. SubSeq(a, 1, Len(a)) = a
        BY <4>1, SubSeqFull
      <4>4. Len(a \o u) = Len(a) + Len(u) /\ Len(a) \in Nat /\ Len(u) \in Nat
        BY <3>3, <4>1, ConcatProperties, LenProperties
      <4>5. w = a \o u
        BY <3>2, Zenon DEF JoinFirst
      <4> DEFINE x == a \o u
      <4>6. Len(a) <= Len(x)
        BY <4>4
      <4>7. SubSeq(a, 1, Len(a)) = SubSeq(w, 1, Len(a)) /\ Len(a) <= Len(w)
        BY <4>2, <4>3, <4>5, <4>6, Zenon
      <4>8. IsPrefix(a, w)
        BY <4>7, Zenon DEF IsPrefix
      <4> QED BY <2>4, <2>6, <3>5, <4>8 DEF a, w
    <3> QED BY <3>4, <3>5
  <2> QED BY <2>3, <2>5, <2>6
<1> QED BY <1>1, SpecReadsAsSent, PTL

\* decode() throws only at a malformed message, at a buffer it is not ready to
\* look at, or where it looks behind the buffer for the end of a size line.
THEOREM OnlyMalformedRejected == Spec => []RejectsOnlyMalformed
<1>1. ReadsAsSent => RejectsOnlyMalformed
  BY DEF ReadsAsSent, MayThrow, RejectsOnlyMalformed
<1> QED BY <1>1, SpecReadsAsSent, PTL

\* When all that a peer of well-formed messages has sent has arrived and the
\* reader still waits, nothing is left in the buffer: no whole message is
\* overlooked, and none is read short or too far.
THEOREM NothingIsLeftWaiting == Spec => []NothingLeftWaiting
<1>1. ReadsAsSent => NothingLeftWaiting
  <2> SUFFICES ASSUME ReadsAsSent, tried, net = <<>>, \A i \in 1..Len(sent) : ~sent[i].bad
               PROVE  /\ Len(got) = Len(sent) /\ buffer = <<>>
                      /\ more(body) => Endless(Last(sent))
    BY DEF NothingLeftWaiting
  <2>1. /\ Typed(kind, sent, got) /\ Agree(sent, got) /\ Ends(kind, sent, got, body)
        /\ LookedInVain(kind, body, buffer)
    BY DEF ReadsAsSent
  <2>2. PICK v, u : Place(sent, got, body, buffer, <<>>, v, u)
    BY DEF ReadsAsSent
  <2>3. CASE ~more(body)
    <3>1. Len(got) = Len(sent) /\ buffer = <<>>
      BY <2>1, <2>2, <2>3, NoMoreHeads
    <3> QED BY <2>3, <3>1
  <2>4. CASE more(body)
    <3>1. BodyAt(body, buffer, <<>>, v, u, Ahead(sent, Len(got)))
      BY <2>2 DEF Place
    <3>2. Wait(body) \in DecodeTransfer(body, buffer)
      BY <2>1, <2>4 DEF LookedInVain
    <3>3. Unbounded(body) /\ buffer = <<>>
      <4> DEFINE z == Ahead(sent, Len(got))
      <4>1. BodyAt(body, buffer, <<>>, v, u, z)
        BY <3>1
      <4> HIDE DEF z
      <4> QED BY <2>4, <3>2, <4>1, BodyWaits
    <3>4. got # <<>> /\ NoLength(kind, sent[Len(got)])
      BY <2>1, <3>3 DEF Ends
    <3>5. Len(got) = Len(sent)
      <4>1. /\ Len(got) \in Nat /\ Len(sent) \in Nat /\ Len(got) <= Len(sent)
            /\ got \in Seq(GotRecords(kind))
        BY <2>1, TypedIs DEF Agree, Typed
      <4>2. Len(got) \in 1..Len(sent)
        BY <3>4, <4>1, EmptySeq
      <4> QED BY <2>1, <3>4, <4>1, <4>2 DEF Ends
    <3>6. Endless(Last(sent))
      BY <3>4, <3>5, EndlessIs DEF Last
    <3> QED BY <3>3, <3>5, <3>6
  <2> QED BY <2>3, <2>4
<1> QED BY <1>1, SpecReadsAsSent, PTL

-----------------------------------------------------------------------------
(* HttpClient.                                                             *)

Item == [kind : {"head"}, req : Nat, announced : -1..2, keep : BOOLEAN]
          \cup [kind : {"piece"}, req : Nat]

ClientTypes ==
  /\ phase \in {"idle", "head", "body"} /\ _reusable \in BOOLEAN
  /\ rest \in Int /\ asked \in Nat /\ received \in Nat
  /\ answering \in [req : Nat, pieces : Nat]
  /\ items \in Seq(Item)
  /\ taken \in Seq([by : Nat, item : Item])

\* What is on its way belongs to the request asked last, because the client
\* asks again only when there is nothing left of the answers before.
AllOfLast ==
  /\ received \in {asked - 1, asked} /\ answering.req \in {asked - 1, asked}
  /\ answering.req <= received
  /\ answering.pieces > 0 => answering.req = asked
  /\ \A i \in 1..Len(items) : items[i].req = asked

\* The pieces of an answer that are still to come, given what its header has
\* announced less what has been taken: that many, or none for an answer
\* without a body.
Outstanding(n, announced) == announced = -1 \/ n \in {0, announced}

\* Between the head of a response and the next request, on a connection that
\* may be used again.
BodyAsAnnounced ==
  phase # "head" /\ _reusable =>
    /\ received = asked /\ answering.req = asked
    /\ \A i \in 1..Len(items) : items[i].kind = "piece"
    /\ Outstanding(Len(items) + answering.pieces, rest)

\* Between a request and the head of its response, likewise.
HeadFirst ==
  phase = "head" /\ _reusable =>
    /\ received = asked
    /\ \/ answering.req = asked - 1 /\ items = <<>>
       \/ /\ answering.req = asked /\ items # <<>> /\ items[1].kind = "head"
          /\ items[1].keep =>
               /\ \A i \in 2..Len(items) : items[i].kind = "piece"
               /\ Outstanding(Len(items) - 1 + answering.pieces, items[1].announced)

ClientInv ==
  ClientTypes /\ AllOfLast /\ BodyAsAnnounced /\ HeadFirst /\ OwnResponse

-----------------------------------------------------------------------------
\* The next item is taken off, and what is left of the rest.
LEMMA NextItem ==
  ASSUME ClientTypes, items # <<>>
  PROVE  /\ Head(items) = items[1] /\ items[1] \in Item /\ 1 \in 1..Len(items)
         /\ Tail(items) \in Seq(Item) /\ Len(Tail(items)) = Len(items) - 1
         /\ Len(items) \in Nat
         /\ \A i \in 1..Len(Tail(items)) : /\ Tail(items)[i] = items[i + 1]
                                         /\ i + 1 \in 2..Len(items)
<1>1. items \in Seq(Item)
  BY DEF ClientTypes
<1> QED BY <1>1, HeadTailProperties

\* What is taken was sent for the request asked last.
LEMMA TakeIsOwn ==
  ASSUME ClientInv, items # <<>>, Take(Head(items)), UNCHANGED asked
  PROVE  taken' \in Seq([by : Nat, item : Item]) /\ OwnResponse'
<1> DEFINE t == [by |-> asked, item |-> Head(items)]
<1>1. /\ taken \in Seq([by : Nat, item : Item]) /\ taken' = Append(taken, t)
      /\ t \in [by : Nat, item : Item]
  BY NextItem DEF Take, ClientInv, ClientTypes
<1>2. t.item.req = t.by
  BY NextItem DEF ClientInv, AllOfLast
<1> HIDE DEF t
<1>3. /\ taken' \in Seq([by : Nat, item : Item]) /\ Len(taken) \in Nat
      /\ Len(taken') = Len(taken) + 1 /\ taken'[Len(taken) + 1] = t
      /\ \A i \in 1..Len(taken) : taken'[i] = taken[i]
  BY <1>1, AppendProperties
<1>4. \A i \in 1..Len(taken') : taken'[i].item.req = taken'[i].by
  <2> SUFFICES ASSUME NEW i \in 1..Len(taken')
               PROVE  taken'[i].item.req = taken'[i].by
    OBVIOUS
  <2>1. CASE i \in 1..Len(taken)
    BY <2>1, <1>3 DEF ClientInv, OwnResponse
  <2>2. CASE i = Len(taken) + 1
    BY <2>2, <1>2, <1>3
  <2> QED BY <2>1, <2>2, <1>3
<1> QED BY <1>3, <1>4 DEF OwnResponse

LEMMA SendKeepsClientInv ==
  ASSUME ClientInv, Send
  PROVE  ClientInv'
<1> USE DEF ClientInv
<1>1. /\ phase = "idle" /\ _reusable /\ rest = 0 /\ asked' = asked + 1
      /\ UNCHANGED <<rest, answering, items, taken>>
  BY DEF Send, data_available
<1>2. /\ received = asked /\ answering.req = asked /\ answering.pieces = 0
      /\ Len(items) = 0 /\ items = <<>>
  <2>1. Len(items) + answering.pieces = 0 /\ Len(items) \in Nat
    BY <1>1 DEF BodyAsAnnounced, Outstanding, ClientTypes
  <2> QED BY <2>1, <1>1 DEF BodyAsAnnounced, ClientTypes
<1>3. /\ \/ phase' = "head" /\ received' = asked + 1
         \/ phase' = "idle" /\ received' \in {asked, asked + 1} /\ ~_reusable'
      /\ _reusable' \in BOOLEAN
  BY <1>1, <1>2 DEF Send, GiveUp
<1>4. ClientTypes'
  <2>1. phase' \in {"idle", "head", "body"} /\ received' \in Nat /\ asked' \in Nat
    BY <1>1, <1>3 DEF ClientTypes
  <2> QED BY <2>1, <1>1, <1>3 DEF ClientTypes
<1>5. AllOfLast'
  BY <1>1, <1>2, <1>3 DEF AllOfLast, ClientTypes
<1>6. BodyAsAnnounced' /\ HeadFirst'
  BY <1>1, <1>2, <1>3 DEF BodyAsAnnounced, HeadFirst, ClientTypes
<1>7. OwnResponse'
  BY <1>1 DEF OwnResponse
<1> QED BY <1>4, <1>5, <1>6, <1>7

LEMMA GetHeadKeepsClientInv ==
  ASSUME ClientInv, GetHead
  PROVE  ClientInv'
<1> USE DEF ClientInv
<1>1. /\ phase = "head" /\ items # <<>> /\ phase' = "idle"
      /\ UNCHANGED <<asked, received, answering>>
  BY DEF GetHead
<1>2. CASE items[1].kind = "head"
  <2>1. /\ Take(items[1]) /\ items' = Tail(items) /\ rest' = items[1].announced
        /\ _reusable' = (_reusable /\ items[1].keep)
    BY <1>1, <1>2, NextItem DEF GetHead
  <2>2. /\ items[1].announced \in -1..2 /\ items[1].keep \in BOOLEAN
        /\ items' \in Seq(Item)
    BY <1>1, <1>2, <2>1, NextItem DEF Item
  <2>3. taken' \in Seq([by : Nat, item : Item]) /\ OwnResponse'
    BY <1>1, <2>1, NextItem, TakeIsOwn
  <2>4. ClientTypes'
    BY <1>1, <2>1, <2>2, <2>3 DEF ClientTypes
  <2>5. AllOfLast'
    BY <1>1, <2>1, NextItem DEF AllOfLast
  <2>6. BodyAsAnnounced'
    <3> SUFFICES ASSUME _reusable'
                 PROVE  /\ received = asked /\ answering.req = asked
                        /\ \A i \in 1..Len(items') : items'[i].kind = "piece"
                        /\ Outstanding(Len(items') + answering.pieces, rest')
      BY <1>1 DEF BodyAsAnnounced
    <3>1. _reusable /\ items[1].keep
      BY <2>1, <2>2 DEF ClientTypes
    <3>2. /\ received = asked /\ answering.req = asked
          /\ \A i \in 2..Len(items) : items[i].kind = "piece"
          /\ Outstanding(Len(items) - 1 + answering.pieces, items[1].announced)
      BY <1>1, <3>1 DEF HeadFirst
    <3> QED BY <1>1, <2>1, <3>2, NextItem DEF Outstanding
  <2> QED BY <1>1, <2>3, <2>4, <2>5, <2>6 DEF HeadFirst
<1>3. CASE items[1].kind # "head"
  <2>1. _reusable' = FALSE /\ UNCHANGED <<rest, items, taken>>
    BY <1>1, <1>3, NextItem DEF GetHead, GiveUp
  <2> QED BY <1>1, <2>1 DEF ClientTypes, AllOfLast, BodyAsAnnounced, HeadFirst,
                            OwnResponse
<1> QED BY <1>2, <1>3

LEMMA GetBodyKeepsClientInv ==
  ASSUME ClientInv, GetBody
  PROVE  ClientInv'
<1> USE DEF ClientInv
<1>1. /\ phase = "body" /\ items # <<>> /\ phase' = "idle"
      /\ Take(Head(items)) /\ items' = Tail(items) /\ rest' = Remaining
      /\ UNCHANGED <<_reusable, asked, received, answering>>
  BY DEF GetBody
<1>2. taken' \in Seq([by : Nat, item : Item]) /\ OwnResponse'
  BY <1>1, TakeIsOwn
<1>3. /\ ClientTypes' /\ rest \in Int
      /\ rest' = IF rest = -1 THEN -1 ELSE rest - 1
  BY <1>1, <1>2, NextItem DEF ClientTypes, Remaining
<1>4. AllOfLast'
  BY <1>1, NextItem DEF AllOfLast
<1>5. BodyAsAnnounced'
  <2> SUFFICES ASSUME _reusable
               PROVE  /\ received = asked /\ answering.req = asked
                      /\ \A i \in 1..Len(items') : items'[i].kind = "piece"
                      /\ Outstanding(Len(items') + answering.pieces, rest')
    BY <1>1 DEF BodyAsAnnounced
  <2>1. /\ received = asked /\ answering.req = asked
        /\ \A i \in 1..Len(items) : items[i].kind = "piece"
        /\ Outstanding(Len(items) + answering.pieces, rest)
    BY <1>1 DEF BodyAsAnnounced
  <2>2. answering.pieces \in Nat /\ Len(items) \in Nat /\ Len(items) > 0
    BY <1>1, NextItem DEF ClientTypes
  <2>3. Outstanding(Len(items') + answering.pieces, rest')
    BY <1>1, <1>3, <2>1, <2>2, NextItem DEF Outstanding
  <2> QED BY <1>1, <2>1, <2>3, NextItem
<1> QED BY <1>1, <1>2, <1>3, <1>4, <1>5 DEF HeadFirst

\* Giving up, and the beginning of a read.
LEMMA OthersKeepClientInv ==
  ASSUME ClientInv, LoseHead \/ Read \/ LoseBody
  PROVE  ClientInv'
<1> USE DEF ClientInv
<1>1. UNCHANGED <<rest, asked, received, answering, items, taken>>
  BY DEF LoseHead, Read, LoseBody, serverVars
<1>2. /\ phase' \in {"idle", "body"} /\ _reusable' \in BOOLEAN
      /\ _reusable' => _reusable /\ phase # "head"
  <2>1. CASE LoseHead
    BY <2>1 DEF LoseHead, GiveUp
  <2>2. CASE Read
    <3>1. _reusable' = _reusable /\ _reusable \in BOOLEAN
      BY <2>2 DEF Read, ClientTypes
    <3> QED BY <2>2, <3>1 DEF Read
  <2>3. CASE LoseBody
    <3>1. _reusable' = _reusable /\ _reusable \in BOOLEAN
      BY <2>3 DEF LoseBody, ClientTypes
    <3> QED BY <2>3, <3>1 DEF LoseBody
  <2> QED BY <2>1, <2>2, <2>3
<1>3. ClientTypes' /\ AllOfLast' /\ OwnResponse'
  BY <1>1, <1>2 DEF ClientTypes, AllOfLast, OwnResponse
<1>4. BodyAsAnnounced'
  <2> SUFFICES ASSUME _reusable'
               PROVE  /\ received = asked /\ answering.req = asked
                      /\ \A i \in 1..Len(items) : items[i].kind = "piece"
                      /\ Outstanding(Len(items) + answering.pieces, rest)
    BY <1>1 DEF BodyAsAnnounced
  <2> QED BY <1>2 DEF BodyAsAnnounced
<1>5. HeadFirst'
  BY <1>2 DEF HeadFirst
<1> QED BY <1>3, <1>4, <1>5

LEMMA AnswerKeepsClientInv ==
  ASSUME ClientInv, NEW announced \in -1..2, NEW pieces \in 0..2,
         NEW keep \in BOOLEAN, NEW interim \in BOOLEAN,
         Answer(announced, pieces, keep, interim)
  PROVE  ClientInv'
<1> USE DEF ClientInv
<1> DEFINE head(n, k) == [kind |-> "head", req |-> answering.req + 1,
                          announced |-> n, keep |-> k]
           h0 == head(-1, FALSE)
           h == head(announced, keep)
           answer == [req |-> answering.req + 1, pieces |-> pieces]
<1>1. /\ answering.pieces = 0 /\ answering.req < received
      /\ answering' = answer
      /\ \/ items' = Append(items, h)
         \/ items' = Append(Append(items, h0), h)
      /\ UNCHANGED <<phase, _reusable, rest, asked, received, taken>>
      /\ pieces = announced \/ pieces = 0 \/ announced = -1
  BY DEF Answer, clientVars
<1>2. /\ asked \in Nat /\ answering.req \in Nat /\ items \in Seq(Item)
      /\ received = asked /\ answering.req + 1 = asked
  BY <1>1 DEF AllOfLast, ClientTypes
<1>3. /\ answering' \in [req : Nat, pieces : Nat]
      /\ answering'.req = asked /\ answering'.pieces = pieces
  BY <1>1, <1>2
<1>4. /\ h \in Item /\ h.req = asked /\ h.kind = "head" /\ h.announced = announced
      /\ h0 \in Item /\ h0.req = asked /\ h0.kind = "head" /\ ~h0.keep
  <2>1. h \in [kind : {"head"}, req : Nat, announced : -1..2, keep : BOOLEAN]
    BY <1>2
  <2>2. h0 \in [kind : {"head"}, req : Nat, announced : -1..2, keep : BOOLEAN]
    BY <1>2
  <2> QED BY <1>2, <2>1, <2>2 DEF Item
<1> HIDE DEF h, h0, head, answer
<1>5. /\ items' \in Seq(Item)
      /\ \A i \in 1..Len(items') : items'[i].req = asked
  <2>1. \A i \in 1..Len(items) : items[i].req = asked
    BY DEF AllOfLast
  <2>2. CASE items' = Append(items, h)
    BY <2>1, <2>2, <1>2, <1>4
  <2>3. CASE items' = Append(Append(items, h0), h)
    BY <2>1, <2>3, <1>2, <1>4
  <2> QED BY <2>2, <2>3, <1>1
<1>6. ClientTypes'
  BY <1>1, <1>3, <1>5 DEF ClientTypes
<1>7. AllOfLast'
  BY <1>1, <1>2, <1>3, <1>5 DEF AllOfLast
<1>8. OwnResponse'
  BY <1>1 DEF OwnResponse
<1>9. BodyAsAnnounced'
  <2>1. ~(phase # "head" /\ _reusable)
    BY <1>2 DEF BodyAsAnnounced
  <2> QED BY <2>1, <1>1 DEF BodyAsAnnounced
<1>10. HeadFirst'
  <2> SUFFICES ASSUME phase = "head", _reusable
               PROVE  /\ items' # <<>> /\ items'[1].kind = "head"
                      /\ items'[1].keep =>
                           /\ \A i \in 2..Len(items') : items'[i].kind = "piece"
                           /\ Outstanding(Len(items') - 1 + answering'.pieces,
                                          items'[1].announced)
    BY <1>1, <1>2, <1>3 DEF HeadFirst
  <2>1. items = <<>>
    BY <1>2 DEF HeadFirst
  <2>2. CASE items' = Append(items, h)
    <3>1. Len(items') = 1 /\ items'[1] = h /\ items' # <<>>
      BY <2>1, <2>2, <1>4
    <3>2. Outstanding(pieces, announced)
      BY <1>1 DEF Outstanding
    <3>3. Len(items') - 1 + answering'.pieces = pieces
      BY <3>1, <1>3
    <3> QED BY <3>1, <3>2, <3>3, <1>4
  <2>3. CASE items' = Append(Append(items, h0), h)
    <3>1. items'[1] = h0 /\ items' # <<>>
      BY <2>1, <2>3, <1>4
    <3> QED BY <3>1, <1>4
  <2> QED BY <2>2, <2>3, <1>1
<1> QED BY <1>6, <1>7, <1>8, <1>9, <1>10

LEMMA SendPieceKeepsClientInv ==
  ASSUME ClientInv, SendPiece
  PROVE  ClientInv'
<1> USE DEF ClientInv
<1> DEFINE p == [kind |-> "piece", req |-> answering.req]
<1>1. /\ answering.pieces > 0 /\ answering' = [answering EXCEPT !.pieces = @ - 1]
      /\ items' = Append(items, p) /\ answering \in [req : Nat, pieces : Nat]
      /\ items \in Seq(Item) /\ answering.req = asked
      /\ UNCHANGED <<phase, _reusable, rest, asked, received, taken>>
  BY DEF SendPiece, clientVars, AllOfLast, ClientTypes
<1>2. p \in Item /\ p.kind = "piece" /\ p.req = asked
  BY <1>1 DEF Item
<1>3. /\ answering' \in [req : Nat, pieces : Nat] /\ answering'.req = asked
      /\ answering'.pieces = answering.pieces - 1
  BY <1>1
<1> HIDE DEF p
<1>4. /\ items' \in Seq(Item) /\ Len(items) \in Nat /\ Len(items') = Len(items) + 1
      /\ items'[Len(items) + 1] = p
      /\ \A i \in 1..Len(items) : items'[i] = items[i]
      /\ \A i \in 1..Len(items') : i \in 1..Len(items) \/ i = Len(items) + 1
  BY <1>1, <1>2, AppendProperties
<1>5. \A i \in 1..Len(items') : items'[i].req = asked
  BY <1>2, <1>4 DEF AllOfLast
<1>6. ClientTypes' /\ AllOfLast' /\ OwnResponse'
  BY <1>1, <1>3, <1>4, <1>5 DEF ClientTypes, AllOfLast, OwnResponse
<1>7. BodyAsAnnounced'
  <2>1. Len(items') + answering'.pieces = Len(items) + answering.pieces
    BY <1>1, <1>3, <1>4
  <2>2. (\A i \in 1..Len(items) : items[i].kind = "piece") =>
          \A i \in 1..Len(items') : items'[i].kind = "piece"
    BY <1>2, <1>4
  <2> QED BY <1>1, <1>3, <2>1, <2>2 DEF BodyAsAnnounced
<1>8. HeadFirst'
  <2> SUFFICES ASSUME phase = "head", _reusable
               PROVE  /\ received = asked /\ items' # <<>> /\ items'[1].kind = "head"
                      /\ items'[1].keep =>
                           /\ \A i \in 2..Len(items') : items'[i].kind = "piece"
                           /\ Outstanding(Len(items') - 1 + answering'.pieces,
                                          items'[1].announced)
    BY <1>1, <1>3 DEF HeadFirst
  <2>1. /\ received = asked /\ items # <<>> /\ items[1].kind = "head"
        /\ items[1].keep =>
              /\ \A i \in 2..Len(items) : items[i].kind = "piece"
              /\ Outstanding(Len(items) - 1 + answering.pieces, items[1].announced)
    BY <1>1 DEF HeadFirst, ClientTypes
  <2>2. items' # <<>> /\ items'[1] = items[1]
    BY <2>1, <1>1, <1>4
  <2>3. Len(items') - 1 + answering'.pieces = Len(items) - 1 + answering.pieces
    BY <1>1, <1>3, <1>4
  <2>4. (\A i \in 2..Len(items) : items[i].kind = "piece") =>
          \A i \in 2..Len(items') : items'[i].kind = "piece"
    BY <1>2, <1>4
  <2> QED BY <2>1, <2>2, <2>3, <2>4
<1> QED BY <1>6, <1>7, <1>8

-----------------------------------------------------------------------------
(* Theorems.                                                               *)

\* send() and read() keep a connection in step with its server, or do not use
\* it again: ClientInv is an invariant for any number of requests.
THEOREM ClientInvariant == ClientSpec => []ClientInv
<1>1. ClientInit => ClientInv
  <2> SUFFICES ASSUME ClientInit PROVE ClientInv
    OBVIOUS
  <2>1. /\ items = <<>> /\ taken = <<>> /\ Len(items) = 0 /\ Len(taken) = 0
        /\ items \in Seq(Item) /\ taken \in Seq([by : Nat, item : Item])
        /\ phase = "idle" /\ _reusable \in BOOLEAN /\ rest = 0 /\ asked = 0 /\ received = 0
        /\ answering = [req |-> 0, pieces |-> 0]
    BY DEF ClientInit
  <2> QED BY <2>1 DEF ClientInv, ClientTypes, AllOfLast, BodyAsAnnounced,
                      Outstanding, HeadFirst, OwnResponse
<1>2. ClientInv /\ [ClientNext]_httpVars => ClientInv'
  <2> SUFFICES ASSUME ClientInv, [ClientNext]_httpVars PROVE ClientInv'
    OBVIOUS
  <2>1. CASE Send \/ GetHead \/ LoseHead \/ Read \/ GetBody \/ LoseBody
    BY <2>1, SendKeepsClientInv, GetHeadKeepsClientInv, GetBodyKeepsClientInv,
       OthersKeepClientInv
  <2>2. CASE \/ \E announced \in -1..2, pieces \in 0..2, keep, interim \in BOOLEAN :
                  Answer(announced, pieces, keep, interim)
             \/ SendPiece
    BY <2>2, AnswerKeepsClientInv, SendPieceKeepsClientInv
  <2>3. CASE UNCHANGED httpVars
    BY <2>3 DEF httpVars, clientVars, serverVars, ClientInv, ClientTypes, AllOfLast,
                BodyAsAnnounced, HeadFirst, OwnResponse
  <2> QED BY <2>1, <2>2, <2>3 DEF ClientNext
<1> QED BY <1>1, <1>2, PTL DEF ClientSpec

\* However late the server answers, a response and each piece of its body are
\* those of the request for which send() and read() return them.
THEOREM ClientOwnResponse == ClientSpec => []OwnResponse
BY ClientInvariant, PTL DEF ClientInv

\* send() sends a request only when every answer to those before has been read.
THEOREM ClientNothingOutstanding == ClientSpec => []NothingOutstanding
<1>1. ClientInv => NothingOutstanding
  <2> SUFFICES ASSUME ClientInv, phase = "idle", _reusable, ~data_available
               PROVE  items = <<>> /\ answering.pieces = 0 /\ answering.req = asked
    BY DEF NothingOutstanding
  <2>1. Len(items) + answering.pieces = 0 /\ answering.req = asked
    BY DEF ClientInv, BodyAsAnnounced, Outstanding, data_available
  <2>2. items \in Seq(Item) /\ answering.pieces \in Nat /\ Len(items) \in Nat
    BY DEF ClientInv, ClientTypes
  <2> QED BY <2>1, <2>2
<1> QED BY <1>1, ClientInvariant, PTL
=============================================================================

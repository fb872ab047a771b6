---------------------------- MODULE FiberProofs ----------------------------
(***************************************************************************)
(* Proofs that the invariants of module Fiber hold for every set of fibers *)
(* and stacks and every pool target, and that the fiber class implements   *)
(* coroutines, as module FiberRefinement says.                             *)
(***************************************************************************)
EXTENDS FiberRefinement, FiniteSetTheorems, WellFoundedInduction, TLAPS

\* What StackOwnership leaves out and its proof needs: exactly the objects
\* that exist have a stack, and the terminated ones are over.
Existence ==
  /\ \A f \in Fibers : at[f] = "none" <=> stack[f] = Nil
  /\ \A f \in terminated : at[f] = "over"

\* The inductive invariant.
FiberInv ==
  /\ TypeOK
  /\ ControlIsCurrent
  /\ ResumeChain
  /\ StackOwnership
  /\ Existence

\* Adding a stack that is not pooled to the pool keeps it free of
\* duplicates, as the destructor of a fiber needs.
LEMMA PoolPush ==
  ASSUME NEW S, NEW p \in Seq(S), NEW s \in S,
         \A i \in 1..Len(p) : p[i] # s,
         \A i, j \in 1..Len(p) : p[i] = p[j] => i = j
  PROVE  /\ Append(p, s) \in Seq(S)
         /\ Len(Append(p, s)) = Len(p) + 1
         /\ \A i, j \in 1..Len(Append(p, s)) :
              Append(p, s)[i] = Append(p, s)[j] => i = j
         /\ {Append(p, s)[i] : i \in 1..Len(Append(p, s))}
              = {p[i] : i \in 1..Len(p)} \cup {s}
<1> DEFINE q == Append(p, s)
<1>1. q \in Seq(S) /\ Len(q) = Len(p) + 1 /\ Len(p) \in Nat
  OBVIOUS
<1>2. q[Len(p) + 1] = s /\ \A i \in 1..Len(p) : q[i] = p[i]
  OBVIOUS
<1>3. \A i \in 1..Len(q) : i \in 1..Len(p) \/ i = Len(p) + 1
  BY <1>1
<1> HIDE DEF q
<1>4. \A i, j \in 1..Len(q) : q[i] = q[j] => i = j
  BY <1>1, <1>2, <1>3
<1>5. {q[i] : i \in 1..Len(q)} = {p[i] : i \in 1..Len(p)} \cup {s}
  <2>1. ASSUME NEW x \in {q[i] : i \in 1..Len(q)}
        PROVE  x \in {p[i] : i \in 1..Len(p)} \cup {s}
    BY <1>2, <1>3
  <2>2. ASSUME NEW x \in {p[i] : i \in 1..Len(p)} \cup {s}
        PROVE  x \in {q[i] : i \in 1..Len(q)}
    BY <1>1, <1>2
  <2> QED BY <2>1, <2>2
<1> QED BY <1>1, <1>4, <1>5 DEF q

\* Taking the oldest stack leaves a pool without duplicates that no longer
\* holds it, as the constructor of a fiber needs.
LEMMA PoolPop ==
  ASSUME NEW S, NEW p \in Seq(S), p # <<>>,
         \A i, j \in 1..Len(p) : p[i] = p[j] => i = j
  PROVE  /\ Head(p) \in S
         /\ Tail(p) \in Seq(S)
         /\ Len(Tail(p)) = Len(p) - 1
         /\ \A i, j \in 1..Len(Tail(p)) : Tail(p)[i] = Tail(p)[j] => i = j
         /\ {Tail(p)[i] : i \in 1..Len(Tail(p))}
              = {p[i] : i \in 1..Len(p)} \ {Head(p)}
<1> DEFINE q == Tail(p)
<1>1. /\ q \in Seq(S) /\ Len(q) = Len(p) - 1
      /\ Len(p) \in Nat /\ Len(p) >= 1 /\ Head(p) = p[1]
  OBVIOUS
<1>2. \A i \in 1..Len(q) : q[i] = p[i + 1] /\ i + 1 \in 1..Len(p)
  OBVIOUS
<1>3. p[1] \in S
  BY <1>1
<1> HIDE DEF q
<1>4. \A i, j \in 1..Len(q) : q[i] = q[j] => i = j
  BY <1>1, <1>2
<1>5. {q[i] : i \in 1..Len(q)} = {p[i] : i \in 1..Len(p)} \ {Head(p)}
  <2>1. ASSUME NEW x \in {q[i] : i \in 1..Len(q)}
        PROVE  x \in {p[i] : i \in 1..Len(p)} \ {Head(p)}
    <3>1. PICK i \in 1..Len(q) : x = q[i]
      OBVIOUS
    <3>2. x = p[i + 1] /\ i + 1 \in 1..Len(p) /\ i + 1 # 1 /\ 1 \in 1..Len(p)
      BY <1>1, <1>2, <3>1
    <3> QED BY <1>1, <3>2
  <2>2. ASSUME NEW x \in {p[i] : i \in 1..Len(p)} \ {Head(p)}
        PROVE  x \in {q[i] : i \in 1..Len(q)}
    <3>1. PICK k \in 1..Len(p) : x = p[k]
      OBVIOUS
    <3>2. k - 1 \in 1..Len(q)
      BY <1>1, <3>1
    <3>3. q[k - 1] = p[k]
      BY <1>1, <1>2, <3>2
    <3> QED BY <3>1, <3>2, <3>3
  <2> QED BY <2>1, <2>2
<1> QED BY <1>1, <1>3, <1>4, <1>5 DEF q

-----------------------------------------------------------------------------
\* resume() hands control to a context that had none and links it to the one
\* it was called from, which keeps _current right and the chain of pending
\* resume() calls well formed.
LEMMA SwitchExtendsChain ==
  ASSUME TypeOK, ControlIsCurrent, ResumeChain,
         NEW f \in Fibers, at[f] \in {"none", "yield"}, Switch(f)
  PROVE  /\ ControlIsCurrent' /\ ResumeChain'
         /\ prev' \in [Fibers -> Contexts]
         /\ current' \in Contexts
         /\ running' \in Contexts
         /\ at' \in [Contexts -> Places]
         /\ \A c \in Contexts : at'[c] = IF c = f THEN "code"
                                         ELSE IF c = current THEN "resume"
                                         ELSE at[c]
<1> USE FiberAssumption DEF Contexts
<1>1. /\ current \in Contexts /\ current = running /\ current # f
      /\ at[current] = "code" /\ f # Nil
  BY DEF TypeOK, ControlIsCurrent
<1>2. /\ prev' \in [Fibers -> Contexts]
      /\ \A g \in Fibers : prev'[g] = IF g = f THEN current ELSE prev[g]
      /\ current' = f /\ running' = f
  BY <1>1 DEF TypeOK, Switch
<1>3. /\ at' \in [Contexts -> Places]
      /\ \A c \in Contexts : at'[c] = IF c = f THEN "code"
                                      ELSE IF c = current THEN "resume"
                                      ELSE at[c]
  BY <1>1 DEF TypeOK, Switch, Places
<1>4. ControlIsCurrent'
  BY <1>1, <1>2, <1>3 DEF ControlIsCurrent
<1>5. ResumeChain'
  <2>1. ASSUME NEW g \in Fibers, at'[g] \in {"code", "resume"}
        PROVE  at'[prev'[g]] = "resume"
    <3>1. CASE g = f
      BY <3>1, <1>1, <1>2, <1>3
    <3>2. CASE g # f
      <4>1. at[g] \in {"code", "resume"} /\ prev'[g] = prev[g]
        BY <3>2, <2>1, <1>1, <1>2, <1>3
      <4>2. at[prev[g]] = "resume" /\ prev[g] \in Contexts
        BY <4>1 DEF ResumeChain, TypeOK
      <4> QED BY <4>1, <4>2, <1>1, <1>3
    <3> QED BY <3>1, <3>2
  <2>2. ASSUME NEW g \in Fibers, NEW h \in Fibers,
               at'[g] \in {"code", "resume"}, at'[h] \in {"code", "resume"},
               prev'[g] = prev'[h]
        PROVE  g = h
    <3>1. \A k \in Fibers : at'[k] \in {"code", "resume"} /\ k # f =>
            /\ at[k] \in {"code", "resume"} /\ prev'[k] = prev[k]
            /\ prev[k] # current
      BY <1>1, <1>2, <1>3 DEF ResumeChain
    <3> QED BY <2>2, <3>1, <1>2 DEF ResumeChain
  <2>3. ASSUME NEW c \in Contexts, at'[c] = "resume"
        PROVE  \E g \in Fibers : prev'[g] = c /\ at'[g] \in {"code", "resume"}
    <3>1. CASE c = current
      BY <3>1, <1>1, <1>2, <1>3
    <3>2. CASE c # current
      <4>1. at[c] = "resume"
        BY <2>3, <3>2, <1>1, <1>3
      <4>2. PICK g \in Fibers : prev[g] = c /\ at[g] \in {"code", "resume"}
        BY <4>1 DEF ResumeChain
      <4>3. g # f
        BY <4>2
      <4> QED BY <4>2, <4>3, <1>2, <1>3
    <3> QED BY <3>1, <3>2
  <2> QED BY <2>1, <2>2, <2>3 DEF ResumeChain
<1> QED BY <1>2, <1>3, <1>4, <1>5

\* A fiber that yields or ends leaves the chain and gives control to the
\* context that resumed it.
LEMMA ReturnShrinksChain ==
  ASSUME TypeOK, ControlIsCurrent, ResumeChain,
         NEW f \in Fibers, f = current,
         NEW place \in {"yield", "over", "none"},
         prev' = [prev EXCEPT ![f] = Nil],
         current' = prev[f],
         running' = prev[f],
         at' = [at EXCEPT ![f] = place, ![prev[f]] = "code"]
  PROVE  /\ ControlIsCurrent' /\ ResumeChain'
         /\ prev' \in [Fibers -> Contexts]
         /\ current' \in Contexts
         /\ running' \in Contexts
         /\ at' \in [Contexts -> Places]
         /\ prev[f] \in Contexts /\ at[prev[f]] = "resume"
         /\ \A c \in Contexts : at'[c] = IF c = prev[f] THEN "code"
                                         ELSE IF c = f THEN place
                                         ELSE at[c]
<1> USE FiberAssumption DEF Contexts
<1>1. /\ prev[f] \in Contexts /\ at[f] = "code" /\ at[prev[f]] = "resume"
      /\ f # Nil /\ prev[f] # f
  BY DEF TypeOK, ControlIsCurrent, ResumeChain
<1>2. /\ prev' \in [Fibers -> Contexts]
      /\ \A g \in Fibers : prev'[g] = IF g = f THEN Nil ELSE prev[g]
  BY DEF TypeOK
<1>3. /\ at' \in [Contexts -> Places]
      /\ \A c \in Contexts : at'[c] = IF c = prev[f] THEN "code"
                                      ELSE IF c = f THEN place ELSE at[c]
  BY <1>1 DEF TypeOK, Places
<1>4. ControlIsCurrent'
  BY <1>1, <1>3 DEF ControlIsCurrent
<1>5. \A g \in Fibers : at'[g] \in {"code", "resume"} <=>
                          g # f /\ at[g] \in {"code", "resume"}
  BY <1>1, <1>3
<1>6. ResumeChain'
  <2>1. ASSUME NEW g \in Fibers, at'[g] \in {"code", "resume"}
        PROVE  at'[prev'[g]] = "resume"
    <3>1. g # f /\ at[g] \in {"code", "resume"} /\ prev'[g] = prev[g]
      BY <2>1, <1>2, <1>5
    <3>2. at[prev[g]] = "resume" /\ prev[g] \in Contexts /\ prev[g] # prev[f]
      BY <3>1, <1>1 DEF ResumeChain, TypeOK
    <3> QED BY <3>1, <3>2, <1>1, <1>3
  <2>2. ASSUME NEW g \in Fibers, NEW h \in Fibers,
               at'[g] \in {"code", "resume"}, at'[h] \in {"code", "resume"},
               prev'[g] = prev'[h]
        PROVE  g = h
    <3>1. /\ at[g] \in {"code", "resume"} /\ prev'[g] = prev[g]
          /\ at[h] \in {"code", "resume"} /\ prev'[h] = prev[h]
      BY <2>2, <1>2, <1>5
    <3>2. prev[g] = prev[h]
      BY <3>1, <2>2
    <3> QED BY <3>1, <3>2 DEF ResumeChain
  <2>3. ASSUME NEW c \in Contexts, at'[c] = "resume"
        PROVE  \E g \in Fibers : prev'[g] = c /\ at'[g] \in {"code", "resume"}
    <3>1. at[c] = "resume" /\ c # prev[f]
      BY <2>3, <1>1, <1>3
    <3>2. PICK g \in Fibers : prev[g] = c /\ at[g] \in {"code", "resume"}
      BY <3>1 DEF ResumeChain
    <3> QED BY <3>1, <3>2, <1>2, <1>5
  <2> QED BY ZenonT(30), <2>1, <2>2, <2>3 DEF ResumeChain
<1> QED BY <1>1, <1>2, <1>3, <1>4, <1>6

\* ~fiber gives the stack back without sharing it.
LEMMA DestroyKeepsOwnership ==
  ASSUME TypeOK, StackOwnership, NEW f \in Fibers, stack[f] # Nil, Destroy(f)
  PROVE  /\ stack' \in [Fibers -> Stacks \cup {Nil}]
         /\ \A g \in Fibers : stack'[g] = IF g = f THEN Nil ELSE stack[g]
         /\ pool' \in Seq(Stacks)
         /\ Len(pool') <= PoolTarget
         /\ \A i, j \in 1..Len(pool') : pool'[i] = pool'[j] => i = j
         /\ \A g \in Fibers : stack'[g] \notin Pooled'
<1> USE FiberAssumption
<1>1. /\ stack' \in [Fibers -> Stacks \cup {Nil}]
      /\ \A g \in Fibers : stack'[g] = IF g = f THEN Nil ELSE stack[g]
  BY DEF TypeOK, Destroy
<1>2. Pooled \subseteq Stacks /\ stack[f] \in Stacks /\ Len(pool) \in Nat
  BY DEF TypeOK, Pooled
<1>3. \A i \in 1..Len(pool) : pool[i] # stack[f]
  BY DEF StackOwnership, Pooled
<1>4. CASE ~PoolHasRoom
  <2>1. pool' = pool
    BY <1>4 DEF Destroy
  <2> QED BY <2>1, <1>1, <1>2 DEF TypeOK, StackOwnership, Pooled
<1>5. CASE PoolHasRoom
  <2>1. pool' = Append(pool, stack[f])
    BY <1>5 DEF Destroy
  <2>2. /\ pool' \in Seq(Stacks) /\ Len(pool') = Len(pool) + 1
        /\ \A i, j \in 1..Len(pool') : pool'[i] = pool'[j] => i = j
        /\ Pooled' = Pooled \cup {stack[f]}
    BY <2>1, <1>2, <1>3, PoolPush DEF TypeOK, StackOwnership, Pooled
  <2>3. Len(pool') <= PoolTarget
    BY <2>2, <1>2, <1>5 DEF PoolHasRoom
  <2>4. \A g \in Fibers : stack'[g] \notin Pooled'
    BY <2>2, <1>1, <1>2 DEF StackOwnership
  <2> QED BY <1>1, <2>2, <2>3, <2>4
<1> QED BY <1>4, <1>5

\* A new fiber's stack is nobody else's.
LEMMA AllocateKeepsOwnership ==
  ASSUME TypeOK, StackOwnership, NEW f \in Fibers, stack[f] = Nil, Allocate(f)
  PROVE  /\ stack' \in [Fibers -> Stacks \cup {Nil}]
         /\ stack'[f] # Nil
         /\ \A g \in Fibers : g # f =>
              stack'[g] = stack[g] /\ stack'[g] # stack'[f]
         /\ pool' \in Seq(Stacks)
         /\ Len(pool') <= PoolTarget
         /\ \A i, j \in 1..Len(pool') : pool'[i] = pool'[j] => i = j
         /\ \A g \in Fibers : stack'[g] \notin Pooled'
<1> USE FiberAssumption
<1>1. Pooled \subseteq Stacks /\ Len(pool) \in Nat
  BY DEF TypeOK, Pooled
<1>2. CASE pool = <<>>
  <2>1. PICK s \in Stacks \ InUse : stack' = [stack EXCEPT ![f] = s]
    BY <1>2 DEF Allocate
  <2>2. pool' = pool
    BY <1>2 DEF Allocate
  <2>3. Pooled' = {}
    BY <1>2, <2>2 DEF Pooled
  <2>4. \A g \in Fibers : stack[g] # s
    BY FiberAssumption DEF InUse
  <2> QED BY <2>1, <2>2, <2>3, <2>4 DEF TypeOK, StackOwnership
<1>3. CASE pool # <<>>
  <2>1. stack' = [stack EXCEPT ![f] = Head(pool)] /\ pool' = Tail(pool)
    BY <1>3 DEF Allocate
  <2>2. /\ Head(pool) \in Stacks /\ pool' \in Seq(Stacks)
        /\ Len(pool') = Len(pool) - 1
        /\ \A i, j \in 1..Len(pool') : pool'[i] = pool'[j] => i = j
        /\ Pooled' = Pooled \ {Head(pool)}
    <3>1. pool \in Seq(Stacks) /\ \A i, j \in 1..Len(pool) :
                                   pool[i] = pool[j] => i = j
      BY DEF TypeOK, StackOwnership
    <3>2. /\ Head(pool) \in Stacks /\ Tail(pool) \in Seq(Stacks)
          /\ Len(Tail(pool)) = Len(pool) - 1
          /\ \A i, j \in 1..Len(Tail(pool)) :
               Tail(pool)[i] = Tail(pool)[j] => i = j
          /\ {Tail(pool)[i] : i \in 1..Len(Tail(pool))}
               = {pool[i] : i \in 1..Len(pool)} \ {Head(pool)}
      BY <3>1, <1>3, PoolPop
    <3> QED BY <2>1, <3>2 DEF Pooled
  <2>3. Head(pool) \in Pooled
    <3>1. Head(pool) = pool[1] /\ 1 \in 1..Len(pool)
      BY <1>3 DEF TypeOK
    <3> QED BY <3>1 DEF Pooled
  <2>4. \A g \in Fibers : stack'[g] = IF g = f THEN Head(pool) ELSE stack[g]
    BY <2>1 DEF TypeOK
  <2>5. \A g \in Fibers : stack[g] # Head(pool)
    BY <2>3 DEF StackOwnership
  <2>6. /\ stack' \in [Fibers -> Stacks \cup {Nil}]
        /\ Len(pool') <= PoolTarget
    BY <2>1, <2>2, <1>1 DEF TypeOK
  <2> QED BY <2>2, <2>4, <2>5, <2>6 DEF StackOwnership
<1> QED BY <1>2, <1>3

-----------------------------------------------------------------------------
\* fiber::launch.
LEMMA LaunchKeepsInv ==
  ASSUME FiberInv, NEW f \in Fibers, Launch(f)
  PROVE  FiberInv'
<1> USE FiberAssumption DEF FiberInv
<1>1. stack[f] = Nil /\ at[f] = "none" /\ Switch(f) /\ Allocate(f)
  BY DEF Launch, Existence
<1>2. /\ ControlIsCurrent' /\ ResumeChain'
      /\ prev' \in [Fibers -> Contexts]
      /\ current' \in Contexts /\ running' \in Contexts
      /\ at' \in [Contexts -> Places]
      /\ \A c \in Contexts : at'[c] = IF c = f THEN "code"
                                      ELSE IF c = current THEN "resume"
                                      ELSE at[c]
  BY <1>1, SwitchExtendsChain
<1>3. /\ stack' \in [Fibers -> Stacks \cup {Nil}] /\ stack'[f] # Nil
      /\ \A g \in Fibers : g # f =>
           stack'[g] = stack[g] /\ stack'[g] # stack'[f]
      /\ pool' \in Seq(Stacks) /\ Len(pool') <= PoolTarget
      /\ \A i, j \in 1..Len(pool') : pool'[i] = pool'[j] => i = j
      /\ \A g \in Fibers : stack'[g] \notin Pooled'
  BY <1>1, AllocateKeepsOwnership
<1>4. /\ self' = self \cup {f} /\ held' = held \cup {f}
      /\ terminated' = terminated
  BY DEF Launch
<1>5. TypeOK'
  BY <1>2, <1>3, <1>4 DEF TypeOK
<1>6. \A g \in Fibers : at'[g] \in {"code", "resume", "yield"} =>
        g = f \/ at[g] \in {"code", "resume", "yield"}
  BY <1>2 DEF ControlIsCurrent, Contexts
<1>7. f \notin terminated
  BY <1>1 DEF Existence
<1>8. StackOwnership'
  BY <1>3, <1>4, <1>6, <1>7 DEF StackOwnership
<1>9. Existence'
  BY <1>1, <1>2, <1>3, <1>4, <1>7
     DEF Existence, ControlIsCurrent, Contexts, TypeOK
<1> QED BY <1>2, <1>5, <1>8, <1>9

\* fiber::resume and fiber::raise.
LEMMA ResumeKeepsInv ==
  ASSUME FiberInv, NEW f \in Fibers, Resume(f)
  PROVE  FiberInv'
<1> USE FiberAssumption DEF FiberInv
<1>1. /\ at[f] = "yield" /\ Switch(f)
      /\ UNCHANGED <<self, terminated, held, stack, pool>>
  BY DEF Resume
<1>2. /\ ControlIsCurrent' /\ ResumeChain'
      /\ prev' \in [Fibers -> Contexts]
      /\ current' \in Contexts /\ running' \in Contexts
      /\ at' \in [Contexts -> Places]
      /\ \A c \in Contexts : at'[c] = IF c = f THEN "code"
                                      ELSE IF c = current THEN "resume"
                                      ELSE at[c]
  BY <1>1, SwitchExtendsChain
<1>3. TypeOK'
  BY <1>1, <1>2 DEF TypeOK
<1>4. \A g \in Fibers : at'[g] \in {"code", "resume", "yield"} =>
        at[g] \in {"code", "resume", "yield"}
  BY <1>1, <1>2 DEF ControlIsCurrent, Contexts
<1>5. StackOwnership'
  BY <1>1, <1>4 DEF StackOwnership, Pooled
<1>6. Existence'
  BY <1>1, <1>2 DEF Existence, ControlIsCurrent, Contexts, TypeOK
<1> QED BY <1>2, <1>3, <1>5, <1>6

\* fiber::yield.
LEMMA YieldKeepsInv ==
  ASSUME FiberInv, Yield
  PROVE  FiberInv'
<1> USE FiberAssumption DEF FiberInv
<1> DEFINE f == current
<1>1. /\ f \in Fibers /\ prev' = [prev EXCEPT ![f] = Nil]
      /\ current' = prev[f] /\ running' = prev[f]
      /\ at' = [at EXCEPT ![f] = "yield", ![prev[f]] = "code"]
      /\ held' = held \cup {f}
      /\ UNCHANGED <<self, terminated, stack, pool>>
  BY DEF Yield, TypeOK, Contexts
<1>2. at[f] = "code"
  BY DEF ControlIsCurrent, TypeOK
<1> HIDE DEF f
<1>3. /\ ControlIsCurrent' /\ ResumeChain'
      /\ prev' \in [Fibers -> Contexts]
      /\ current' \in Contexts /\ running' \in Contexts
      /\ at' \in [Contexts -> Places]
      /\ prev[f] \in Contexts /\ at[prev[f]] = "resume"
      /\ \A c \in Contexts : at'[c] = IF c = prev[f] THEN "code"
                                      ELSE IF c = f THEN "yield" ELSE at[c]
  <2>1. f = current
    BY DEF f
  <2> QED BY <1>1, <2>1, ReturnShrinksChain
<1>4. TypeOK'
  BY <1>1, <1>3 DEF TypeOK
<1>5. \A g \in Fibers : at'[g] \in {"code", "resume", "yield"} =>
        at[g] \in {"code", "resume", "yield"}
  BY <1>2, <1>3 DEF Contexts
<1>6. StackOwnership'
  <2>1. UNCHANGED <<self, terminated, stack, pool>>
    BY <1>1
  <2> QED BY <1>5, <2>1 DEF StackOwnership, Pooled
<1>7. Existence'
  BY <1>1, <1>2, <1>3 DEF Existence, Contexts, TypeOK
<1> QED BY <1>3, <1>4, <1>6, <1>7

\* The end of a fiber, and of the resume() that it returns to.
LEMMA FinishKeepsInv ==
  ASSUME FiberInv, Finish
  PROVE  FiberInv'
<1> USE FiberAssumption DEF FiberInv
<1> DEFINE f == current
           place == IF f \in held THEN "over" ELSE "none"
<1>1. /\ f \in Fibers /\ prev' = [prev EXCEPT ![f] = Nil]
      /\ current' = prev[f] /\ running' = prev[f]
      /\ at' = [at EXCEPT ![f] = place, ![prev[f]] = "code"]
      /\ self' = self \ {f} /\ held' = held
      /\ IF f \in held
         THEN terminated' = terminated \cup {f} /\ UNCHANGED <<stack, pool>>
         ELSE Destroy(f)
  BY DEF Finish, TypeOK, Contexts, ControlIsCurrent
<1>2. at[f] = "code" /\ f = current
  BY DEF ControlIsCurrent, TypeOK
<1>3. place \in {"yield", "over", "none"}
  OBVIOUS
<1>4. stack[f] # Nil /\ stack[f] \in Stacks
  BY <1>1, <1>2 DEF StackOwnership, TypeOK
<1>5. place = (IF f \in held THEN "over" ELSE "none")
  OBVIOUS
<1> HIDE DEF f, place
<1>6. /\ ControlIsCurrent' /\ ResumeChain'
      /\ prev' \in [Fibers -> Contexts]
      /\ current' \in Contexts /\ running' \in Contexts
      /\ at' \in [Contexts -> Places]
      /\ prev[f] \in Contexts /\ at[prev[f]] = "resume"
      /\ \A c \in Contexts : at'[c] = IF c = prev[f] THEN "code"
                                      ELSE IF c = f THEN place ELSE at[c]
  <2>1. /\ f \in Fibers /\ f = current
        /\ prev' = [prev EXCEPT ![f] = Nil]
        /\ current' = prev[f] /\ running' = prev[f]
        /\ at' = [at EXCEPT ![f] = place, ![prev[f]] = "code"]
    BY <1>1, <1>2
  <2>2. CASE place = "over"
    <3>1. at' = [at EXCEPT ![f] = "over", ![prev[f]] = "code"]
      BY <2>1, <2>2
    <3>2. "over" \in {"yield", "over", "none"}
      OBVIOUS
    <3> QED BY ZenonT(30), <2>1, <2>2, <3>1, <3>2, ReturnShrinksChain
  <2>3. CASE place = "none"
    <3>1. at' = [at EXCEPT ![f] = "none", ![prev[f]] = "code"]
      BY <2>1, <2>3
    <3>2. "none" \in {"yield", "over", "none"}
      OBVIOUS
    <3> QED BY ZenonT(30), <2>1, <2>3, <3>1, <3>2, ReturnShrinksChain
  <2> QED BY <1>5, <2>2, <2>3
<1>7. \A g \in Fibers : at'[g] \in {"code", "resume", "yield"} =>
        g # f /\ at[g] \in {"code", "resume", "yield"}
  BY <1>1, <1>2, <1>5, <1>6 DEF Contexts
<1>8. CASE f \in held
  <2>1. /\ terminated' = terminated \cup {f} /\ UNCHANGED <<stack, pool>>
        /\ place = "over"
    BY <1>1, <1>5, <1>8
  <2>2. TypeOK'
    BY <1>1, <1>6, <2>1 DEF TypeOK
  <2>3. StackOwnership'
    <3>1. self' = self \ {f} /\ UNCHANGED <<stack, pool>>
      BY <1>1, <2>1
    <3>2. terminated' = terminated \cup {f}
      BY <2>1
    <3> QED BY <1>7, <3>1, <3>2 DEF StackOwnership, Pooled
  <2>4. Existence'
    BY <1>1, <1>2, <1>4, <1>6, <2>1 DEF Existence, Contexts, TypeOK
  <2> QED BY <1>6, <2>2, <2>3, <2>4
<1>9. CASE f \notin held
  <2>1. Destroy(f) /\ place = "none"
    BY <1>1, <1>5, <1>9
  <2>2. /\ stack' \in [Fibers -> Stacks \cup {Nil}]
        /\ \A g \in Fibers : stack'[g] = IF g = f THEN Nil ELSE stack[g]
        /\ pool' \in Seq(Stacks) /\ Len(pool') <= PoolTarget
        /\ \A i, j \in 1..Len(pool') : pool'[i] = pool'[j] => i = j
        /\ \A g \in Fibers : stack'[g] \notin Pooled'
    BY <1>1, <1>4, <2>1, DestroyKeepsOwnership
  <2>3. terminated' = terminated \ {f}
    BY <2>1 DEF Destroy
  <2>4. TypeOK'
    BY <1>1, <1>6, <2>2, <2>3 DEF TypeOK
  <2>5. StackOwnership'
    <3>1. self' = self \ {f}
      BY <1>1
    <3>2. \A g, h \in Fibers :
            stack'[g] = stack'[h] /\ stack'[g] # Nil => g = h
      BY <2>2 DEF StackOwnership
    <3>3. \A g \in Fibers : at'[g] \in {"code", "resume", "yield"} =>
            stack'[g] # Nil /\ g \in self' \ terminated'
      BY <1>7, <2>2, <2>3, <3>1 DEF StackOwnership
    <3> QED BY <2>2, <3>2, <3>3 DEF StackOwnership
  <2>6. Existence'
    <3>1. \A g \in Fibers : at'[g] = "none" <=> g = f \/ at[g] = "none"
      BY <1>1, <1>2, <1>6, <2>1 DEF Contexts
    <3>2. \A g \in Fibers : at'[g] = "over" <=> g # f /\ at[g] = "over"
      BY <1>1, <1>2, <1>6, <2>1 DEF Contexts
    <3> QED BY <3>1, <3>2, <2>2, <2>3 DEF Existence, TypeOK
  <2> QED BY <1>6, <2>4, <2>5, <2>6
<1> QED BY <1>8, <1>9

\* The last outside pointer to a fiber goes.
LEMMA ReleaseKeepsInv ==
  ASSUME FiberInv, NEW f \in Fibers, Release(f)
  PROVE  FiberInv'
<1> USE FiberAssumption DEF FiberInv
<1>1. /\ held' = held \ {f} /\ UNCHANGED <<current, prev, self, running>>
  BY DEF Release
<1>2. CASE f \in self \/ current = f
  <2>1. UNCHANGED <<stack, pool, terminated, at>>
    BY <1>2 DEF Release
  <2> QED BY <1>1, <2>1 DEF TypeOK, ControlIsCurrent, ResumeChain,
             StackOwnership, Existence, Pooled
<1>3. CASE ~(f \in self \/ current = f)
  <2>1. /\ at[f] = "over" /\ Destroy(f) /\ at' = [at EXCEPT ![f] = "none"]
        /\ terminated' = terminated \ {f}
    BY <1>3 DEF Release, ControlIsCurrent, Destroy
  <2>2. /\ at' \in [Contexts -> Places]
        /\ \A c \in Contexts : at'[c] = IF c = f THEN "none" ELSE at[c]
    BY <2>1 DEF TypeOK, Contexts, Places
  <2>3. stack[f] # Nil
    BY <2>1 DEF Existence
  <2>4. /\ stack' \in [Fibers -> Stacks \cup {Nil}]
        /\ \A g \in Fibers : stack'[g] = IF g = f THEN Nil ELSE stack[g]
        /\ pool' \in Seq(Stacks) /\ Len(pool') <= PoolTarget
        /\ \A i, j \in 1..Len(pool') : pool'[i] = pool'[j] => i = j
        /\ \A g \in Fibers : stack'[g] \notin Pooled'
    BY <2>1, <2>3, DestroyKeepsOwnership
  <2>5. TypeOK'
    BY <1>1, <2>1, <2>2, <2>4 DEF TypeOK
  <2>6. ControlIsCurrent'
    BY <1>1, <1>3, <2>1, <2>2 DEF ControlIsCurrent
  <2>7. ResumeChain'
    <3>1. \A c \in Contexts :
            /\ at'[c] = "resume" <=> at[c] = "resume"
            /\ at'[c] \in {"code", "resume"} <=> at[c] \in {"code", "resume"}
      BY <2>1, <2>2
    <3>2. \A g \in Fibers : g \in Contexts /\ prev[g] \in Contexts
      BY DEF TypeOK, Contexts
    <3> QED BY <1>1, <3>1, <3>2 DEF ResumeChain
  <2>8. StackOwnership'
    BY <1>1, <2>1, <2>2, <2>4 DEF StackOwnership, Contexts
  <2>9. Existence'
    BY <2>1, <2>2, <2>4 DEF Existence, Contexts, TypeOK
  <2> QED BY <2>5, <2>6, <2>7, <2>8, <2>9
<1> QED BY <1>2, <1>3

\* The inductive invariant holds in every reachable state.
THEOREM FiberInvariant == Spec => []FiberInv
<1> USE FiberAssumption
<1>1. Init => FiberInv
  BY DEF Init, FiberInv, TypeOK, ControlIsCurrent, ResumeChain,
         StackOwnership, Existence, Contexts, Places, Pooled
<1>2. FiberInv /\ [Next]_vars => FiberInv'
  <2> SUFFICES ASSUME FiberInv, [Next]_vars PROVE FiberInv'
    OBVIOUS
  <2>1. CASE \E f \in Fibers : Launch(f) \/ Resume(f) \/ Release(f)
    BY <2>1, LaunchKeepsInv, ResumeKeepsInv, ReleaseKeepsInv
  <2>2. CASE Yield
    BY <2>2, YieldKeepsInv
  <2>3. CASE Finish
    BY <2>3, FinishKeepsInv
  <2>4. CASE UNCHANGED vars
    BY <2>4 DEF vars, FiberInv, TypeOK, ControlIsCurrent, ResumeChain,
                StackOwnership, Existence, Pooled
  <2> QED BY <2>1, <2>2, <2>3, <2>4 DEF Next
<1> QED BY <1>1, <1>2, PTL DEF Spec

\* Every variable keeps its type and the stack pool its bound.
THEOREM FiberTypeCorrect == Spec => []TypeOK
BY FiberInvariant, PTL DEF FiberInv

\* _current is always the context that runs.
THEOREM FiberControl == Spec => []ControlIsCurrent
BY FiberInvariant, PTL DEF FiberInv

\* The pending resume() calls and the entered fibers match one to one.
THEOREM FiberResumeChain == Spec => []ResumeChain
BY FiberInvariant, PTL DEF FiberInv

\* No stack is shared, and no fiber with live frames is destroyed.
THEOREM FiberStackOwnership == Spec => []StackOwnership
BY FiberInvariant, PTL DEF FiberInv

-----------------------------------------------------------------------------
(* The list from _current along _prev is the stack of a coroutine.         *)

\* The natural numbers are the least set with 0 and the successors of its
\* members.
LEMMA SetInduction ==
  ASSUME NEW S \in SUBSET Nat, 0 \in S, \A n \in S : n + 1 \in S
  PROVE  S = Nat
<1> DEFINE B == Nat \ S
<1> SUFFICES ASSUME B # {} PROVE FALSE
  OBVIOUS
<1>1. PICK n \in B : \A m \in B : n <= m
  <2> HIDE DEF B
  <2>1. B \subseteq Nat
    BY DEF B
  <2>2. PICK n \in B : \A m \in B : ~(<<m, n>> \in OpToRel(<, Nat))
    BY <2>1, NatLessThanWellFounded, WFMin
  <2>3. \A m \in B : ~(m < n)
    BY <2>1, <2>2 DEF OpToRel
  <2> QED BY <2>1, <2>3
<1>2. n # 0 /\ n - 1 \in Nat /\ n - 1 \in S
  BY <1>1
<1> QED BY <1>1, <1>2

Members(s) == {s[i] : i \in 1..Len(s)}

\* s lists the fibers of E, each once, from c along p.
Stacked(s, c, p, E) ==
  /\ s \in Seq(Fibers) /\ Linked(s, c, p)
  /\ \A i, j \in 1..Len(s) : s[i] = s[j] => i = j
  /\ Members(s) = E

\* Of two lists from the same context along the same pointers none goes on
\* where the other has ended.
LEMMA LinkedAgree ==
  ASSUME NEW s \in Seq(Fibers), NEW t \in Seq(Fibers), NEW c, NEW p,
         Linked(s, c, p), Linked(t, c, p)
  PROVE  Len(s) <= Len(t) /\ \A i \in 1..Len(s) : s[i] = t[i]
<1> DEFINE S == {n \in Nat : n + 1 <= Len(s) => n + 1 <= Len(t) /\ s[n + 1] = t[n + 1]}
<1>1. /\ Len(s) \in Nat /\ Len(t) \in Nat
      /\ \A i \in 1..Len(s) : s[i] \in Fibers /\ s[i] # Nil
      /\ \A i \in 1..Len(t) : t[i] \in Fibers /\ t[i] # Nil
  BY FiberAssumption
<1>2. /\ IF Len(s) = 0 THEN c = Nil ELSE c = s[1]
      /\ IF Len(t) = 0 THEN c = Nil ELSE c = t[1]
  BY <1>1 DEF Linked
<1>3. /\ \A i \in 1..Len(s) : p[s[i]] = IF i + 1 <= Len(s) THEN s[i + 1] ELSE Nil
      /\ \A i \in 1..Len(t) : p[t[i]] = IF i + 1 <= Len(t) THEN t[i + 1] ELSE Nil
  BY DEF Linked
<1>4. 0 \in S
  BY <1>1, <1>2
<1>5. ASSUME NEW n \in S PROVE n + 1 \in S
  <2> SUFFICES ASSUME n + 2 <= Len(s) PROVE n + 2 <= Len(t) /\ s[n + 2] = t[n + 2]
    OBVIOUS
  <2>1. n + 1 \in 1..Len(s) /\ n + 2 \in 1..Len(s)
    BY <1>1
  <2>2. n + 1 \in 1..Len(t) /\ s[n + 1] = t[n + 1]
    BY <1>1, <2>1
  <2>3. p[s[n + 1]] = s[n + 2] /\ s[n + 2] # Nil
    BY <1>1, <1>3, <2>1
  <2> QED BY <1>1, <1>3, <2>2, <2>3
<1> HIDE DEF S
<1>6. S = Nat
  <2>1. S \in SUBSET Nat
    BY DEF S
  <2> QED BY <1>4, <1>5, <2>1, SetInduction
<1>7. \A i \in 1..Len(s) : i <= Len(t) /\ s[i] = t[i]
  <2> SUFFICES ASSUME NEW i \in 1..Len(s) PROVE i <= Len(t) /\ s[i] = t[i]
    OBVIOUS
  <2>1. i - 1 \in S /\ (i - 1) + 1 = i
    BY <1>1, <1>6
  <2> QED BY <1>1, <2>1 DEF S
<1> QED BY <1>1, <1>7

\* There is one list, and it is no longer than there are fibers.
LEMMA ListIs ==
  ASSUME NEW s, NEW c, NEW p, NEW E, Stacked(s, c, p, E)
  PROVE  List(c, p) = s
<1>1. s \in Seq(Fibers) /\ Linked(s, c, p) /\ Len(s) \in Nat
  BY DEF Stacked
<1>2. Len(s) <= Cardinality(Fibers) /\ Cardinality(Fibers) \in Nat
  <2>1. s \in Injection(1..Len(s), Fibers)
    BY <1>1 DEF Stacked, Injection, IsInjective
  <2>2. Cardinality(1..Len(s)) = Len(s)
    <3> DEFINE n == Len(s)
    <3>1. n \in Nat /\ 1 \in Int /\ n \in Int
      BY <1>1
    <3> HIDE DEF n
    <3>2. Cardinality(1..n) = IF 1 > n THEN 0 ELSE n - 1 + 1
      BY <3>1, FS_Interval
    <3>3. Cardinality(1..n) = n
      BY <3>1, <3>2
    <3> QED BY <3>3 DEF n
  <2> QED BY <2>1, <2>2, FiberAssumption, FS_Injection, FS_CardinalityType
<1>3. s \in Lists
  BY <1>1, <1>2 DEF Lists
<1> DEFINE t == List(c, p)
<1>4. t \in Lists /\ Linked(t, c, p)
  BY <1>1, <1>3 DEF List
<1>5. t \in Seq(Fibers)
  BY <1>4 DEF Lists
<1> HIDE DEF t
<1>6. Len(s) = Len(t) /\ \A i \in 1..Len(s) : s[i] = t[i]
  BY <1>1, <1>4, <1>5, LinkedAgree
<1>7. s = t
  BY <1>1, <1>5, <1>6
<1> QED BY <1>7 DEF t

\* What the list does when f is entered from c.
LEMMA StackedPush ==
  ASSUME NEW s, NEW c, NEW p, NEW E, Stacked(s, c, p, E),
         NEW f \in Fibers \ E,
         NEW q, q[f] = c, \A g \in Fibers : g # f => q[g] = p[g]
  PROVE  Stacked(<<f>> \o s, f, q, E \cup {f})
<1> DEFINE r == <<f>> \o s
<1>1. /\ s \in Seq(Fibers) /\ Len(s) \in Nat
      /\ \A i \in 1..Len(s) : s[i] \in Fibers /\ s[i] \in E /\ s[i] # f
      /\ \A i, j \in 1..Len(s) : s[i] = s[j] => i = j
      /\ Members(s) = E
  BY DEF Stacked, Members
<1>2. /\ r \in Seq(Fibers) /\ Len(r) = Len(s) + 1 /\ r[1] = f
      /\ \A i \in 1..Len(r) : i # 1 => i - 1 \in 1..Len(s) /\ r[i] = s[i - 1]
      /\ \A i \in 1..Len(s) : i + 1 \in 1..Len(r) /\ r[i + 1] = s[i]
  BY <1>1
<1> HIDE DEF r
<1>3. /\ IF Len(s) = 0 THEN c = Nil ELSE c = s[1]
      /\ \A i \in 1..Len(s) : p[s[i]] = IF i + 1 <= Len(s) THEN s[i + 1] ELSE Nil
  BY <1>1 DEF Stacked, Linked
<1>4. Linked(r, f, q)
  <2>1. ASSUME NEW i \in 1..Len(r)
        PROVE  q[r[i]] = IF i + 1 <= Len(r) THEN r[i + 1] ELSE Nil
    <3>1. CASE i = 1
      BY <3>1, <1>1, <1>2, <1>3
    <3>2. CASE i # 1
      <4>1. i - 1 \in 1..Len(s) /\ r[i] = s[i - 1]
        BY <3>2, <1>2
      <4>2. q[r[i]] = p[s[i - 1]]
        BY <4>1, <1>1
      <4>3. p[s[i - 1]] = IF i <= Len(s) THEN s[i] ELSE Nil
        BY <4>1, <1>3
      <4>4. i <= Len(s) => r[i + 1] = s[i]
        BY <1>1, <1>2
      <4> QED BY <4>2, <4>3, <4>4, <1>1, <1>2
    <3> QED BY <3>1, <3>2
  <2>2. 1 <= Len(r)
    BY <1>1, <1>2
  <2> QED BY <2>1, <2>2, <1>2 DEF Linked
<1>5. \A i, j \in 1..Len(r) : r[i] = r[j] => i = j
  <2> SUFFICES ASSUME NEW i \in 1..Len(r), NEW j \in 1..Len(r), r[i] = r[j] PROVE i = j
    OBVIOUS
  <2>1. CASE i = 1 \/ j = 1
    BY SMTT(30), <2>1, <1>1, <1>2
  <2>2. CASE i # 1 /\ j # 1
    <3>1. i - 1 \in 1..Len(s) /\ j - 1 \in 1..Len(s) /\ s[i - 1] = s[j - 1]
      BY <2>2, <1>2
    <3> QED BY <3>1, <1>1
  <2> QED BY <2>1, <2>2
<1>6. Members(r) = E \cup {f}
  <2>1. \A i \in 1..Len(r) : r[i] \in E \cup {f}
    BY <1>1, <1>2
  <2>2. \A e \in E : \E i \in 1..Len(r) : r[i] = e
    BY <1>1, <1>2 DEF Members
  <2>3. \E i \in 1..Len(r) : r[i] = f
    BY <1>1, <1>2
  <2> QED BY <2>1, <2>2, <2>3 DEF Members
<1> QED BY <1>2, <1>4, <1>5, <1>6 DEF Stacked, r

\* What it does when c goes back to where it was entered from.
LEMMA StackedPop ==
  ASSUME NEW s, NEW c \in Fibers, NEW p, NEW E, Stacked(s, c, p, E),
         NEW q, \A g \in Fibers : g # c => q[g] = p[g]
  PROVE  /\ s # <<>> /\ Head(s) = c
         /\ Stacked(Tail(s), p[c], q, E \ {c})
<1> DEFINE r == Tail(s)
<1>1. /\ s \in Seq(Fibers) /\ Len(s) \in Nat
      /\ \A i \in 1..Len(s) : s[i] \in Fibers
      /\ \A i, j \in 1..Len(s) : s[i] = s[j] => i = j
      /\ Members(s) = E /\ c # Nil
  BY FiberAssumption DEF Stacked
<1>2. /\ IF Len(s) = 0 THEN c = Nil ELSE c = s[1]
      /\ \A i \in 1..Len(s) : p[s[i]] = IF i + 1 <= Len(s) THEN s[i + 1] ELSE Nil
  BY <1>1 DEF Stacked, Linked
<1>3. s # <<>> /\ 1 \in 1..Len(s) /\ s[1] = c /\ Head(s) = c
  BY <1>1, <1>2
<1>4. /\ r \in Seq(Fibers) /\ Len(r) = Len(s) - 1
      /\ \A i \in 1..Len(r) : i + 1 \in 1..Len(s) /\ r[i] = s[i + 1]
      /\ \A i \in 1..Len(s) : i # 1 => i - 1 \in 1..Len(r) /\ r[i - 1] = s[i]
  BY <1>1, <1>3
<1> HIDE DEF r
<1>5. Linked(r, p[c], q)
  <2>1. ASSUME NEW i \in 1..Len(r)
        PROVE  q[r[i]] = IF i + 1 <= Len(r) THEN r[i + 1] ELSE Nil
    <3>1. i + 1 \in 1..Len(s) /\ r[i] = s[i + 1] /\ s[i + 1] # s[1]
      BY <1>1, <1>3, <1>4
    <3>2. q[r[i]] = p[s[i + 1]]
      BY <3>1, <1>1, <1>3
    <3>3. p[s[i + 1]] = IF i + 2 <= Len(s) THEN s[i + 2] ELSE Nil
      BY <3>1, <1>2
    <3>4. i + 1 <= Len(r) => r[i + 1] = s[i + 2]
      BY <1>1, <1>4
    <3> QED BY <3>2, <3>3, <3>4, <1>1, <1>4
  <2>2. p[c] = IF 1 <= Len(r) THEN r[1] ELSE Nil
    <3>1. p[s[1]] = IF 2 <= Len(s) THEN s[2] ELSE Nil
      BY <1>2, <1>3
    <3> QED BY <3>1, <1>1, <1>3, <1>4
  <2> QED BY <2>1, <2>2 DEF Linked
<1>6. \A i, j \in 1..Len(r) : r[i] = r[j] => i = j
  <2> SUFFICES ASSUME NEW i \in 1..Len(r), NEW j \in 1..Len(r), r[i] = r[j] PROVE i = j
    OBVIOUS
  <2>1. i + 1 \in 1..Len(s) /\ j + 1 \in 1..Len(s) /\ s[i + 1] = s[j + 1]
    BY <1>4
  <2>2. i + 1 = j + 1
    BY <2>1, <1>1
  <2> QED BY <2>2
<1>7. Members(r) = E \ {c}
  <2>1. \A i \in 1..Len(r) : r[i] \in E \ {c}
    <3> SUFFICES ASSUME NEW i \in 1..Len(r) PROVE r[i] \in E \ {c}
      OBVIOUS
    <3>1. i + 1 \in 1..Len(s) /\ r[i] = s[i + 1] /\ i + 1 # 1
      BY <1>4
    <3>2. s[i + 1] # s[1]
      BY <3>1, <1>1, <1>3
    <3> QED BY <3>1, <3>2, <1>1, <1>3 DEF Members
  <2>2. ASSUME NEW e \in E, e # c PROVE \E i \in 1..Len(r) : r[i] = e
    <3>1. PICK i \in 1..Len(s) : s[i] = e
      BY <1>1 DEF Members
    <3>2. i # 1
      BY <3>1, <2>2, <1>3
    <3> QED BY <3>1, <3>2, <1>4
  <2> QED BY <2>1, <2>2 DEF Members
<1> QED BY <1>3, <1>4, <1>5, <1>6, <1>7 DEF Stacked, r

Entered == {f \in Fibers : at[f] \in {"code", "resume"}}

\* The list along _prev holds the entered fibers.
ChainInv == \E s : Stacked(s, current, prev, Entered)

LEMMA ChainIs ==
  ASSUME NEW s, Stacked(s, current, prev, Entered)
  PROVE  /\ Chain = s /\ Len(s) \in Nat
         /\ Co!Entered = Entered
<1>1. Chain = s
  BY ListIs DEF Chain
<1>2. Co!Entered = Members(s)
  BY <1>1 DEF Co!Entered, Members
<1> QED BY <1>1, <1>2 DEF Stacked

\* launch() and resume() push a fiber.
LEMMA SwitchPushes ==
  ASSUME FiberInv, ChainInv, NEW f \in Fibers, at[f] \in {"none", "yield"}, Switch(f)
  PROVE  ChainInv' /\ f \notin Co!Entered /\ Chain' = <<f>> \o Chain
<1>1. PICK s : Stacked(s, current, prev, Entered)
  BY DEF ChainInv
<1>2. f \notin Entered /\ Chain = s /\ Co!Entered = Entered
  BY <1>1, ChainIs DEF Entered
<1>3. \A c \in Contexts : at'[c] = IF c = f THEN "code"
                                   ELSE IF c = current THEN "resume" ELSE at[c]
  BY SwitchExtendsChain DEF FiberInv
<1>4. Entered' = Entered \cup {f}
  <2>1. \A g \in Fibers : at'[g] \in {"code", "resume"} <=>
                            g = f \/ at[g] \in {"code", "resume"}
    BY <1>3 DEF FiberInv, ControlIsCurrent, Contexts
  <2> QED BY <2>1 DEF Entered
<1>5. /\ current' = f /\ prev'[f] = current
      /\ \A g \in Fibers : g # f => prev'[g] = prev[g]
  BY DEF Switch, FiberInv, TypeOK
<1>6. Stacked(<<f>> \o s, current', prev', Entered')
  BY <1>1, <1>2, <1>4, <1>5, StackedPush
<1>7. Chain' = <<f>> \o s
  BY <1>6, ListIs DEF Chain
<1> QED BY <1>2, <1>6, <1>7 DEF ChainInv

\* yield() and the end of a fiber pop the one that ran.
LEMMA ReturnPops ==
  ASSUME FiberInv, ChainInv, current \in Fibers,
         NEW place \in {"yield", "over", "none"},
         prev' = [prev EXCEPT ![current] = Nil],
         current' = prev[current],
         running' = prev[current],
         at' = [at EXCEPT ![current] = place, ![prev[current]] = "code"]
  PROVE  /\ ChainInv' /\ Chain # <<>> /\ Head(Chain) = current /\ Chain' = Tail(Chain)
         /\ \A g \in Fibers : at'[g] = "yield" <=>
              IF g = current THEN place = "yield" ELSE at[g] = "yield"
<1>1. PICK s : Stacked(s, current, prev, Entered)
  BY DEF ChainInv
<1>2. Chain = s
  BY <1>1, ChainIs
<1>3. /\ prev[current] \in Contexts /\ at[prev[current]] = "resume"
      /\ \A c \in Contexts : at'[c] = IF c = prev[current] THEN "code"
                                      ELSE IF c = current THEN place ELSE at[c]
  BY ReturnShrinksChain DEF FiberInv
<1>4. at[current] = "code" /\ current # prev[current]
  BY <1>3 DEF FiberInv, ControlIsCurrent, TypeOK
<1>5. Entered' = Entered \ {current}
  <2>1. \A g \in Fibers : at'[g] \in {"code", "resume"} <=>
                            g # current /\ at[g] \in {"code", "resume"}
    BY <1>3, <1>4 DEF Contexts
  <2> QED BY <2>1 DEF Entered
<1>6. \A g \in Fibers : g # current => prev'[g] = prev[g]
  BY DEF FiberInv, TypeOK
<1>7. /\ s # <<>> /\ Head(s) = current
      /\ Stacked(Tail(s), current', prev', Entered')
  BY <1>1, <1>5, <1>6, StackedPop
<1>8. Chain' = Tail(s)
  BY <1>7, ListIs DEF Chain
<1>9. \A g \in Fibers : at'[g] = "yield" <=>
        IF g = current THEN place = "yield" ELSE at[g] = "yield"
  BY <1>3, <1>4 DEF Contexts
<1> QED BY <1>2, <1>7, <1>8, <1>9 DEF ChainInv

-----------------------------------------------------------------------------
(* The steps of a fiber as those of a coroutine.                           *)

LEMMA LaunchStarts ==
  ASSUME FiberInv, ChainInv, NEW f \in Fibers, Launch(f)
  PROVE  ChainInv' /\ Co!Start(f)
<1>1. at[f] = "none" /\ Switch(f)
  BY DEF Launch, FiberInv, Existence
<1>2. ChainInv' /\ f \notin Co!Entered /\ Chain' = <<f>> \o Chain
  BY <1>1, SwitchPushes
<1>3. \A c \in Contexts : at'[c] = IF c = f THEN "code"
                                   ELSE IF c = current THEN "resume" ELSE at[c]
  BY <1>1, SwitchExtendsChain DEF FiberInv
<1>4. Parked' = Parked /\ f \notin Parked
  BY <1>1, <1>3 DEF Parked, FiberInv, ControlIsCurrent, Contexts
<1> QED BY <1>2, <1>4 DEF Co!Start, Co!Enter

LEMMA ResumeContinues ==
  ASSUME FiberInv, ChainInv, NEW f \in Fibers, Resume(f)
  PROVE  ChainInv' /\ Co!Continue(f)
<1>1. at[f] = "yield" /\ Switch(f)
  BY DEF Resume
<1>2. ChainInv' /\ Chain' = <<f>> \o Chain
  BY <1>1, SwitchPushes
<1>3. \A c \in Contexts : at'[c] = IF c = f THEN "code"
                                   ELSE IF c = current THEN "resume" ELSE at[c]
  BY <1>1, SwitchExtendsChain DEF FiberInv
<1>4. Parked' = Parked \ {f} /\ f \in Parked
  BY <1>1, <1>3 DEF Parked, FiberInv, ControlIsCurrent, Contexts
<1> QED BY <1>2, <1>4 DEF Co!Continue, Co!Enter

LEMMA YieldSuspends ==
  ASSUME FiberInv, ChainInv, Yield
  PROVE  ChainInv' /\ Co!Suspend
<1>1. /\ current \in Fibers
      /\ prev' = [prev EXCEPT ![current] = Nil]
      /\ current' = prev[current] /\ running' = prev[current]
      /\ at' = [at EXCEPT ![current] = "yield", ![prev[current]] = "code"]
  BY DEF Yield, FiberInv, TypeOK, Contexts
<1>2. /\ ChainInv' /\ Chain # <<>> /\ Head(Chain) = current /\ Chain' = Tail(Chain)
      /\ \A g \in Fibers : at'[g] = "yield" <=>
           IF g = current THEN "yield" = "yield" ELSE at[g] = "yield"
  <2>1. "yield" \in {"yield", "over", "none"}
    OBVIOUS
  <2> QED BY <1>1, <2>1, ReturnPops
<1>3. Parked' = Parked \cup {current}
  BY <1>1, <1>2 DEF Parked
<1> QED BY <1>2, <1>3 DEF Co!Suspend

LEMMA FinishEnds ==
  ASSUME FiberInv, ChainInv, Finish
  PROVE  ChainInv' /\ Co!End
<1> DEFINE place == IF current \in held THEN "over" ELSE "none"
<1>1. /\ current \in Fibers
      /\ prev' = [prev EXCEPT ![current] = Nil]
      /\ current' = prev[current] /\ running' = prev[current]
      /\ at' = [at EXCEPT ![current] = place, ![prev[current]] = "code"]
      /\ at[current] = "code"
  BY DEF Finish, FiberInv, TypeOK, Contexts, ControlIsCurrent
<1>2. place \in {"yield", "over", "none"} /\ place # "yield"
  OBVIOUS
<1> HIDE DEF place
<1>3. /\ ChainInv' /\ Chain # <<>> /\ Chain' = Tail(Chain)
      /\ \A g \in Fibers : at'[g] = "yield" <=>
           IF g = current THEN place = "yield" ELSE at[g] = "yield"
  BY <1>1, <1>2, ReturnPops
<1>4. Parked' = Parked
  BY <1>1, <1>2, <1>3 DEF Parked
<1> QED BY <1>3, <1>4 DEF Co!End

LEMMA ReleaseStutters ==
  ASSUME FiberInv, ChainInv, NEW f \in Fibers, Release(f)
  PROVE  ChainInv' /\ UNCHANGED Co!covars
<1>1. UNCHANGED <<current, prev>>
  BY DEF Release
<1>2. Entered' = Entered /\ Parked' = Parked
  <2>1. at' = at \/ (at[f] = "over" /\ at' = [at EXCEPT ![f] = "none"])
    BY DEF Release, FiberInv, ControlIsCurrent
  <2>2. \A g \in Fibers : at'[g] = at[g] \/ (at[g] = "over" /\ at'[g] = "none")
    BY <2>1 DEF FiberInv, TypeOK, Contexts
  <2> QED BY <2>2 DEF Entered, Parked
<1>3. Chain' = Chain
  BY <1>1 DEF Chain
<1> QED BY <1>1, <1>2, <1>3 DEF ChainInv, Co!covars

LEMMA StutterStutters ==
  ASSUME ChainInv, UNCHANGED vars
  PROVE  ChainInv' /\ UNCHANGED Co!covars
BY DEF vars, ChainInv, Entered, Parked, Chain, Co!covars

\* The fiber class implements coroutines: launch() and resume() push a fiber,
\* yield() and the end of a fiber pop the one that runs, and nothing else
\* touches the stack.
THEOREM FiberImplementsCoroutine == Spec => RefinesCoroutine
<1>1. Init => ChainInv /\ Co!CoInit
  <2> SUFFICES ASSUME Init PROVE ChainInv /\ Co!CoInit
    OBVIOUS
  <2>1. Entered = {} /\ Parked = {}
    BY FiberAssumption DEF Init, Entered, Parked, Contexts
  <2>2. Stacked(<<>>, current, prev, Entered)
    BY <2>1 DEF Init, Stacked, Linked, Members
  <2>3. Chain = <<>>
    BY <2>2, ChainIs
  <2> QED BY <2>1, <2>2, <2>3 DEF ChainInv, Co!CoInit
<1>2. FiberInv /\ ChainInv /\ [Next]_vars => ChainInv' /\ [Co!CoNext]_(Co!covars)
  <2> SUFFICES ASSUME FiberInv, ChainInv, [Next]_vars
               PROVE  ChainInv' /\ [Co!CoNext]_(Co!covars)
    OBVIOUS
  <2>1. ASSUME NEW f \in Fibers, Launch(f) PROVE ChainInv' /\ [Co!CoNext]_(Co!covars)
    BY <2>1, LaunchStarts DEF Co!CoNext
  <2>2. ASSUME NEW f \in Fibers, Resume(f) PROVE ChainInv' /\ [Co!CoNext]_(Co!covars)
    BY <2>2, ResumeContinues DEF Co!CoNext
  <2>3. ASSUME NEW f \in Fibers, Release(f) PROVE ChainInv' /\ [Co!CoNext]_(Co!covars)
    BY <2>3, ReleaseStutters
  <2>4. CASE Yield
    BY <2>4, YieldSuspends DEF Co!CoNext
  <2>5. CASE Finish
    BY <2>5, FinishEnds DEF Co!CoNext
  <2>6. CASE UNCHANGED vars
    BY <2>6, StutterStutters
  <2> QED BY <2>1, <2>2, <2>3, <2>4, <2>5, <2>6 DEF Next
<1> QED BY <1>1, <1>2, FiberInvariant, PTL DEF Spec, RefinesCoroutine, Co!CoSpec
=============================================================================

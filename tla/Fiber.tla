------------------------------- MODULE Fiber -------------------------------
(***************************************************************************)
(* The fiber class of src/src/httpcore/xyfiber.cpp (POSIX branch): stackful *)
(* fibers switched with swapcontext().  A context is a fiber or the main   *)
(* context, written Nil, in which the libuv loop and its callbacks run.    *)
(*                                                                         *)
(* The static pointer fiber::_current is a claim about which context holds *)
(* the processor; `running' is the truth of it.  The code saves a context  *)
(* into the slot named by _current, so the two must never part.            *)
(*                                                                         *)
(* resume() refuses only a terminated or the current fiber.  Every caller  *)
(* in src/ (the libuv callbacks of xystream.cpp, and the fiber test)       *)
(* resumes a fiber parked in yield(), which is the guard used here.        *)
(***************************************************************************)
EXTENDS Naturals, Sequences, FiniteSets

CONSTANTS Fibers,      \* fiber objects
          Stacks,      \* mmap'ed stacks
          Nil,         \* the null P<fiber>, and the main context
          PoolTarget   \* fiber::stack_pool_target

ASSUME FiberAssumption ==
  /\ Nil \notin Fibers /\ IsFiniteSet(Fibers)
  /\ Nil \notin Stacks
  /\ PoolTarget \in Nat

VARIABLES
  current,      \* fiber::_current
  prev,         \* fiber::_prev
  self,         \* the fibers whose `self' pointer is set
  terminated,   \* the fibers with _terminated set
  held,         \* the fibers some P<fiber> outside the class refers to
  stack,        \* fiber::_stack; Nil when the object does not exist
  pool,         \* fiber::stack_pool
  running,      \* the context that holds the processor
  at            \* where a context would go on: see Places

vars == <<current, prev, self, terminated, held, stack, pool, running, at>>

Contexts == Fibers \cup {Nil}

\* In its own code, inside resume() or inside yield(); "over": the wrapper
\* made its last swapcontext(); "none": no such object.
Places == {"code", "resume", "yield", "over", "none"}

Init ==
  /\ current = Nil
  /\ prev = [f \in Fibers |-> Nil]
  /\ self = {}
  /\ terminated = {}
  /\ held = {}
  /\ stack = [f \in Fibers |-> Nil]
  /\ pool = <<>>
  /\ running = Nil
  /\ at = [c \in Contexts |-> IF c = Nil THEN "code" ELSE "none"]

-----------------------------------------------------------------------------
(* Lifetime: shared_ptr counts and the stack pool.                         *)

Pooled == {pool[i] : i \in 1..Len(pool)}

InUse == {stack[f] : f \in Fibers} \ {Nil}

\* Mutant of PoolHasRoom: the size test of ~fiber is off by one.
PoolHasRoomOffByOne == Len(pool) <= PoolTarget

PoolHasRoom == Len(pool) < PoolTarget

\* Mutant of Allocate: front() without pop().
AllocateKeepsPooled(f) ==
  IF pool = <<>>
  THEN /\ \E s \in Stacks \ InUse : stack' = [stack EXCEPT ![f] = s]
       /\ UNCHANGED pool
  ELSE stack' = [stack EXCEPT ![f] = Head(pool)] /\ UNCHANGED pool

\* The stack a new fiber gets: the oldest pooled one, else a fresh mapping.
Allocate(f) ==
  IF pool = <<>>
  THEN /\ \E s \in Stacks \ InUse : stack' = [stack EXCEPT ![f] = s]
       /\ UNCHANGED pool
  ELSE /\ stack' = [stack EXCEPT ![f] = Head(pool)]
       /\ pool' = Tail(pool)

\* The last P<fiber> to f is gone: ~fiber pools its stack or unmaps it.
Destroy(f) ==
  /\ stack' = [stack EXCEPT ![f] = Nil]
  /\ pool' = IF PoolHasRoom THEN Append(pool, stack[f]) ELSE pool
  /\ terminated' = terminated \ {f}

-----------------------------------------------------------------------------
(* Mutants of Switch and Yield.                                            *)

\* resume() that loses the fiber it was called from.
SwitchForgetsResumer(f) ==
  /\ prev' = [prev EXCEPT ![f] = Nil]
  /\ current' = f
  /\ running' = f
  /\ at' = [at EXCEPT ![running] = "resume", ![f] = "code"]

\* The first half of resume(): the caller is saved in the slot of _prev, and
\* f goes on where it was.  `_current = self' needs the self pointer.
Switch(f) ==
  /\ prev' = [prev EXCEPT ![f] = current]
  /\ current' = f
  /\ running' = f
  /\ at' = [at EXCEPT ![running] = "resume", ![f] = "code"]

\* fiber::launch, called by the running context.
Launch(f) ==
  /\ stack[f] = Nil
  /\ Allocate(f)
  /\ self' = self \cup {f}
  /\ held' = held \cup {f}
  /\ Switch(f)
  /\ UNCHANGED terminated

\* fiber::resume, and fiber::raise, which leaves an error that the woken
\* yield() takes and throws at once.
Resume(f) ==
  /\ f \in held \cap self
  /\ f \notin terminated
  /\ current # f
  /\ at[f] = "yield"
  /\ Switch(f)
  /\ UNCHANGED <<self, terminated, held, stack, pool>>

\* yield() that always goes back to the main context.
YieldToMain ==
  /\ current # Nil
  /\ prev' = [prev EXCEPT ![current] = Nil]
  /\ current' = Nil
  /\ running' = Nil
  /\ at' = [at EXCEPT ![current] = "yield", ![Nil] = "code"]
  /\ held' = held \cup {current}
  /\ UNCHANGED <<self, terminated, stack, pool>>

\* yield() that reads _prev without making it the current fiber.
YieldKeepsCurrent ==
  /\ current # Nil
  /\ prev' = [prev EXCEPT ![current] = Nil]
  /\ running' = prev[current]
  /\ at' = [at EXCEPT ![current] = "yield", ![prev[current]] = "code"]
  /\ held' = held \cup {current}
  /\ UNCHANGED <<current, self, terminated, stack, pool>>

\* fiber::yield.  Every yield() in src/ waits for a callback that keeps the
\* fiber, in stream::reading_fiber or in write_request::_fiber.
Yield ==
  /\ current # Nil
  /\ prev' = [prev EXCEPT ![current] = Nil]
  /\ current' = prev[current]
  /\ running' = prev[current]
  /\ at' = [at EXCEPT ![current] = "yield", ![prev[current]] = "code"]
  /\ held' = held \cup {current}
  /\ UNCHANGED <<self, terminated, stack, pool>>

\* The end of fiber::wrapper and the second half of the resume() it returns
\* to, which pops the terminated fiber and so drops the pointer _current.
Finish ==
  LET f == running IN
  /\ f # Nil
  /\ self' = self \ {f}
  /\ running' = prev[f]
  /\ prev' = [prev EXCEPT ![f] = Nil]
  /\ current' = IF current = f THEN prev[f] ELSE current
  /\ at' = [at EXCEPT ![f] = IF f \in held THEN "over" ELSE "none",
                      ![prev[f]] = "code"]
  /\ IF f \in held
     THEN terminated' = terminated \cup {f} /\ UNCHANGED <<stack, pool>>
     ELSE Destroy(f)
  /\ UNCHANGED held

\* The last outside pointer to f goes: f itself leaves the scope of its
\* fiber::preserve, or a caller forgets a fiber that is over.
Release(f) ==
  /\ f \in held
  /\ running = f \/ at[f] = "over"
  /\ held' = held \ {f}
  /\ IF f \in self \/ current = f
     THEN UNCHANGED <<stack, pool, terminated, at>>
     ELSE Destroy(f) /\ at' = [at EXCEPT ![f] = "none"]
  /\ UNCHANGED <<current, prev, self, running>>

Next ==
  \/ \E f \in Fibers : Launch(f) \/ Resume(f) \/ Release(f)
  \/ Yield
  \/ Finish

Spec == Init /\ [][Next]_vars

-----------------------------------------------------------------------------
(* Properties.                                                             *)

\* Every variable has its type, and the pool never outgrows its target.
TypeOK ==
  /\ current \in Contexts
  /\ prev \in [Fibers -> Contexts]
  /\ self \subseteq Fibers
  /\ terminated \subseteq Fibers
  /\ held \subseteq Fibers
  /\ stack \in [Fibers -> Stacks \cup {Nil}]
  /\ pool \in Seq(Stacks)
  /\ Len(pool) <= PoolTarget
  /\ running \in Contexts
  /\ at \in [Contexts -> Places]

\* _current names the context that has the processor, which is the only one
\* in its own code: swapcontext() never saves a context into a wrong slot.
ControlIsCurrent ==
  /\ running = current
  /\ \A c \in Contexts : at[c] = "code" <=> c = current

\* A fiber in control or inside resume() has been resumed by a context that
\* waits inside resume(); no two fibers return into the same resume(); and
\* every pending resume() has a fiber that will return to it.
ResumeChain ==
  /\ \A f \in Fibers : at[f] \in {"code", "resume"} => at[prev[f]] = "resume"
  /\ \A f, g \in Fibers :
       /\ at[f] \in {"code", "resume"}
       /\ at[g] \in {"code", "resume"}
       /\ prev[f] = prev[g]
       => f = g
  /\ \A c \in Contexts : at[c] = "resume" =>
       \E f \in Fibers : prev[f] = c /\ at[f] \in {"code", "resume"}

\* No stack belongs to two fibers, or to a fiber and the pool, or twice to
\* the pool; and a fiber that still has frames on its stack exists, keeps
\* itself alive through `self', and can be resumed.
StackOwnership ==
  /\ \A f, g \in Fibers : stack[f] = stack[g] /\ stack[f] # Nil => f = g
  /\ \A f \in Fibers : stack[f] \notin Pooled
  /\ \A i, j \in 1..Len(pool) : pool[i] = pool[j] => i = j
  /\ \A f \in Fibers : at[f] \in {"code", "resume", "yield"} =>
       stack[f] # Nil /\ f \in self \ terminated
=============================================================================

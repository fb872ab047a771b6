--------------------------- MODULE FiberRefinement ---------------------------
(***************************************************************************)
(* The fiber class implements asymmetric coroutines: the linked list that  *)
(* starts at _current and follows _prev is the stack of entered fibers.    *)
(***************************************************************************)
EXTENDS Fiber

\* s lists the contexts from c along the pointers p, up to the main context.
Linked(s, c, p) ==
  LET Context(i) == IF i <= Len(s) THEN s[i] ELSE Nil
  IN /\ c = Context(1)
     /\ \A i \in 1..Len(s) : p[s[i]] = Context(i + 1)

\* The list of fibers from c along p.
Lists == UNION {[1..n -> Fibers] : n \in 0..Cardinality(Fibers)}
List(c, p) == CHOOSE s \in Lists : Linked(s, c, p)

Chain == List(current, prev)
Parked == {f \in Fibers : at[f] = "yield"}

Co == INSTANCE Coroutine WITH chain <- Chain, parked <- Parked

\* Every launch, resume, yield and end of a fiber is a push or a pop of the
\* coroutine stack: a yield or an end gives control to the very context that
\* did the last unmatched resume, and parks or removes no other fiber.
RefinesCoroutine == Co!CoSpec
=============================================================================

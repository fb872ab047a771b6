----------------------------- MODULE Coroutine -----------------------------
(***************************************************************************)
(* What the fiber class promises its callers: asymmetric coroutines.  The  *)
(* fibers that have been entered and have not come back form a stack,      *)
(* innermost first; resuming a fiber pushes it, and yielding or ending     *)
(* pops exactly the innermost one, so that control always returns to the   *)
(* context that did the resuming.  The empty stack is the event loop.      *)
(***************************************************************************)
EXTENDS Naturals, Sequences

CONSTANT Fibers

VARIABLES chain,   \* the entered fibers, the one in control first
          parked   \* the fibers waiting in yield()

covars == <<chain, parked>>

Entered == {chain[i] : i \in 1..Len(chain)}

CoInit == chain = <<>> /\ parked = {}

Enter(f) == chain' = <<f>> \o chain

Start(f) ==
  /\ f \notin Entered \cup parked
  /\ Enter(f)
  /\ UNCHANGED parked

Continue(f) ==
  /\ f \in parked
  /\ Enter(f)
  /\ parked' = parked \ {f}

Suspend ==
  /\ chain # <<>>
  /\ chain' = Tail(chain)
  /\ parked' = parked \cup {Head(chain)}

End ==
  /\ chain # <<>>
  /\ chain' = Tail(chain)
  /\ UNCHANGED parked

CoNext ==
  \/ \E f \in Fibers : Start(f) \/ Continue(f)
  \/ Suspend
  \/ End

CoSpec == CoInit /\ [][CoNext]_covars
=============================================================================

------------------------------ MODULE MCFiber ------------------------------
(* Three fibers, so that a chain of two resumes meets a parked one, and a   *)
(* pool of two, so that it is met empty, full and overflowing.             *)
EXTENDS FiberRefinement
=============================================================================

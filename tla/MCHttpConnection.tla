-------------------------- MODULE MCHttpConnection --------------------------
(* Four calls for each request: enough to leave a transaction unfinished,  *)
(* finish it and misuse it afterwards.  Bodies of up to two units at a     *)
(* time meet both thresholds, one by one or at once.                       *)
EXTENDS HttpConnection
=============================================================================

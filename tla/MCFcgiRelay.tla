---------------------------- MODULE MCFcgiRelay ----------------------------
(* A body of up to three records, and a response that meets both           *)
(* thresholds of the transaction.                                          *)
EXTENDS FcgiRelay
=============================================================================

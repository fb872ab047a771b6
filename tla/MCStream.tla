------------------------------ MODULE MCStream ------------------------------
(* Two fibers, one in read() while the other writes, shuts down, changes   *)
(* the timeout or closes; three tokens make two messages or a message that *)
(* arrives in three parts, with a malformed one in any place.              *)
EXTENDS Stream
=============================================================================

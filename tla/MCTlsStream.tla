---------------------------- MODULE MCTlsStream ----------------------------
(* Two fibers are enough for every conflict of readers and writers; three  *)
(* records of data fill the buffer, the engine and the socket at once.     *)
EXTENDS TlsStream
=============================================================================

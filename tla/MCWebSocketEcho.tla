--------------------------- MODULE MCWebSocketEcho ---------------------------
(* Four frames: a message in fragments with a control frame between them   *)
(* and something after it, or several messages.  A page of four units is   *)
(* filled by a message of two fragments with its empty block, and too      *)
(* small for a longer one.                                                 *)
EXTENDS WebSocketEcho
=============================================================================

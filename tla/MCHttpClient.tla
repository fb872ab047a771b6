---------------------------- MODULE MCHttpClient ----------------------------
(* Three requests: one that is given up, one that may get its answer, and  *)
(* one after that.                                                         *)
EXTENDS HttpClient
=============================================================================

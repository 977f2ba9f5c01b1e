------------------------------ MODULE MCGoRpc ------------------------------
(* A stream and a unary call that share a connection, and all that may go   *)
(* wrong around them.                                                       *)
EXTENDS GoRpc

StreamAndUnary == <<"stream", "unary">>
Everything == {"drop", "client", "server"}
=============================================================================

------------------------------ MODULE MCRustRpc ------------------------------
(* Two calls that share a connection, one call of each kind, and what may   *)
(* go wrong around them.                                                    *)
EXTENDS RustRpc

StreamAndUnary == <<"stream", "unary">>
DropsOrExits == {{"drop"}, {"client", "server"}}
=============================================================================

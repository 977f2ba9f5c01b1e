---------------------------- MODULE MCRustClient ----------------------------
(* RustClient with two queue slots, against an arbitrary peer. *)
EXTENDS RustClient
CONSTANTS b1

OneBody == {b1}
=============================================================================

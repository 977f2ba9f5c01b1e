---------------------------- MODULE MCTransports ----------------------------
(* Transports with packets whose lengths take one byte and two.            *)
EXTENDS Transports

MCPackets == {<<1>>, <<2, 3>>}
=============================================================================

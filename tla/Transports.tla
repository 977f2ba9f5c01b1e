----------------------------- MODULE Transports -----------------------------
(***************************************************************************)
(* The packet transports and the calls over HTTP, checked side by side: a  *)
(* behaviour is of one of them.                                            *)
(***************************************************************************)
EXTENDS PacketTransports, HttpRpc

vars == <<packetVars, httpRpcVars>>

Init ==
    /\ PacketInit /\ HttpRpcInit
    /\ (transport = "none") # (kind = "none")
    /\ kind = "none" => client = "rust" /\ server = "rust"

Next ==
    \/ PacketNext /\ UNCHANGED httpRpcVars
    \/ HttpRpcNext /\ UNCHANGED packetVars

Spec == Init /\ [][Next]_vars /\ PacketFairness /\ HttpRpcFairness

\* Every variable keeps its type: among others queues and channels their
\* bounds, and a packet that is being read its length.
TypeOK == PacketTypeOK /\ HttpRpcTypeOK
=============================================================================

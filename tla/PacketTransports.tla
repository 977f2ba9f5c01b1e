--------------------------- MODULE PacketTransports ---------------------------
(***************************************************************************)
(* Each of the packet transports, shown to be the PacketChannel that the   *)
(* RPC clients and servers are written for.  `transport` says which one a  *)
(* behaviour is about, by its receiving end; the sending ends of Rust are  *)
(* taken for all (those of Go and TypeScript write without a queue).       *)
(***************************************************************************)
EXTENDS TcpTransport, WebSocketTransport, TsTransports

VARIABLE transport   \* "none": no connection is made

Tcp == {"tcp", "ts tcp"}
WebSocket == {"websocket", "go websocket", "ts websocket"}

packetVars == <<linkVars, tcpVars, wsVars, tsVars, transport>>

PacketInit ==
    /\ transport \in Tcp \cup WebSocket \cup {"none"}
    /\ LinkInit /\ TcpInit /\ WsInit /\ TsInit

\* Steps of the application and of the network.
PacketEnvironment ==
    \/ transport \in Tcp /\ TcpWriter /\ UNCHANGED <<wsVars, tsVars>>
    \/ transport \in WebSocket /\ WsWriter /\ UNCHANGED <<tcpVars, tsVars>>
    \/ transport # "none" /\ Cut /\ UNCHANGED <<tcpVars, wsVars, tsVars>>

\* Steps of the transports: at the sending end, at the receiving end, and
\* in recv.
Writes ==
    \/ transport \in Tcp /\ TcpWrite /\ UNCHANGED <<wsVars, tsVars>>
    \/ transport \in WebSocket /\ WsWriteLoop /\ UNCHANGED <<tcpVars, tsVars>>

Reads ==
    \/ transport \in {"websocket", "go websocket"} /\ WsReadLoop
       /\ UNCHANGED <<tcpVars, tsVars>>
    \/ transport = "ts tcp" /\ (TsTcpData \/ TsTcpClosed)
       /\ UNCHANGED <<tcpVars, wsVars>>
    \/ transport = "ts websocket" /\ (TsWsMessage \/ TsWsClosed)
       /\ UNCHANGED <<tcpVars, wsVars>>

Recvs ==
    \/ transport = "tcp" /\ TcpReader /\ UNCHANGED <<wsVars, tsVars>>
    \/ transport = "websocket" /\ WsRecv /\ UNCHANGED <<tcpVars, tsVars>>
    \/ transport = "go websocket" /\ GoWsRecv /\ UNCHANGED <<tcpVars, tsVars>>
    \/ transport = "ts tcp" /\ TsTcpRecv /\ UNCHANGED <<tcpVars, wsVars>>
    \/ transport = "ts websocket" /\ TsWsRecv /\ UNCHANGED <<tcpVars, wsVars>>

PacketNext ==
    (PacketEnvironment \/ Writes \/ Reads \/ Recvs) /\ UNCHANGED transport

(***************************************************************************)
(* Tasks that can move are polled, sockets carry what is written, and      *)
(* run() calls recv for as long as it does not fail.                       *)
(***************************************************************************)
PacketFairness ==
    /\ WF_packetVars(Writes /\ UNCHANGED transport)
    /\ WF_packetVars(Reads /\ UNCHANGED transport)
    /\ WF_packetVars(Recvs /\ UNCHANGED transport)

PacketSpec == PacketInit /\ [][PacketNext]_packetVars /\ PacketFairness

PacketTypeOK ==
    /\ {failed, sender, broken} \subseteq BOOLEAN
    /\ \A i \in DOMAIN sent : sent[i] \in Packets
    /\ Len(sent) <= MaxSent
    /\ TcpTypeOK /\ WsTypeOK /\ TsTypeOK

\* The receiving ends that may drop packets when the sender closes an
\* intact connection: Recv of Go may select the error first, recv of
\* TypeScript's TcpTransport looks at `closed` first.
LossyAtClose == {"go websocket", "ts tcp"}

\* What the two ends make of the connection.
connection ==
    IF broken \/ (~sender /\ transport \in LossyAtClose) THEN "broken"
    ELSE IF sender THEN "open" ELSE "closed"

Channel == INSTANCE PacketChannel WITH state <- connection

\* doc/rpc_transport.md:36 "reliable, ordered delivery of complete
\* messages", whatever the pieces in which the bytes come and wherever the
\* connection is cut: never part of a packet, nor two in one, nor one out
\* of its turn; and closing a connection loses nothing, but for the two
\* transports above.
ImplementsChannel == Channel!Spec

\* On a connection that stays up the receiver catches up with the sender,
\* again and again: no packet waits in a buffer for the next to come.
PacketsArrive == []<>(Len(received) = Len(sent) \/ failed \/ broken)
=============================================================================

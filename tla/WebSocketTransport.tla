------------------------- MODULE WebSocketTransport -------------------------
(***************************************************************************)
(* WebSocketTransport of runtime-rust/src/rpc.rs: a task that writes what  *)
(* send queues, and a task that queues what recv returns; and of           *)
(* runtime-go/rpc.go, whose Recv is another.  A frame is one packet, or a  *)
(* ping of the peer, or the closing handshake.                             *)
(***************************************************************************)
EXTENDS PacketLink

CONSTANT WsCap   \* capacity of a queue: 64 in Rust, 100 in Go

ASSUME WsAssumption == WsCap \in Nat \ {0}

VARIABLES
    write_q,     \* packets waiting to be written
    write_loop,  \* whether the writing task runs
    read_q,      \* packets waiting for recv
    read_loop    \* whether the reading task runs

wsVars == <<write_q, write_loop, read_q, read_loop>>

Frame(type, data) == [type |-> type, data |-> data]

WsInit ==
    /\ write_q = <<>> /\ write_loop = "running"
    /\ read_q = <<>>  /\ read_loop = "running"

WsTypeOK ==
    /\ Len(write_q) <= WsCap
    /\ \A q \in {write_q, read_q} : \A i \in DOMAIN q : q[i] \in Packets
    /\ {write_loop, read_loop} \subseteq {"running", "ended"}

\* send queues the packet, as long as the writing task is there to take it.
WsSend(p) ==
    /\ sender /\ write_loop = "running"
    /\ Len(write_q) < WsCap /\ Len(sent) < MaxSent
    /\ sent' = Append(sent, p)
    /\ write_q' = Append(write_q, p)
    /\ UNCHANGED <<received, failed, sender, broken, link, write_loop, read_q, read_loop>>

\* The transport is dropped, and the sending end of its queue with it.
WsDrop ==
    /\ sender /\ sender' = FALSE
    /\ UNCHANGED <<sent, received, failed, broken, link, wsVars>>

\* The writing task: every queued packet, then the closing handshake.
WsWriteLoop ==
    /\ write_loop = "running"
    /\ \/ /\ write_q # <<>> /\ ~broken
          /\ link' = Append(link, Frame("binary", Head(write_q)))
          /\ write_q' = Tail(write_q)
          /\ UNCHANGED write_loop
       \/ /\ broken /\ (write_q # <<>> \/ ~sender)
          /\ write_q' = <<>>
          /\ write_loop' = "ended"
          /\ UNCHANGED link
       \/ /\ write_q = <<>> /\ ~sender /\ ~broken
          /\ link' = Append(link, Frame("close", <<>>))
          /\ write_loop' = "ended"
          /\ UNCHANGED write_q
    /\ UNCHANGED <<sent, received, failed, sender, broken, read_q, read_loop>>

\* The peer's library pings.
WsPing ==
    /\ sender /\ ~broken /\ \A i \in DOMAIN link : link[i].type # "ping"
    /\ link' = Append(link, Frame("ping", <<>>))
    /\ UNCHANGED <<sent, received, failed, sender, broken, wsVars>>

\* The reading task: binary frames are queued, others passed over.
WsReadLoop ==
    /\ read_loop = "running"
    /\ \/ /\ link # <<>> /\ link' = Tail(link)
          /\ \/ /\ Head(link).type = "binary" /\ Len(read_q) < WsCap
                /\ read_q' = Append(read_q, Head(link).data)
                /\ UNCHANGED read_loop
             \/ /\ Head(link).type = "close"
                /\ read_loop' = "ended"
                /\ UNCHANGED read_q
             \/ /\ Head(link).type = "ping"
                /\ UNCHANGED <<read_q, read_loop>>
       \/ /\ link = <<>> /\ broken
          /\ read_loop' = "ended"
          /\ UNCHANGED <<link, read_q>>
    /\ UNCHANGED <<sent, received, failed, sender, broken, write_q, write_loop>>

WsTake ==
    /\ read_q # <<>> /\ ~failed
    /\ received' = Append(received, Head(read_q))
    /\ read_q' = Tail(read_q)
    /\ UNCHANGED <<sent, failed, sender, broken, link, write_q, write_loop, read_loop>>

WsFail ==
    /\ read_loop = "ended" /\ ~failed
    /\ failed' = TRUE
    /\ UNCHANGED <<sent, received, sender, broken, link, wsVars>>

\* recv returns what is queued before it reports that the task is gone.
WsRecv == WsTake \/ (read_q = <<>> /\ WsFail)

\* Recv of Go selects among queued packets and the error of its loop.
GoWsRecv == WsTake \/ WsFail

WsWriter == WsDrop \/ WsPing \/ \E p \in Packets : WsSend(p)
=============================================================================

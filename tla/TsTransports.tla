---------------------------- MODULE TsTransports ----------------------------
(***************************************************************************)
(* TcpTransport and WebSocketTransport of runtime-typescript/rpc.ts: the   *)
(* receiving side, which listens to the events of its socket.  A step is   *)
(* one turn of the event loop.  run() of PacketClient is the only caller   *)
(* of recv, so that there is at most one waiter.                           *)
(***************************************************************************)
EXTENDS PacketLink

VARIABLES
    buffer,   \* TcpTransport: the bytes that came and were not returned
    queue,    \* WebSocketTransport: packets that came before recv
    waiting,  \* whether a recv waits
    closed    \* whether "close" or "error" was signalled

tsVars == <<buffer, queue, waiting, closed>>

TsInit == buffer = <<>> /\ queue = <<>> /\ waiting = FALSE /\ closed = FALSE

TsTypeOK ==
    /\ {waiting, closed} \subseteq BOOLEAN
    /\ \A i \in DOMAIN queue : queue[i] \in Packets
    /\ queue # <<>> => ~waiting

\* decodeVarint does not see the end of its buffer: it reads one byte of
\* zeros there, and counts it.
decodeVarint(buf) ==
    LET n == Min({i \in 1..(Len(buf) + 1) : i > Len(buf) \/ buf[i] < Continue})
        result[i \in 0..Len(buf)] ==
            IF i = 0 THEN 0 ELSE result[i - 1] + (buf[i] % Continue) * 2^(Group * (i - 1))
    IN [length |-> result[Min({n, Len(buf)})], header |-> n]

\* A mutant: the byte past the end is not counted.
CompleteUncounted(buf) ==
    LET d == decodeVarint(buf)
    IN buf # <<>> /\ Len(buf) >= Min({d.header, Len(buf)}) + d.length

\* Whether the buffer holds a packet; its packet, and what follows it.
Complete(buf) ==
    LET d == decodeVarint(buf) IN buf # <<>> /\ Len(buf) >= d.header + d.length
Payload(buf) ==
    LET d == decodeVarint(buf) IN SubSeq(buf, d.header + 1, d.header + d.length)
Remainder(buf) ==
    LET d == decodeVarint(buf) IN Rest(buf, d.header + d.length)

\* "data" of the TCP socket, and processBuffer.
TsTcpData ==
    /\ link # <<>> /\ ~closed
    /\ \E n \in 1..Len(link) : LET buf == buffer \o SubSeq(link, 1, n) IN
         /\ link' = Rest(link, n)
         /\ IF waiting /\ Complete(buf)
              THEN /\ received' = Append(received, Payload(buf))
                   /\ buffer' = Remainder(buf) /\ waiting' = FALSE
              ELSE /\ buffer' = buf /\ UNCHANGED <<received, waiting>>
    /\ UNCHANGED <<sent, failed, sender, broken, queue, closed>>

\* "message" of the WebSocket.
TsWsMessage ==
    /\ link # <<>> /\ ~closed
    /\ link' = Tail(link)
    /\ \/ /\ Head(link).type = "binary" /\ waiting
          /\ received' = Append(received, Head(link).data)
          /\ waiting' = FALSE /\ UNCHANGED <<queue, closed, failed>>
       \/ /\ Head(link).type = "binary" /\ ~waiting
          /\ queue' = Append(queue, Head(link).data)
          /\ UNCHANGED <<received, waiting, closed, failed>>
       \/ /\ Head(link).type = "ping"
          /\ UNCHANGED <<received, queue, waiting, closed, failed>>
       \/ /\ Head(link).type = "close"
          /\ closed' = TRUE
          /\ failed' = (failed \/ waiting) /\ waiting' = FALSE
          /\ UNCHANGED <<received, queue>>
    /\ UNCHANGED <<sent, sender, broken, buffer>>

\* "close" or "error": the waiting recv is rejected.
TsReject ==
    /\ ~closed /\ closed' = TRUE
    /\ failed' = (failed \/ waiting) /\ waiting' = FALSE
    /\ UNCHANGED <<sent, received, sender, broken, link, buffer, queue>>

TsTcpClosed == link = <<>> /\ (broken \/ ~sender) /\ TsReject
TsWsClosed  == link = <<>> /\ broken /\ TsReject

\* A mutant: recv waits without looking at the buffer.
TsTcpRecvWaits ==
    /\ ~waiting /\ ~failed
    /\ failed' = closed /\ waiting' = ~closed
    /\ UNCHANGED <<sent, received, sender, broken, link, buffer, queue, closed>>

\* recv of TcpTransport looks at `closed` before it looks at its buffer.
TsTcpRecv ==
    /\ ~waiting /\ ~failed
    /\ \/ /\ closed
          /\ failed' = TRUE
          /\ UNCHANGED <<received, buffer, waiting>>
       \/ /\ ~closed /\ Complete(buffer)
          /\ received' = Append(received, Payload(buffer))
          /\ buffer' = Remainder(buffer)
          /\ UNCHANGED <<failed, waiting>>
       \/ /\ ~closed /\ ~Complete(buffer)
          /\ waiting' = TRUE
          /\ UNCHANGED <<received, buffer, failed>>
    /\ UNCHANGED <<sent, sender, broken, link, queue, closed>>

\* recv of WebSocketTransport returns what is queued first.
TsWsRecv ==
    /\ ~waiting /\ ~failed
    /\ \/ /\ queue # <<>>
          /\ received' = Append(received, Head(queue))
          /\ queue' = Tail(queue)
          /\ UNCHANGED <<failed, waiting>>
       \/ /\ queue = <<>>
          /\ failed' = closed /\ waiting' = ~closed
          /\ UNCHANGED <<received, queue>>
    /\ UNCHANGED <<sent, sender, broken, link, buffer, closed>>
=============================================================================

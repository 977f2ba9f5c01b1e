---------------------------- MODULE TcpTransport ----------------------------
(***************************************************************************)
(* TcpTransport of runtime-rust/src/rpc.rs; TCPTransport of                *)
(* runtime-go/rpc.go is the same algorithm.  A packet is written as its    *)
(* length in LEB128 and its bytes, with two calls of write_all.  The       *)
(* socket takes and yields bytes in pieces of any size: a step is one      *)
(* piece.                                                                  *)
(***************************************************************************)
EXTENDS PacketLink

VARIABLES
    writing,  \* what send has still to write: the buffers of its write_alls
    reading   \* how far recv has got

tcpVars == <<writing, reading>>

AtPrefix == [phase |-> "prefix", length |-> 0, shift |-> 0, data |-> <<>>]

TcpInit == writing = <<>> /\ reading = AtPrefix

TcpTypeOK ==
    /\ \A i \in DOMAIN writing : writing[i] # <<>>
    /\ reading.phase \in {"prefix", "data"}
    /\ reading.phase = "prefix" => reading.data = <<>>
    /\ reading.phase = "data" => Len(reading.data) < reading.length

\* The send loop calls send for one packet after the other.
TcpSend(p) ==
    /\ sender /\ writing = <<>> /\ Len(sent) < MaxSent
    /\ sent' = Append(sent, p)
    /\ writing' = <<encode_leb128_u64[Len(p)], p>>
    /\ UNCHANGED <<received, failed, sender, broken, link, reading>>

\* The socket takes a piece, or refuses it: send fails, its loop ends.
TcpWrite ==
    /\ writing # <<>>
    /\ LET bytes == Head(writing) IN
       \/ /\ ~broken
          /\ \E n \in 1..Len(bytes) :
               /\ link' = link \o SubSeq(bytes, 1, n)
               /\ writing' = IF n = Len(bytes) THEN Tail(writing)
                             ELSE <<Rest(bytes, n)>> \o Tail(writing)
       \/ /\ broken
          /\ writing' = <<>>
          /\ UNCHANGED link
    /\ UNCHANGED <<sent, received, failed, sender, broken, reading>>

\* run() has returned, perhaps in the middle of a send, and the socket is
\* dropped.
TcpDrop ==
    /\ sender /\ sender' = FALSE
    /\ broken' = (broken \/ writing # <<>>)
    /\ writing' = <<>>
    /\ UNCHANGED <<sent, received, failed, link, reading>>

\* recv reads a byte of the length.
TcpReadPrefix ==
    /\ ~failed /\ reading.phase = "prefix" /\ link # <<>>
    /\ reading' = [reading EXCEPT
           !.length = @ + (Head(link) % Continue) * 2^reading.shift,
           !.shift  = @ + Group,
           !.phase  = IF Head(link) < Continue THEN "data" ELSE @]
    /\ link' = Tail(link)
    /\ UNCHANGED <<sent, received, failed, sender, broken, writing>>

\* read_exact of the packet takes a piece; with the last one recv returns.
TcpReadData ==
    /\ ~failed /\ reading.phase = "data" /\ link # <<>>
    /\ \E n \in 1..Min({Len(link), reading.length - Len(reading.data)}) :
         LET data == reading.data \o SubSeq(link, 1, n) IN
         /\ link' = Rest(link, n)
         /\ IF Len(data) = reading.length
              THEN reading' = AtPrefix /\ received' = Append(received, data)
              ELSE reading' = [reading EXCEPT !.data = data] /\ UNCHANGED received
    /\ UNCHANGED <<sent, failed, sender, broken, writing>>

\* The end of the connection is an error, between packets or within one.
TcpReadFails ==
    /\ ~failed /\ link = <<>> /\ (broken \/ ~sender)
    /\ failed' = TRUE
    /\ UNCHANGED <<sent, received, sender, broken, link, tcpVars>>

TcpWriter == TcpDrop \/ \E p \in Packets : TcpSend(p)
TcpReader == TcpReadPrefix \/ TcpReadData \/ TcpReadFails
=============================================================================

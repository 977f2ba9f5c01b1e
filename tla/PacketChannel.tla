---------------------------- MODULE PacketChannel ----------------------------
(***************************************************************************)
(* What PacketClient and PacketServer ask of a transport                   *)
(* (doc/rpc_transport.md:36): "reliable, ordered delivery of complete      *)
(* messages".  Packets arrive whole, once and in order; recv fails when    *)
(* the connection broke, or when the sender closed it and everything it    *)
(* sent was received.  Nothing is received after recv failed.              *)
(***************************************************************************)
EXTENDS Naturals, Sequences

CONSTANT Packets

VARIABLES
    sent,      \* the packets given to send
    received,  \* the packets recv returned
    failed,    \* recv returned an error
    state      \* of the connection: "open", "closed" by its sender, "broken"

vars == <<sent, received, failed, state>>

Init ==
    /\ sent = <<>> /\ received = <<>>
    /\ failed = FALSE
    /\ state = "open"

\* A sender may not have noticed that its connection broke.
Send(p) ==
    /\ state # "closed"
    /\ sent' = Append(sent, p)
    /\ UNCHANGED <<received, failed, state>>

Receive ==
    /\ ~failed /\ Len(received) < Len(sent)
    /\ received' = Append(received, sent[Len(received) + 1])
    /\ UNCHANGED <<sent, failed, state>>

Close ==
    /\ state = "open" /\ state' = "closed"
    /\ UNCHANGED <<sent, received, failed>>

Break ==
    /\ state # "broken" /\ state' = "broken"
    /\ UNCHANGED <<sent, received, failed>>

Fail ==
    /\ ~failed /\ failed' = TRUE
    /\ state = "broken" \/ (state = "closed" /\ received = sent)
    /\ UNCHANGED <<sent, received, state>>

Next == Receive \/ Close \/ Break \/ Fail \/ \E p \in Packets : Send(p)

Spec == Init /\ [][Next]_vars
=============================================================================

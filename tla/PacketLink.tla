----------------------------- MODULE PacketLink -----------------------------
(***************************************************************************)
(* One direction of the connection under a PacketTransport, and what was   *)
(* given to send at its one end and returned by recv at its other.  The    *)
(* connection is a TCP stream of bytes, or WebSocket frames over one:      *)
(* nothing is reordered or duplicated; when it breaks, the end of what is  *)
(* under way is lost.                                                      *)
(***************************************************************************)
EXTENDS Leb128

CONSTANTS
    Packets,   \* packets, as sequences of bytes: never empty, as each begins with
               \* the type of its message, and of a length that is a u64
    MaxSent    \* bound: packets sent on the connection

ASSUME PacketAssumption ==
    /\ \A p \in Packets : p \in Seq(0..(2 * Continue - 1)) /\ Len(p) \in 1..(2^Bits64 - 1)
    /\ MaxSent \in Nat

VARIABLES
    sent,      \* the packets given to send
    received,  \* the packets recv returned
    failed,    \* recv returned an error: its loop ends
    sender,    \* whether the sender's transport is still there
    broken,    \* whether the connection broke
    link       \* bytes or frames under way

linkVars == <<sent, received, failed, sender, broken, link>>

LinkInit ==
    /\ sent = <<>> /\ received = <<>>
    /\ failed = FALSE
    /\ sender = TRUE /\ broken = FALSE
    /\ link = <<>>

\* The connection breaks.
Cut ==
    /\ ~broken /\ broken' = TRUE
    /\ \E n \in 0..Len(link) : link' = SubSeq(link, 1, n)
    /\ UNCHANGED <<sent, received, failed, sender>>
=============================================================================

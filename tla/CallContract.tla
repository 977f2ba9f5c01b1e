---------------------------- MODULE CallContract ----------------------------
(***************************************************************************)
(* What a remote call promises its caller, whatever carries it: the caller *)
(* gets the outcomes that the service method of this very call produced,   *)
(* in order, each once and none skipped; and as long as the connection is  *)
(* up it is told that a stream is over only when the method returned and   *)
(* every item was read.                                                    *)
(***************************************************************************)
EXTENDS Naturals, Sequences

CONSTANTS Calls, Outcomes, Closed, Down

VARIABLES
    made,  \* per call, the outcomes its service method produced
    got,   \* per call, what its caller's awaits returned
    up     \* whether the caller's end of the connection is up

vars == <<made, got, up>>

\* An outcome that is not an item is the last one.
Over(q) == q # <<>> /\ q[Len(q)].type # "item"

\* StreamReceiver reports the end of a stream as an error.
Seen(o) == IF o.type = "end" THEN Closed ELSE o

Init ==
    /\ made = [i \in Calls |-> <<>>]
    /\ got  = [i \in Calls |-> <<>>]
    /\ up   = TRUE

Produce(i, o) ==
    /\ ~Over(made[i])
    /\ made' = [made EXCEPT ![i] = Append(@, o)]
    /\ UNCHANGED <<got, up>>

Get(i) ==
    /\ ~Over(got[i]) /\ Len(got[i]) < Len(made[i])
    /\ got' = [got EXCEPT ![i] = Append(@, Seen(made[i][Len(@) + 1]))]
    /\ UNCHANGED <<made, up>>

Break ==
    /\ up /\ up' = FALSE
    /\ UNCHANGED <<made, got>>

\* Once the connection is down a caller may be told so, or told that the
\* stream is closed.
Fail(i) ==
    /\ ~up /\ ~Over(got[i])
    /\ \E o \in {Down, Closed} : got' = [got EXCEPT ![i] = Append(@, o)]
    /\ UNCHANGED <<made, up>>

Next ==
    \/ \E i \in Calls : Get(i) \/ Fail(i) \/ \E o \in Outcomes : Produce(i, o)
    \/ Break

Spec == Init /\ [][Next]_vars
=============================================================================

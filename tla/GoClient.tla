------------------------------ MODULE GoClient ------------------------------
(***************************************************************************)
(* PacketClient of runtime-go/rpc.go.                                      *)
(*                                                                         *)
(* Goroutines are preemptive: a step is one critical section, one channel  *)
(* operation or one Send of the transport.  The goroutines are the callers *)
(* (CallUnary, CallStream, and the StreamReceiver, which one goroutine at  *)
(* a time uses) and the receive loop of Run.                               *)
(*                                                                         *)
(* The peer answers requests it was sent, with the messages doc/           *)
(* rpc_transport.md allows for their kind of call.                         *)
(***************************************************************************)
EXTENDS Naturals, Sequences, FiniteSets

CONSTANTS
    MaxCalls,   \* bound: calls made on one connection
    MaxItems,   \* bound: items the peer sends in a stream
    StreamCap   \* capacity of a stream's channel (16 in the code)

ASSUME GoClientAssumption ==
    MaxCalls \in Nat /\ MaxItems \in Nat /\ StreamCap \in Nat \ {0}

Ids   == 1..MaxCalls
Kinds == {"unary", "stream"}

\* The payload of an item is its number in the stream.
ServerMsg == [type : {"response", "item", "end", "error"}, id : Ids,
              body : 0..MaxItems]

(***************************************************************************)
(* What a call or a Recv returns, and what is put into a channel: "closed" *)
(* is ErrStreamClosed, "down" the error Run or Send failed with, "ctx" the *)
(* error of the caller's context.                                          *)
(***************************************************************************)
Value == [type : {"none", "ok", "item", "error", "closed", "down", "ctx"},
          body : 0..MaxItems]

Plain(t) == [type |-> t, body |-> 0]
None     == Plain("none")
Closed   == Plain("closed")
Down     == Plain("down")

VARIABLES
    next_id,   \* nextID
    entering,  \* calls of a kind that have passed the check of recvErr and
               \* not yet taken an id
    pending,   \* the keys of the pending map
    kind,      \* which call an id was allocated by
    phase,     \* how far the caller's goroutine has got
    ctx,       \* the caller's context
    result,    \* what the caller was last told
    stopped,   \* the receivers whose cancelFunc was taken
    resp,      \* respChan of a unary call
    errc,      \* errChan of a unary call
    events,    \* streamChan of a stream
    recvErr,   \* whether recvErr is set
    loop,      \* how far the goroutine of Run has got
    hand,      \* the message the loop is handling
    asked,     \* the ids whose REQUEST was sent
    given_up,  \* the ids whose CANCEL was sent
    over       \* the ids the peer has sent the last message for

callVars == <<next_id, entering, kind>>
chanVars == <<resp, errc, events>>
loopVars == <<recvErr, loop, hand, over>>
wireVars == <<asked, given_up>>
vars == <<next_id, entering, pending, kind, phase, ctx, result, stopped, resp,
          errc, events, recvErr, loop, hand, asked, given_up, over>>

Idle == [type |-> "none", id |-> 0, body |-> 0]

TypeOK ==
    /\ next_id \in 1..(MaxCalls + 1)
    /\ entering \in [Kinds -> 0..MaxCalls]
    /\ pending \in SUBSET Ids
    /\ kind    \in [Ids -> Kinds]
    /\ phase   \in [Ids -> {"unused", "sending", "failed", "waiting", "open",
                            "cancelling", "leaving", "done"}]
    /\ ctx     \in [Ids -> {"live", "done"}]
    /\ result  \in [Ids -> Value]
    /\ stopped \in SUBSET Ids
    /\ resp    \in [Ids -> Seq(Value)]
    /\ errc    \in [Ids -> Seq(Value)]
    /\ events  \in [Ids -> Seq(Value)]
    /\ \A i \in Ids : /\ Len(resp[i]) <= 1 /\ Len(errc[i]) <= 1
                      /\ Len(events[i]) <= StreamCap
    /\ recvErr \in BOOLEAN
    /\ loop    \in {"new", "receiving", "handling", "unlisting", "failing",
                    "exited"}
    /\ hand    \in ServerMsg \cup {Idle}
    /\ asked \in SUBSET Ids /\ given_up \in SUBSET Ids /\ over \in SUBSET Ids

Init ==
    /\ next_id = 1
    /\ entering = [k \in Kinds |-> 0]
    /\ pending = {}
    /\ kind    = [i \in Ids |-> "unary"]
    /\ phase   = [i \in Ids |-> "unused"]
    /\ ctx     = [i \in Ids |-> "live"]
    /\ result  = [i \in Ids |-> None]
    /\ stopped = {}
    /\ resp    = [i \in Ids |-> <<>>]
    /\ errc    = [i \in Ids |-> <<>>]
    /\ events  = [i \in Ids |-> <<>>]
    /\ recvErr = FALSE
    /\ loop    = "new"
    /\ hand    = Idle
    /\ asked = {} /\ given_up = {} /\ over = {}

-----------------------------------------------------------------------------
(***************************************************************************)
(* Callers.                                                                *)
(***************************************************************************)

\* The head of CallUnary and CallStream, under recvErrMu.  (With recvErr set
\* the call returns at once.)
CheckErr(k) ==
    /\ next_id + entering["unary"] + entering["stream"] <= MaxCalls
    /\ ~recvErr
    /\ entering' = [entering EXCEPT ![k] = @ + 1]
    /\ UNCHANGED <<next_id, pending, kind, phase, ctx, result, stopped,
                   chanVars, loopVars, wireVars>>

\* Under mu: take an id and register the call.
Register(k) ==
    /\ entering[k] > 0
    /\ entering' = [entering EXCEPT ![k] = @ - 1]
    /\ next_id' = next_id + 1
    /\ kind' = [kind EXCEPT ![next_id] = k]
    /\ pending' = pending \cup {next_id}
    /\ phase' = [phase EXCEPT ![next_id] = "sending"]
    /\ UNCHANGED <<ctx, result, stopped, chanVars, loopVars, wireVars>>

\* transport.Send puts the REQUEST on the wire: the peer may answer before
\* Send returns.
WriteRequest(i) ==
    /\ phase[i] = "sending" /\ i \notin asked
    /\ asked' = asked \cup {i}
    /\ UNCHANGED <<callVars, pending, phase, ctx, result, stopped, chanVars,
                   loopVars, given_up>>

\* Send returns.
SendRequest(i) ==
    /\ phase[i] = "sending"
    /\ \/ /\ i \in asked
          /\ phase' = [phase EXCEPT ![i] = IF kind[i] = "unary"
                                             THEN "waiting" ELSE "open"]
       \/ /\ i \notin asked
          /\ phase' = [phase EXCEPT ![i] = "failed"]
    /\ UNCHANGED <<callVars, pending, ctx, result, stopped, chanVars, loopVars,
                   wireVars>>

\* The call returns the error of Send.
SendFailed(i) ==
    /\ phase[i] = "failed"
    /\ pending' = pending \ {i}
    /\ phase' = [phase EXCEPT ![i] = "done"]
    /\ result' = [result EXCEPT ![i] = Down]
    /\ UNCHANGED <<callVars, ctx, stopped, chanVars, loopVars, wireVars>>

\* Mutant of UnaryDone: the context is looked at when an answer arrives.
UnaryDoneLate(i) ==
    /\ phase[i] = "waiting" /\ ctx[i] = "done"
    /\ resp[i] # <<>> \/ errc[i] # <<>>
    /\ phase' = [phase EXCEPT ![i] = "cancelling"]
    /\ result' = [result EXCEPT ![i] = Plain("ctx")]
    /\ UNCHANGED <<callVars, pending, ctx, stopped, chanVars, loopVars,
                   wireVars>>

\* The select of CallUnary: whatever is ready, in no particular order.
UnaryDone(i) ==
    /\ phase[i] = "waiting" /\ ctx[i] = "done"
    /\ phase' = [phase EXCEPT ![i] = "cancelling"]
    /\ result' = [result EXCEPT ![i] = Plain("ctx")]
    /\ UNCHANGED <<callVars, pending, ctx, stopped, chanVars, loopVars,
                   wireVars>>

UnaryResponse(i) ==
    /\ phase[i] = "waiting" /\ resp[i] # <<>>
    /\ resp' = [resp EXCEPT ![i] = <<>>]
    /\ result' = [result EXCEPT ![i] = Head(resp[i])]
    /\ phase' = [phase EXCEPT ![i] = "leaving"]
    /\ UNCHANGED <<callVars, pending, ctx, stopped, errc, events, loopVars,
                   wireVars>>

UnaryError(i) ==
    /\ phase[i] = "waiting" /\ errc[i] # <<>>
    /\ errc' = [errc EXCEPT ![i] = <<>>]
    /\ result' = [result EXCEPT ![i] = Head(errc[i])]
    /\ phase' = [phase EXCEPT ![i] = "done"]
    /\ UNCHANGED <<callVars, pending, ctx, stopped, resp, events, loopVars,
                   wireVars>>

\* StreamReceiver.Recv: a select between the context and the channel.
RecvDone(i) ==
    /\ phase[i] = "open" /\ ctx[i] = "done"
    /\ result' = [result EXCEPT ![i] = Plain("ctx")]
    /\ IF i \in stopped THEN UNCHANGED phase
                        ELSE phase' = [phase EXCEPT ![i] = "cancelling"]
    /\ UNCHANGED <<callVars, pending, ctx, stopped, chanVars, loopVars,
                   wireVars>>

RecvItem(i) ==
    /\ phase[i] = "open" /\ events[i] # <<>>
    /\ result' = [result EXCEPT ![i] = Head(events[i])]
    /\ events' = [events EXCEPT ![i] = Tail(@)]
    /\ UNCHANGED <<callVars, pending, phase, ctx, stopped, resp, errc,
                   loopVars, wireVars>>

\* StreamReceiver.Cancel.
CancelStream(i) ==
    /\ phase[i] = "open" /\ i \notin stopped
    /\ phase' = [phase EXCEPT ![i] = "cancelling"]
    /\ UNCHANGED <<callVars, pending, ctx, result, stopped, chanVars, loopVars,
                   wireVars>>

\* sendCancel: its Send may fail, and nobody is told.
SendCancel(i) ==
    /\ phase[i] = "cancelling"
    /\ given_up' \in {given_up, given_up \cup {i}}
    /\ phase' = [phase EXCEPT ![i] = "leaving"]
    /\ UNCHANGED <<callVars, pending, ctx, result, stopped, chanVars, loopVars,
                   asked>>

\* Mutant of Leave: the entry stays in the map.
LeaveListed(i) ==
    /\ phase[i] = "leaving"
    /\ \/ /\ kind[i] = "unary"
          /\ phase' = [phase EXCEPT ![i] = "done"]
          /\ UNCHANGED stopped
       \/ /\ kind[i] = "stream"
          /\ phase' = [phase EXCEPT ![i] = "open"]
          /\ stopped' = stopped \cup {i}
    /\ UNCHANGED <<callVars, pending, ctx, result, chanVars, loopVars, wireVars>>

\* Under mu: the caller takes its entry out of the map, after a response or
\* a cancellation.  A receiver may be read on; its cancelFunc is gone.
Leave(i) ==
    /\ phase[i] = "leaving"
    /\ pending' = pending \ {i}
    /\ \/ /\ kind[i] = "unary"
          /\ phase' = [phase EXCEPT ![i] = "done"]
          /\ UNCHANGED stopped
       \/ /\ kind[i] = "stream"
          /\ phase' = [phase EXCEPT ![i] = "open"]
          /\ stopped' = stopped \cup {i}
    /\ UNCHANGED <<callVars, ctx, result, chanVars, loopVars, wireVars>>

\* The application cancels a call's context, or its deadline passes.
CtxDone(i) ==
    /\ phase[i] \notin {"unused", "done"} /\ ctx[i] = "live"
    /\ ctx' = [ctx EXCEPT ![i] = "done"]
    /\ UNCHANGED <<callVars, pending, phase, result, stopped, chanVars,
                   loopVars, wireVars>>

-----------------------------------------------------------------------------
(***************************************************************************)
(* The receive loop.                                                       *)
(***************************************************************************)

\* select with a default case: what does not fit into the channel is lost.
Offer(chan, v, cap) == IF Len(chan) < cap THEN Append(chan, v) ELSE chan

\* What the loop makes of a message.
Outcome(m) == [type |-> CASE m.type = "response" -> "ok"
                          [] m.type = "end" -> "closed"
                          [] OTHER -> m.type,
               body |-> m.body]

\* The messages a peer may send next.
Fits(m) ==
    /\ m.id \in asked \ over
    /\ m.type \in IF kind[m.id] = "unary" THEN {"response", "error"}
                                          ELSE {"item", "end", "error"}
    /\ m.body = 0 \/ m.type = "item"

RunStart ==
    /\ loop = "new"
    /\ loop' = "receiving"
    /\ UNCHANGED <<callVars, pending, phase, ctx, result, stopped, chanVars,
                   recvErr, hand, over, wireVars>>

\* Recv returns a message, and the entry of its call is looked up under mu.
Receive(m) ==
    /\ loop = "receiving"
    /\ over' = IF m.type = "item" THEN over ELSE over \cup {m.id}
    /\ IF m.id \in pending THEN loop' = "handling" /\ hand' = m
                            ELSE UNCHANGED <<loop, hand>>
    /\ UNCHANGED <<callVars, pending, phase, ctx, result, stopped, chanVars,
                   recvErr, wireVars>>

\* Only STREAM_END and ERROR have more to do.
Handled ==
    \/ /\ hand.type \in {"end", "error"}
       /\ loop' = "unlisting" /\ UNCHANGED hand
    \/ /\ hand.type \in {"response", "item"}
       /\ loop' = "receiving" /\ hand' = Idle

\* Mutant of Handle: every ERROR is taken for one of a stream.
HandleAsStream ==
    /\ loop = "handling"
    /\ \/ /\ hand.type = "response"
          /\ resp' = [resp EXCEPT ![hand.id] = Offer(@, Outcome(hand), 1)]
          /\ UNCHANGED <<errc, events>>
       \/ /\ hand.type # "response"
          /\ events' = [events EXCEPT ![hand.id] =
                            Offer(@, Outcome(hand), StreamCap)]
          /\ UNCHANGED <<resp, errc>>
    /\ Handled
    /\ UNCHANGED <<callVars, pending, phase, ctx, result, stopped, recvErr,
                   over, wireVars>>

\* The message goes into the call's channel, without the lock.
Handle ==
    /\ loop = "handling"
    /\ \/ /\ hand.type = "response"
          /\ resp' = [resp EXCEPT ![hand.id] = Offer(@, Outcome(hand), 1)]
          /\ UNCHANGED <<errc, events>>
       \/ /\ hand.type = "error" /\ kind[hand.id] = "unary"
          /\ errc' = [errc EXCEPT ![hand.id] = Offer(@, Outcome(hand), 1)]
          /\ UNCHANGED <<resp, events>>
       \/ /\ kind[hand.id] = "stream"
          /\ events' = [events EXCEPT ![hand.id] =
                            Offer(@, Outcome(hand), StreamCap)]
          /\ UNCHANGED <<resp, errc>>
    /\ Handled
    /\ UNCHANGED <<callVars, pending, phase, ctx, result, stopped, recvErr,
                   over, wireVars>>

\* STREAM_END and ERROR end a call: its entry goes, under mu.
Unlist ==
    /\ loop = "unlisting"
    /\ pending' = pending \ {hand.id}
    /\ loop' = "receiving" /\ hand' = Idle
    /\ UNCHANGED <<callVars, phase, ctx, result, stopped, chanVars, recvErr,
                   over, wireVars>>

\* Recv failed, or the context of Run is done: recvErr is set, under its own
\* lock.
Fail ==
    /\ loop = "receiving"
    /\ recvErr' = TRUE
    /\ loop' = "failing"
    /\ UNCHANGED <<callVars, pending, phase, ctx, result, stopped, chanVars,
                   hand, over, wireVars>>

\* Under mu: every registered call is told; Run returns.
NotifyAll ==
    /\ loop = "failing"
    /\ errc' = [i \in Ids |-> IF i \in pending /\ kind[i] = "unary"
                                THEN Offer(errc[i], Down, 1) ELSE errc[i]]
    /\ events' = [i \in Ids |-> IF i \in pending /\ kind[i] = "stream"
                                  THEN Offer(events[i], Down, StreamCap)
                                  ELSE events[i]]
    /\ loop' = "exited"
    /\ UNCHANGED <<callVars, pending, phase, ctx, result, stopped, resp,
                   recvErr, hand, over, wireVars>>
-----------------------------------------------------------------------------
Calling == \E k \in Kinds : CheckErr(k) \/ Register(k)

Caller(i) ==
    \/ WriteRequest(i) \/ SendRequest(i) \/ SendFailed(i)
    \/ UnaryDone(i) \/ UnaryResponse(i) \/ UnaryError(i)
    \/ RecvDone(i) \/ RecvItem(i)
    \/ SendCancel(i) \/ Leave(i)

Abandon(i) == CancelStream(i) \/ CtxDone(i)

Run == RunStart \/ Handle \/ Unlist \/ NotifyAll

Next ==
    \/ Calling \/ Run \/ Fail
    \/ \E i \in Ids : Caller(i) \/ Abandon(i)
    \/ \E m \in ServerMsg : Fits(m) /\ Receive(m)

Spec == Init /\ [][Next]_vars

(***************************************************************************)
(* Runnable goroutines run, and the transport's Send returns, be it with   *)
(* an error.  Nothing obliges the application to read a stream or to give  *)
(* up a call, nor the peer to answer.                                      *)
(***************************************************************************)
UnaryStep(i) ==
    \/ UnaryDone(i) \/ UnaryResponse(i) \/ UnaryError(i)
    \/ SendCancel(i) \/ Leave(i)

Fairness ==
    /\ WF_vars(Run)
    /\ \A i \in Ids : WF_vars(UnaryStep(i))

FairSpec == Spec /\ Fairness

-----------------------------------------------------------------------------
(***************************************************************************)
(* Properties.                                                             *)
(***************************************************************************)
Answered(i) == resp[i] # <<>> \/ errc[i] # <<>>

\* The last message of a unary call finds its caller, although callers and
\* the loop look the call up, write to its channels and take it out of the
\* map in separate critical sections.
AnswersAreKept ==
    \A i \in over : phase[i] = "waiting" /\ hand.id # i => Answered(i)

\* While the client runs the map holds calls in progress only: one that
\* returned, was cancelled, or whose stream has ended is out of it, at the
\* latest when the loop is done with its last message.
CallsAreForgotten ==
    loop \in {"receiving", "handling", "unlisting"} =>
        \A i \in pending :
            \/ hand.id = i
            \/ /\ phase[i] # "done" /\ i \notin stopped
               /\ kind[i] = "stream" => i \notin over

\* A unary call returns when its context is done, whatever it and the loop
\* are about to do.
ContextEndsCalls ==
    \A i \in Ids : (phase[i] = "waiting" /\ ctx[i] = "done")
                        ~> (phase[i] = "done")
=============================================================================

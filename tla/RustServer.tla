----------------------------- MODULE RustServer -----------------------------
(***************************************************************************)
(* PacketServer of runtime-rust/src/rpc.rs, with the handle_call that      *)
(* volexc/src/codegen_rust.rs generates, the StreamSenderBase a streaming  *)
(* handler writes to and the task that forwards what it writes.            *)
(*                                                                         *)
(* As in RustClient a step is what one future does between two awaits.     *)
(* The futures are the two loops of run(), one handler per call (run by    *)
(* spawn_cancellable) and one forwarder per streaming call.                *)
(*                                                                         *)
(* The peer may send CANCEL for any call at any time, and REQUEST at most  *)
(* once per call id (PacketClient counts its ids up).  A service method is *)
(* the application's code: it may take any time, yield any items and       *)
(* return or fail at will; it does not panic, and keeps its StreamSender   *)
(* to itself.                                                              *)
(***************************************************************************)
EXTENDS Naturals, Sequences, FiniteSets

CONSTANTS
    MaxCalls,   \* bound: calls made on one connection
    MaxItems,   \* bound: items one handler yields
    OutCap,     \* capacity of the outgoing packet queue (64 in the code)
    ItemCap     \* capacity of a stream sender's queue (16 in the code)

ASSUME ServerAssumption ==
    /\ MaxCalls \in Nat /\ MaxItems \in Nat
    /\ OutCap \in Nat \ {0} /\ ItemCap \in Nat \ {0}

Calls == 1..MaxCalls
Kinds == {"unary", "stream"}

\* Messages the server writes.  The payload of an item is its number in the
\* stream, that of a response 0: it tells lost and reordered items apart.
Msg == [type : {"response", "item", "end", "error"}, id : Calls,
        body : 0..MaxItems]

M(t, i, b) == [type |-> t, id |-> i, body |-> b]

VARIABLES
    cancel_txs, \* the ids that have a cancel sender in the map
    signal,     \* what a handler's cancel_rx would yield
    method,     \* the kind of method a call names
    handler,    \* how far the handler's future has got
    reply,      \* the reply a unary handler is sending, as a sequence
    items,      \* how many items a handler has handed to its stream
    sq,         \* content of a stream sender's queue
    fwd,        \* state of a stream's forwarder
    held,       \* the message a forwarder is sending, as a sequence
    refusal,    \* the decode error the receive loop is sending
    outq,       \* the outgoing packet queue
    srv,        \* state of run(), and of the PacketServer
    s2c         \* what was written to the connection

callVars   == <<cancel_txs, signal, method>>
streamVars == <<items, sq, fwd, held>>
vars == <<cancel_txs, signal, method, handler, reply, items, sq, fwd, held,
          refusal, outq, srv, s2c>>

TypeOK ==
    /\ cancel_txs \in SUBSET Calls
    /\ signal  \in [Calls -> {"none", "armed", "fired"}]
    /\ method  \in [Calls -> Kinds]
    /\ handler \in [Calls -> {"none", "refused", "spawned", "working",
                      "replying", "streaming", "failing", "done", "cancelled"}]
    /\ reply   \in [Calls -> Seq(Msg)]
    /\ items   \in [Calls -> 0..MaxItems]
    /\ sq      \in [Calls -> Seq(Msg)]
    /\ fwd     \in [Calls -> {"none", "running", "done"}]
    /\ held    \in [Calls -> Seq(Msg)]
    /\ refusal \in Seq(Msg)
    /\ outq    \in Seq(Msg)
    /\ srv     \in {"new", "running", "exited", "dropped"}
    /\ s2c     \in Seq(Msg)
    /\ Len(outq) <= OutCap
    /\ \A i \in Calls : Len(sq[i]) <= ItemCap

Init ==
    /\ cancel_txs = {}
    /\ signal  = [i \in Calls |-> "none"]
    /\ method  = [i \in Calls |-> "unary"]
    /\ handler = [i \in Calls |-> "none"]
    /\ reply   = [i \in Calls |-> <<>>]
    /\ items   = [i \in Calls |-> 0]
    /\ sq      = [i \in Calls |-> <<>>]
    /\ fwd     = [i \in Calls |-> "none"]
    /\ held    = [i \in Calls |-> <<>>]
    /\ refusal = <<>>
    /\ outq    = <<>>
    /\ srv     = "new"
    /\ s2c     = <<>>

-----------------------------------------------------------------------------
(***************************************************************************)
(* The outgoing queue.  Its receiving end lives in run().                  *)
(***************************************************************************)
OutRoom == srv \in {"new", "running"} /\ Len(outq) < OutCap
OutGone == srv \in {"exited", "dropped"}

-----------------------------------------------------------------------------
(***************************************************************************)
(* run().                                                                  *)
(***************************************************************************)
RunStart ==
    /\ srv = "new"
    /\ srv' = "running"
    /\ UNCHANGED <<callVars, handler, reply, streamVars, refusal, outq, s2c>>

Receiving == srv = "running" /\ refusal = <<>>

\* REQUEST with a method index that does not decode: the receive loop sends
\* the error itself, and receives nothing until the queue has room.
RecvBadRequest(i) ==
    /\ Receiving /\ handler[i] = "none"
    /\ handler' = [handler EXCEPT ![i] = "refused"]
    /\ refusal' = <<M("error", i, 0)>>
    /\ UNCHANGED <<callVars, reply, streamVars, outq, srv, s2c>>

SendRefusal ==
    /\ refusal # <<>> /\ OutRoom
    /\ outq' = outq \o refusal
    /\ refusal' = <<>>
    /\ UNCHANGED <<callVars, handler, reply, streamVars, srv, s2c>>

\* Mutant of RecvRequest: the cancel sender is kept out of the map.
RecvRequestUnlisted(i, k) ==
    /\ Receiving /\ handler[i] = "none"
    /\ signal'  = [signal EXCEPT ![i] = "armed"]
    /\ method'  = [method EXCEPT ![i] = k]
    /\ handler' = [handler EXCEPT ![i] = "spawned"]
    /\ UNCHANGED <<cancel_txs, reply, streamVars, refusal, outq, srv, s2c>>

RecvRequest(i, k) ==
    /\ Receiving /\ handler[i] = "none"
    /\ cancel_txs' = cancel_txs \cup {i}
    /\ signal'  = [signal EXCEPT ![i] = "armed"]
    /\ method'  = [method EXCEPT ![i] = k]
    /\ handler' = [handler EXCEPT ![i] = "spawned"]
    /\ UNCHANGED <<reply, streamVars, refusal, outq, srv, s2c>>

RecvCancel(i) ==
    /\ Receiving
    /\ \/ /\ i \in cancel_txs
          /\ cancel_txs' = cancel_txs \ {i}
          /\ signal' = [signal EXCEPT ![i] = "fired"]
       \/ /\ i \notin cancel_txs
          /\ UNCHANGED <<cancel_txs, signal>>
    /\ UNCHANGED <<method, handler, reply, streamVars, refusal, outq, srv,
                   s2c>>

TxLoop ==
    /\ srv = "running" /\ outq # <<>>
    /\ outq' = Tail(outq)
    /\ s2c' = Append(s2c, Head(outq))
    /\ UNCHANGED <<callVars, handler, reply, streamVars, refusal, srv>>

\* The transport failed, or the future was dropped.
RunExit ==
    /\ srv = "running"
    /\ srv' = "exited"
    /\ refusal' = <<>>
    /\ outq' = <<>>
    /\ UNCHANGED <<callVars, handler, reply, streamVars, s2c>>

\* Mutant of DropServer: a vanished sender cancels nothing.
DropServerOnly ==
    /\ srv = "exited"
    /\ srv' = "dropped"
    /\ cancel_txs' = {}
    /\ UNCHANGED <<signal, method, handler, reply, streamVars, refusal, outq,
                   s2c>>

\* The PacketServer is dropped, and every cancel sender with it.  The
\* select of spawn_cancellable takes a vanished sender for a CANCEL.
DropServer ==
    /\ srv = "exited"
    /\ srv' = "dropped"
    /\ signal' = [i \in Calls |-> IF i \in cancel_txs THEN "fired"
                                                     ELSE signal[i]]
    /\ cancel_txs' = {}
    /\ UNCHANGED <<method, handler, reply, streamVars, refusal, outq, s2c>>

-----------------------------------------------------------------------------
(***************************************************************************)
(* Handlers: the generated handle_call under spawn_cancellable.            *)
(***************************************************************************)

\* Up to the first await: an unknown method and a request that does not
\* decode are answered with an error; else the application's method starts.
StartHandler(i) ==
    /\ handler[i] = "spawned"
    /\ \/ /\ handler' = [handler EXCEPT ![i] = "replying"]
          /\ reply' = [reply EXCEPT ![i] = <<M("error", i, 0)>>]
          /\ UNCHANGED fwd
       \/ /\ method[i] = "unary"
          /\ handler' = [handler EXCEPT ![i] = "working"]
          /\ UNCHANGED <<reply, fwd>>
       \/ /\ method[i] = "stream"
          /\ handler' = [handler EXCEPT ![i] = "streaming"]
          /\ fwd' = [fwd EXCEPT ![i] = "running"]
          /\ UNCHANGED reply
    /\ UNCHANGED <<callVars, items, sq, held, refusal, outq, srv, s2c>>

\* A unary method returns a response or an error.
ReturnUnary(i) ==
    /\ handler[i] = "working"
    /\ handler' = [handler EXCEPT ![i] = "replying"]
    /\ \E t \in {"response", "error"} :
           reply' = [reply EXCEPT ![i] = <<M(t, i, 0)>>]
    /\ UNCHANGED <<callVars, streamVars, refusal, outq, srv, s2c>>

\* Mutant of SendReply: try_send.
TrySendReply(i) ==
    /\ handler[i] = "replying"
    /\ IF OutRoom THEN outq' = outq \o reply[i] ELSE UNCHANGED outq
    /\ reply' = [reply EXCEPT ![i] = <<>>]
    /\ handler' = [handler EXCEPT ![i] = "done"]
    /\ UNCHANGED <<callVars, streamVars, refusal, srv, s2c>>

\* out_tx.send of the reply completes, or fails.
SendReply(i) ==
    /\ handler[i] = "replying"
    /\ \/ OutRoom /\ outq' = outq \o reply[i]
       \/ OutGone /\ UNCHANGED outq
    /\ reply' = [reply EXCEPT ![i] = <<>>]
    /\ handler' = [handler EXCEPT ![i] = "done"]
    /\ UNCHANGED <<callVars, streamVars, refusal, srv, s2c>>

\* StreamSender::send completes.
SendItem(i) ==
    /\ handler[i] = "streaming" /\ items[i] < MaxItems
    /\ fwd[i] = "running" /\ Len(sq[i]) < ItemCap
    /\ items' = [items EXCEPT ![i] = @ + 1]
    /\ sq' = [sq EXCEPT ![i] = Append(@, M("item", i, items[i] + 1))]
    /\ UNCHANGED <<callVars, handler, reply, fwd, held, refusal, outq, srv,
                   s2c>>

\* Mutant of FailStream: the stream is not marked finished.
FailStreamUnfinished(i) ==
    /\ handler[i] = "streaming"
    /\ fwd[i] = "running" /\ Len(sq[i]) < ItemCap
    /\ sq' = [sq EXCEPT ![i] = Append(@, M("error", i, 0))]
    /\ UNCHANGED <<callVars, handler, reply, items, fwd, held, refusal, outq,
                   srv, s2c>>

\* StreamSender::error marks the stream finished, then sends.
FailStream(i) ==
    /\ handler[i] = "streaming"
    /\ handler' = [handler EXCEPT ![i] = "failing"]
    /\ UNCHANGED <<callVars, reply, streamVars, refusal, outq, srv, s2c>>

SendFailure(i) ==
    /\ handler[i] = "failing"
    /\ \/ /\ fwd[i] = "running" /\ Len(sq[i]) < ItemCap
          /\ sq' = [sq EXCEPT ![i] = Append(@, M("error", i, 0))]
       \/ fwd[i] = "done" /\ UNCHANGED sq
    /\ handler' = [handler EXCEPT ![i] = "done"]
    /\ UNCHANGED <<callVars, reply, items, fwd, held, refusal, outq, srv, s2c>>

\* StreamSenderBase::drop: END, if the stream is not finished and its queue
\* has room.
DropSender(i) ==
    sq' = IF handler[i] = "streaming" /\ fwd[i] = "running"
               /\ Len(sq[i]) < ItemCap
            THEN [sq EXCEPT ![i] = Append(@, M("end", i, 0))]
            ELSE sq

\* A streaming method returns.
ReturnStream(i) ==
    /\ handler[i] = "streaming"
    /\ DropSender(i)
    /\ handler' = [handler EXCEPT ![i] = "done"]
    /\ UNCHANGED <<callVars, reply, items, fwd, held, refusal, outq, srv, s2c>>

Live == {"spawned", "working", "replying", "streaming", "failing"}

\* The select of spawn_cancellable takes the cancel branch, at any await of
\* the handler, and drops its future.
CancelHandler(i) ==
    /\ signal[i] = "fired" /\ handler[i] \in Live
    /\ DropSender(i)
    /\ reply' = [reply EXCEPT ![i] = <<>>]
    /\ handler' = [handler EXCEPT ![i] = "cancelled"]
    /\ UNCHANGED <<callVars, items, fwd, held, refusal, outq, srv, s2c>>

-----------------------------------------------------------------------------
(***************************************************************************)
(* Forwarders: the task into_stream_sender spawns.  Nothing cancels it: it *)
(* drains its queue after the handler is gone.                             *)
(***************************************************************************)
ForwardTake(i) ==
    /\ fwd[i] = "running" /\ held[i] = <<>> /\ sq[i] # <<>>
    /\ held' = [held EXCEPT ![i] = <<Head(sq[i])>>]
    /\ sq' = [sq EXCEPT ![i] = Tail(@)]
    /\ UNCHANGED <<callVars, handler, reply, items, fwd, refusal, outq, srv,
                   s2c>>

\* Mutant of ForwardSend: a closed queue does not end the loop.
ForwardKeepsTrying(i) ==
    /\ held[i] # <<>> /\ OutRoom
    /\ outq' = outq \o held[i]
    /\ held' = [held EXCEPT ![i] = <<>>]
    /\ UNCHANGED <<callVars, handler, reply, items, sq, fwd, refusal, srv,
                   s2c>>

ForwardSend(i) ==
    /\ held[i] # <<>>
    /\ \/ /\ OutRoom
          /\ outq' = outq \o held[i]
          /\ UNCHANGED <<sq, fwd>>
       \/ /\ OutGone
          /\ fwd' = [fwd EXCEPT ![i] = "done"]
          /\ sq' = [sq EXCEPT ![i] = <<>>]
          /\ UNCHANGED outq
    /\ held' = [held EXCEPT ![i] = <<>>]
    /\ UNCHANGED <<callVars, handler, reply, items, refusal, srv, s2c>>

ForwardEnd(i) ==
    /\ fwd[i] = "running" /\ held[i] = <<>> /\ sq[i] = <<>>
    /\ handler[i] \in {"done", "cancelled"}
    /\ fwd' = [fwd EXCEPT ![i] = "done"]
    /\ UNCHANGED <<callVars, handler, reply, items, sq, held, refusal, outq,
                   srv, s2c>>

-----------------------------------------------------------------------------
Task(i) ==
    \/ StartHandler(i) \/ ReturnUnary(i) \/ SendReply(i)
    \/ SendItem(i) \/ FailStream(i) \/ SendFailure(i) \/ ReturnStream(i)
    \/ CancelHandler(i)
    \/ ForwardTake(i) \/ ForwardSend(i) \/ ForwardEnd(i)

Loops == RunStart \/ SendRefusal \/ TxLoop

Exit == RunExit \/ DropServer

Peer == \E i \in Calls :
    RecvBadRequest(i) \/ RecvCancel(i) \/ \E k \in Kinds : RecvRequest(i, k)

Next == Loops \/ Exit \/ Peer \/ \E i \in Calls : Task(i)

Spec == Init /\ [][Next]_vars

(***************************************************************************)
(* A woken task is polled eventually, and the connection takes what is     *)
(* written to it.  tokio hands the slots of a full queue to its waiters in *)
(* FIFO order, so that a forwarder gets one although others compete for    *)
(* it: strong fairness.  Nothing obliges a service method to return, and   *)
(* no property below needs a handler to be scheduled.                      *)
(***************************************************************************)
Fairness ==
    /\ WF_vars(TxLoop)
    /\ \A i \in Calls : /\ WF_vars(CancelHandler(i))
                       /\ WF_vars(ForwardTake(i) \/ ForwardEnd(i))
                       /\ SF_vars(ForwardSend(i))

FairSpec == Spec /\ Fairness

-----------------------------------------------------------------------------
(***************************************************************************)
(* Properties.                                                             *)
(***************************************************************************)

\* In a sequence of messages each call has one reply, or the items of a
\* stream, counted from 1, and at most one ending; nothing follows the end.
InOrder(q) == \A n \in DOMAIN q : LET m == q[n] IN
    /\ m.type \in IF method[m.id] = "unary" THEN {"response", "error"}
                                          ELSE {"item", "end", "error"}
    /\ \A k \in 1..(n - 1) : q[k].id = m.id =>
           /\ q[k].type = "item"
           /\ m.type = "item" => q[k].body < m.body
    /\ m.type = "item" /\ m.body # 1 =>
           \E k \in 1..(n - 1) : q[k] = M("item", m.id, m.body - 1)

\* What the peer reads of the calls is in order: nothing of a call follows
\* its ending and no item is lost, whatever the handler, its forwarder,
\* CANCEL and the error paths interleave to.
CallsEndOnce == InOrder(s2c)

\* On a live connection every request that was refused, and every call that
\* ran to its end without opening a stream, has its reply written or on its
\* way.
RepliesAreKept ==
    \A i \in Calls :
        /\ srv = "running" /\ fwd[i] = "none"
        /\ handler[i] \in {"done", "refused"}
        => \E n \in DOMAIN (s2c \o outq \o refusal) :
               (s2c \o outq \o refusal)[n].id = i

\* doc/rpc_transport.md "Connection closed: Implicit cancellation": no
\* handler of a dropped server keeps running.
DropStopsHandlers ==
    (srv = "dropped") ~> (\A i \in Calls : handler[i] \notin Live)

\* The forwarder of a stream whose handler is gone drains its queue and
\* ends, whether the connection stays up or not.
ForwardersEnd ==
    \A i \in Calls :
        (handler[i] \in {"done", "cancelled"}) ~> (fwd[i] # "running")
=============================================================================

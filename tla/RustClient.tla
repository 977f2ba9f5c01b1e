----------------------------- MODULE RustClient -----------------------------
(***************************************************************************)
(* PacketClient of runtime-rust/src/rpc.rs: RPC calls multiplexed over one *)
(* packet connection.                                                      *)
(*                                                                         *)
(* The client is single-threaded (Rc, RefCell, spawn_local): a step of     *)
(* this module is what one future does between two of its `.await`s.  The  *)
(* futures are the callers (call_unary, call_stream, StreamReceiver::recv),*)
(* the two loops of run(), and one cancel task per open stream.  Any       *)
(* `.await` may suspend (tokio also suspends on an exhausted budget), and  *)
(* ready futures are polled in any order, because an application may join  *)
(* or select over them as it likes.                                        *)
(*                                                                         *)
(* The peer is any program that speaks the message layer: it may send any  *)
(* server message at any time.  RustRpc closes the system.                 *)
(***************************************************************************)
EXTENDS Naturals, Sequences, FiniteSets

CONSTANTS
    MaxCalls,   \* bound: calls an application makes on one connection
    TxCap,      \* capacity of the outgoing packet queue (64 in the code)
    StreamCap,  \* capacity of a stream's event queue (16 in the code)
    Bodies,     \* payloads
    NoBody      \* the absence of a payload

ASSUME ClientAssumption ==
    /\ MaxCalls \in Nat /\ TxCap \in Nat \ {0} /\ StreamCap \in Nat \ {0}
    /\ NoBody \notin Bodies

Ids   == 1..MaxCalls
Kinds == {"unary", "stream"}

\* Packets the client writes.
Packet == [type : {"request", "cancel"}, id : Ids, kind : Kinds]

\* Messages the peer writes.
ServerMsg == [type : {"response", "item", "end", "error"}, id : Ids,
              body : Bodies \cup {NoBody}]

(***************************************************************************)
(* What a future resolves to, and what is queued for one.  "closed" is     *)
(* RpcError::stream_closed() and "down" the error "transport closed".      *)
(***************************************************************************)
Value == [type : {"none", "ok", "item", "end", "error", "closed", "down"},
          body : Bodies \cup {NoBody}]

Plain(t) == [type |-> t, body |-> NoBody]
None     == Plain("none")
Closed   == Plain("closed")
Down     == Plain("down")

VARIABLES
    next_id,  \* the next request id
    pending,  \* the ids that have an entry in the pending map
    kind,     \* which call an id was allocated by
    phase,    \* how far the caller's future has got
    result,   \* what the caller's last completed await returned
    resp,     \* content of the oneshot channel of a unary call
    events,   \* content of the event queue of a stream
    cancel,   \* state of a stream's cancel task
    run,      \* state of run()
    rx,       \* the stream event the receive loop is awaiting room for
    tx,       \* the outgoing packet queue
    c2s       \* what was written to the connection

callVars == <<next_id, kind>>
vars == <<next_id, pending, kind, phase, result, resp, events, cancel,
          run, rx, tx, c2s>>

Idle == [id |-> 0, event |-> None]

TypeOK ==
    /\ next_id \in 1..(MaxCalls + 1)
    /\ pending \in SUBSET Ids
    /\ kind   \in [Ids -> Kinds]
    /\ phase  \in [Ids -> {"unused", "sending", "waiting", "open", "done",
                           "dropped", "panicked"}]
    /\ result \in [Ids -> Value]
    /\ resp   \in [Ids -> Value]
    /\ events \in [Ids -> Seq(Value)]
    /\ cancel \in [Ids -> {"none", "armed", "signalled", "done", "panicked"}]
    /\ run    \in {"new", "running", "exited"}
    /\ rx     \in [id : 0..MaxCalls, event : Value]
    /\ tx     \in Seq(Packet)
    /\ c2s    \in Seq(Packet)
    /\ Len(tx) <= TxCap
    /\ \A i \in Ids : Len(events[i]) <= StreamCap

Init ==
    /\ next_id = 1
    /\ pending = {}
    /\ kind   = [i \in Ids |-> "unary"]
    /\ phase  = [i \in Ids |-> "unused"]
    /\ result = [i \in Ids |-> None]
    /\ resp   = [i \in Ids |-> None]
    /\ events = [i \in Ids |-> <<>>]
    /\ cancel = [i \in Ids |-> "none"]
    /\ run    = "new"
    /\ rx     = Idle
    /\ tx     = <<>>
    /\ c2s    = <<>>

-----------------------------------------------------------------------------
(***************************************************************************)
(* The receive loop keeps its RefMut of the pending map while it awaits    *)
(* room in a stream's queue.  Any other borrow_mut() panics meanwhile.     *)
(***************************************************************************)
Borrowed == rx.id # 0

Forget(i) == pending' = pending \ {i}

Request(i)  == [type |-> "request", id |-> i, kind |-> kind[i]]
Cancel(i)   == [type |-> "cancel",  id |-> i, kind |-> kind[i]]

\* Callers that await a slot of the outgoing queue; tokio may have granted
\* a slot to any number of them.
Sending == {i \in Ids : phase[i] = "sending"}

(***************************************************************************)
(* tx_send.try_send of a CANCEL, whose result the code discards: it fails  *)
(* when the queue is closed, or when its slots are taken or granted.       *)
(***************************************************************************)
TrySendCancel(i) ==
    \/ /\ run # "exited" /\ Len(tx) < TxCap
       /\ tx' = Append(tx, Cancel(i))
    \/ /\ run = "exited" \/ Len(tx) + Cardinality(Sending) >= TxCap
       /\ UNCHANGED tx

-----------------------------------------------------------------------------
(***************************************************************************)
(* Callers.                                                                *)
(***************************************************************************)

\* The head of call_unary and call_stream: allocate an id, register it.
Begin(k) ==
    /\ next_id \in Ids
    /\ next_id' = next_id + 1
    /\ kind' = [kind EXCEPT ![next_id] = k]
    /\ \/ /\ ~Borrowed
          /\ pending' = pending \cup {next_id}
          /\ phase' = [phase EXCEPT ![next_id] = "sending"]
       \/ /\ Borrowed
          /\ phase' = [phase EXCEPT ![next_id] = "panicked"]
          /\ UNCHANGED pending
    /\ UNCHANGED <<result, resp, events, cancel, run, rx, tx, c2s>>

CallUnary  == Begin("unary")
CallStream == Begin("stream")

\* tx_send.send completes.  A unary call arms its guard and awaits the
\* response; a streaming call spawns its cancel task and returns.
SendRequest(i) ==
    /\ phase[i] = "sending" /\ run # "exited" /\ Len(tx) < TxCap
    /\ tx' = Append(tx, Request(i))
    /\ \/ /\ kind[i] = "unary"
          /\ phase' = [phase EXCEPT ![i] = "waiting"]
          /\ UNCHANGED cancel
       \/ /\ kind[i] = "stream"
          /\ phase' = [phase EXCEPT ![i] = "open"]
          /\ cancel' = [cancel EXCEPT ![i] = "armed"]
    /\ UNCHANGED <<callVars, pending, result, resp, events, run, rx, c2s>>

\* tx_send.send fails: run() dropped the receiving end.
SendFailed(i) ==
    /\ phase[i] = "sending" /\ run = "exited"
    /\ Forget(i)
    /\ phase' = [phase EXCEPT ![i] = "done"]
    /\ result' = [result EXCEPT ![i] = Down]
    /\ UNCHANGED <<callVars, resp, events, cancel, run, rx, tx, c2s>>

\* Mutant of DropSending: the guard exists before the REQUEST is queued.
DropSendingGuarded(i) ==
    /\ phase[i] = "sending" /\ ~Borrowed
    /\ phase' = [phase EXCEPT ![i] = "dropped"]
    /\ events' = [events EXCEPT ![i] = <<>>]
    /\ Forget(i)
    /\ TrySendCancel(i)
    /\ UNCHANGED <<callVars, result, resp, cancel, run, rx, c2s>>

\* The call's future is dropped while it awaits a slot: no guard exists yet.
DropSending(i) ==
    /\ phase[i] = "sending"
    /\ phase' = [phase EXCEPT ![i] = "dropped"]
    /\ events' = [events EXCEPT ![i] = <<>>]
    /\ UNCHANGED <<callVars, pending, result, resp, cancel, run, rx, tx, c2s>>

\* resp_rx resolves and the guard is defused.
UnaryResult(i) ==
    /\ phase[i] = "waiting" /\ resp[i] # None
    /\ phase' = [phase EXCEPT ![i] = "done"]
    /\ result' = [result EXCEPT ![i] = resp[i]]
    /\ UNCHANGED <<callVars, pending, resp, events, cancel, run, rx, tx, c2s>>

\* Mutant of DropUnary: the guard sends CANCEL and leaves the entry.
DropUnaryKeepsEntry(i) ==
    /\ phase[i] = "waiting" /\ ~Borrowed
    /\ phase' = [phase EXCEPT ![i] = "dropped"]
    /\ TrySendCancel(i)
    /\ UNCHANGED <<callVars, pending, result, resp, events, cancel, run, rx,
                   c2s>>

\* The call's future is dropped while it awaits the response: the guard
\* removes the entry and tries to send CANCEL.
DropUnary(i) ==
    /\ phase[i] = "waiting"
    /\ \/ /\ ~Borrowed
          /\ phase' = [phase EXCEPT ![i] = "dropped"]
          /\ Forget(i)
          /\ TrySendCancel(i)
       \/ /\ Borrowed
          /\ phase' = [phase EXCEPT ![i] = "panicked"]
          /\ UNCHANGED <<pending, tx>>
    /\ UNCHANGED <<callVars, result, resp, events, cancel, run, rx, c2s>>

\* The sending half of a stream's queue lives in the pending entry, or in
\* the receive loop once END or ERROR took the entry out.
SenderGone(i) == i \notin pending /\ rx.id # i

\* StreamReceiver::recv.  End of stream and a vanished sender are the same
\* result, RpcError::stream_closed().
RecvValue(e) == IF e.type = "end" THEN Closed ELSE e

StreamRecv(i) ==
    /\ phase[i] = "open"
    /\ \/ /\ events[i] # <<>>
          /\ result' = [result EXCEPT ![i] = RecvValue(Head(events[i]))]
          /\ events' = [events EXCEPT ![i] = Tail(@)]
       \/ /\ events[i] = <<>> /\ SenderGone(i)
          /\ result' = [result EXCEPT ![i] = Closed]
          /\ UNCHANGED events
    /\ UNCHANGED <<callVars, pending, phase, resp, cancel, run, rx, tx, c2s>>

\* The StreamReceiver is dropped: it signals the cancel task, then its
\* queue closes.
DropStream(i) ==
    /\ phase[i] = "open"
    /\ phase' = [phase EXCEPT ![i] = "dropped"]
    /\ cancel' = [cancel EXCEPT ![i] = "signalled"]
    /\ events' = [events EXCEPT ![i] = <<>>]
    /\ UNCHANGED <<callVars, pending, result, resp, run, rx, tx, c2s>>

\* The task call_stream spawned.  A panic in it is swallowed by tokio.
CancelTask(i) ==
    /\ cancel[i] = "signalled"
    /\ \/ /\ ~Borrowed
          /\ cancel' = [cancel EXCEPT ![i] = "done"]
          /\ Forget(i)
          /\ TrySendCancel(i)
       \/ /\ Borrowed
          /\ cancel' = [cancel EXCEPT ![i] = "panicked"]
          /\ UNCHANGED <<pending, tx>>
    /\ UNCHANGED <<callVars, phase, result, resp, events, run, rx, c2s>>

-----------------------------------------------------------------------------
(***************************************************************************)
(* run().                                                                  *)
(***************************************************************************)
RunStart ==
    /\ run = "new"
    /\ run' = "running"
    /\ UNCHANGED <<callVars, pending, phase, result, resp, events, cancel, rx,
                   tx, c2s>>

Event(m) == [type |-> IF m.type = "response" THEN "ok" ELSE m.type,
             body |-> m.body]

ForUnary(m)  == /\ m.id \in pending /\ kind[m.id] = "unary"
                /\ m.type \in {"response", "error"}
ForStream(m) == /\ m.id \in pending /\ kind[m.id] = "stream"
                /\ m.type \in {"item", "end", "error"}

\* Mutant of Receive: the entry is taken out before the message's type is
\* compared with the call's.
ReceiveForgets(m) ==
    /\ run = "running" /\ ~Borrowed
    /\ \/ /\ ForUnary(m)
          /\ resp' = [resp EXCEPT ![m.id] = Event(m)]
          /\ UNCHANGED rx
       \/ /\ ForStream(m)
          /\ rx' = [id |-> m.id, event |-> Event(m)]
          /\ UNCHANGED resp
       \/ /\ ~ForUnary(m) /\ ~ForStream(m)
          /\ UNCHANGED <<resp, rx>>
    /\ Forget(m.id)
    /\ UNCHANGED <<callVars, phase, result, events, cancel, run, tx, c2s>>

(***************************************************************************)
(* One iteration of the receive loop, up to its last await.  A malformed   *)
(* frame, an unknown id and a type that does not fit the call are ignored. *)
(***************************************************************************)
Receive(m) ==
    /\ run = "running" /\ ~Borrowed
    /\ \/ /\ ForUnary(m)
          /\ Forget(m.id)
          /\ resp' = [resp EXCEPT ![m.id] = Event(m)]
          /\ UNCHANGED rx
       \/ /\ ForStream(m)
          /\ rx' = [id |-> m.id, event |-> Event(m)]
          /\ IF m.type = "item" THEN UNCHANGED pending ELSE Forget(m.id)
          /\ UNCHANGED resp
       \/ /\ ~ForUnary(m) /\ ~ForStream(m)
          /\ UNCHANGED <<pending, resp, rx>>
    /\ UNCHANGED <<callVars, phase, result, events, cancel, run, tx, c2s>>

\* stream_tx.send completes: with room in the queue, or with an error the
\* loop ignores when the receiver is gone.  The borrow ends.
HasReceiver(i) == phase[i] \in {"sending", "open"}

\* Mutant of Deliver: the queue has no bound.
DeliverUnbounded ==
    /\ Borrowed
    /\ events' = [events EXCEPT ![rx.id] = Append(@, rx.event)]
    /\ rx' = Idle
    /\ UNCHANGED <<callVars, pending, phase, result, resp, cancel, run, tx,
                   c2s>>

\* Mutant of Deliver: try_send, which loses the event when the queue is full.
DeliverLossy ==
    /\ Borrowed
    /\ \/ /\ HasReceiver(rx.id) /\ Len(events[rx.id]) < StreamCap
          /\ events' = [events EXCEPT ![rx.id] = Append(@, rx.event)]
       \/ /\ HasReceiver(rx.id) => Len(events[rx.id]) >= StreamCap
          /\ UNCHANGED events
    /\ rx' = Idle
    /\ UNCHANGED <<callVars, pending, phase, result, resp, cancel, run, tx,
                   c2s>>

\* Mutant of Deliver: the loop waits for a receiver that is gone.
DeliverStuck ==
    /\ Borrowed /\ HasReceiver(rx.id) /\ Len(events[rx.id]) < StreamCap
    /\ events' = [events EXCEPT ![rx.id] = Append(@, rx.event)]
    /\ rx' = Idle
    /\ UNCHANGED <<callVars, pending, phase, result, resp, cancel, run, tx,
                   c2s>>

Deliver ==
    /\ Borrowed
    /\ \/ /\ HasReceiver(rx.id) /\ Len(events[rx.id]) < StreamCap
          /\ events' = [events EXCEPT ![rx.id] = Append(@, rx.event)]
       \/ /\ ~HasReceiver(rx.id)
          /\ UNCHANGED events
    /\ rx' = Idle
    /\ UNCHANGED <<callVars, pending, phase, result, resp, cancel, run, tx,
                   c2s>>

\* The send loop: a packet leaves the queue and is written.
TxLoop ==
    /\ run = "running" /\ tx # <<>>
    /\ tx' = Tail(tx)
    /\ c2s' = Append(c2s, Head(tx))
    /\ UNCHANGED <<callVars, pending, phase, result, resp, events, cancel,
                   run, rx>>

(***************************************************************************)
(* run() ends: the transport failed, or its future was dropped.  Dropping  *)
(* the loops releases the borrow and loses the event in hand; the guard    *)
(* drains the pending map, telling every call that the transport closed    *)
(* (a stream only if its queue has room); last the outgoing queue goes.    *)
(***************************************************************************)
Drained(i) ==
    IF i \in pending /\ kind[i] = "stream" /\ HasReceiver(i)
         /\ Len(events[i]) < StreamCap
      THEN Append(events[i], Down)
      ELSE events[i]

\* Mutant of RunExit: no guard drains the pending map.
RunExitSilently ==
    /\ run = "running"
    /\ run' = "exited"
    /\ rx' = Idle
    /\ tx' = <<>>
    /\ UNCHANGED <<callVars, pending, phase, result, resp, events, cancel, c2s>>

RunExit ==
    /\ run = "running"
    /\ run' = "exited"
    /\ rx' = Idle
    /\ pending' = {}
    /\ resp' = [i \in Ids |-> IF i \in pending /\ kind[i] = "unary"
                                THEN Down ELSE resp[i]]
    /\ events' = [i \in Ids |-> Drained(i)]
    /\ tx' = <<>>
    /\ UNCHANGED <<callVars, phase, result, cancel, c2s>>

-----------------------------------------------------------------------------
\* The application loses interest in a call.
Abandon(i) == DropSending(i) \/ DropUnary(i) \/ DropStream(i)

Caller(i) ==
    \/ SendRequest(i) \/ SendFailed(i) \/ UnaryResult(i) \/ StreamRecv(i)
    \/ CancelTask(i)

Loops == RunStart \/ Deliver \/ TxLoop

Next ==
    \/ CallUnary \/ CallStream
    \/ \E i \in Ids : Caller(i) \/ Abandon(i)
    \/ Loops \/ RunExit
    \/ \E m \in ServerMsg : Receive(m)

Spec == Init /\ [][Next]_vars

(***************************************************************************)
(* A woken future is polled eventually.  Nothing obliges an application to *)
(* call, to read a stream or to drop anything, nor the peer to answer.     *)
(***************************************************************************)
Fairness ==
    /\ WF_vars(TxLoop)
    /\ \A i \in Ids : /\ WF_vars(SendRequest(i)) /\ WF_vars(SendFailed(i))
                      /\ WF_vars(UnaryResult(i)) /\ WF_vars(CancelTask(i))

FairSpec == Spec /\ Fairness

-----------------------------------------------------------------------------
(***************************************************************************)
(* Properties.                                                             *)
(***************************************************************************)

\* A caller that awaits a unary response can still be woken: its entry is
\* in the pending map, or the answer is already in its channel.  Every
\* path that takes an entry out of the map has to keep this: a response,
\* an error, the drain when run() ends, and the guard of another call.
NoLostAnswer ==
    \A i \in Ids : phase[i] = "waiting" => i \in pending \/ resp[i] # None

\* Once run() has ended nobody waits for it: each unary caller has its
\* answer, each open stream has lost its sender (recv then returns), and
\* what is left in the pending map was put there by calls that have not
\* yet learnt, or will never learn, that their request cannot be sent.
ExitReleasesCalls ==
    run = "exited" =>
        /\ \A i \in Ids : /\ phase[i] = "waiting" => resp[i] # None
                          /\ phase[i] = "open" => SenderGone(i)
        /\ \A i \in pending : phase[i] \in {"sending", "dropped"}

\* A server ignores a CANCEL it has no call for, so an early CANCEL would
\* leave a handler running for ever: every CANCEL the client queued or wrote
\* follows the REQUEST of the same call, and no packet is sent twice.
Sent == c2s \o tx

CancelFollowsRequest ==
    /\ \A n \in DOMAIN Sent : Sent[n].type = "cancel" =>
           \E m \in 1..(n - 1) : Sent[m] = Request(Sent[n].id)
    /\ \A m, n \in DOMAIN Sent : Sent[m] = Sent[n] => m = n

\* An abandoned call whose REQUEST was queued is forgotten once its guard
\* or its cancel task has run, so late messages of the peer for it are
\* ignored.  (A call dropped while it still awaited a queue slot keeps its
\* entry until run() ends: it has no guard yet.)
AbandonedCallsForgotten ==
    \A i \in Ids :
        /\ phase[i] = "dropped" /\ cancel[i] \notin {"signalled", "panicked"}
        /\ \E n \in DOMAIN Sent : Sent[n] = Request(i)
        => i \notin pending

\* When run() has ended no caller stays blocked on it for ever.
ExitWakesCallers ==
    \A i \in Ids :
        (run = "exited" /\ phase[i] \in {"sending", "waiting"})
            ~> (phase[i] \notin {"sending", "waiting"})

\* doc/rpc_transport.md:191 "Multiple calls can be in flight simultaneously
\* on a single connection": no step of one call makes another one panic.
NoPanic == \A i \in Ids : phase[i] # "panicked" /\ cancel[i] # "panicked"
=============================================================================

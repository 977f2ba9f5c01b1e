-------------------------- MODULE RustClientProofs --------------------------
(***************************************************************************)
(* Theorems about RustClient, for every number of calls and every capacity *)
(* of the queues.                                                          *)
(***************************************************************************)
EXTENDS RustClient, SequenceTheorems, TLAPS

USE DEF Ids, Kinds

-----------------------------------------------------------------------------
(* Types. *)

\* The values without a payload are values, and differ from each other.
LEMMA PlainTyped ==
    /\ None \in Value /\ Closed \in Value /\ Down \in Value
    /\ None # Closed /\ None # Down
    /\ Idle \in [id : 0..MaxCalls, event : Value]
  BY ClientAssumption DEF None, Closed, Down, Plain, Value, Idle

\* What a message of the peer becomes in a queue is a value, never None.
LEMMA EventTyped ==
    ASSUME NEW m \in ServerMsg
    PROVE  /\ Event(m) \in Value
           /\ m.type \in {"response", "error"} => Event(m) # None
           /\ m.id \in Ids
  BY DEF ServerMsg, Event, Value, None, Plain

\* REQUEST and CANCEL of an id are packets.
LEMMA PacketTyped ==
    ASSUME TypeOK, NEW i \in Ids
    PROVE  Request(i) \in Packet /\ Cancel(i) \in Packet
  BY DEF TypeOK, Request, Cancel, Packet

\* The outgoing queue stays one of packets and within its bound.
LEMMA TrySendTyped ==
    ASSUME TypeOK, NEW i \in Ids, TrySendCancel(i)
    PROVE  tx' \in Seq(Packet) /\ Len(tx') <= TxCap
  <1>1. CASE tx' = Append(tx, Cancel(i)) /\ Len(tx) < TxCap
    BY <1>1, PacketTyped, AppendProperties, ClientAssumption DEF TypeOK
  <1>2. CASE UNCHANGED tx
    BY <1>2 DEF TypeOK
  <1> QED BY <1>1, <1>2 DEF TrySendCancel

\* A new PacketClient is well typed.
LEMMA InitTyped == Init => TypeOK
  BY PlainTyped, ClientAssumption, EmptySeq DEF Init, TypeOK

\* Every step of PacketClient keeps the types and the bounds.
LEMMA NextTyped == TypeOK /\ [Next]_vars => TypeOK'
  <1> SUFFICES ASSUME TypeOK, [Next]_vars PROVE TypeOK'
    OBVIOUS
  <1> USE ClientAssumption
  <1>1. ASSUME NEW k \in Kinds, Begin(k) PROVE TypeOK'
    <2>1. next_id \in Ids /\ next_id' \in 1..(MaxCalls + 1)
      BY <1>1 DEF Begin, TypeOK
    <2>2. kind' \in [Ids -> Kinds] /\ pending' \in SUBSET Ids
      BY <1>1, <2>1 DEF Begin, TypeOK
    <2>3. phase' \in [Ids -> {"unused", "sending", "waiting", "open", "done",
                             "dropped", "panicked"}]
      BY <1>1, <2>1 DEF Begin, TypeOK
    <2> QED BY <1>1, <2>1, <2>2, <2>3 DEF Begin, TypeOK
  <1>2. ASSUME NEW i \in Ids, SendRequest(i) PROVE TypeOK'
    <2>1. tx' \in Seq(Packet) /\ Len(tx') <= TxCap
      <3>1. tx' = Append(tx, Request(i)) /\ Request(i) \in Packet
        BY <1>2, PacketTyped DEF SendRequest
      <3>2. tx \in Seq(Packet) /\ Len(tx) < TxCap
        BY <1>2 DEF SendRequest, TypeOK
      <3> QED BY <3>1, <3>2, AppendProperties
    <2> QED BY <1>2, <2>1 DEF SendRequest, TypeOK, callVars
  <1>3. ASSUME NEW i \in Ids, SendFailed(i) PROVE TypeOK'
    BY <1>3, PlainTyped DEF SendFailed, Forget, TypeOK, callVars
  <1>4. ASSUME NEW i \in Ids, DropSending(i) PROVE TypeOK'
    BY <1>4, EmptySeq DEF DropSending, TypeOK, callVars
  <1>5. ASSUME NEW i \in Ids, UnaryResult(i) PROVE TypeOK'
    BY <1>5 DEF UnaryResult, TypeOK, callVars
  <1>6. ASSUME NEW i \in Ids, DropUnary(i) PROVE TypeOK'
    BY <1>6, TrySendTyped DEF DropUnary, Forget, TypeOK, callVars
  <1>7. ASSUME NEW i \in Ids, StreamRecv(i) PROVE TypeOK'
    <2>1. CASE events[i] # <<>>
      <3>1. Head(events[i]) \in Value /\ Tail(events[i]) \in Seq(Value)
            /\ Len(Tail(events[i])) <= StreamCap
        BY <2>1, HeadTailProperties, LenProperties DEF TypeOK
      <3>2. RecvValue(Head(events[i])) \in Value
        BY <3>1, PlainTyped DEF RecvValue
      <3>3. /\ result' = [result EXCEPT ![i] = RecvValue(Head(events[i]))]
            /\ events' = [events EXCEPT ![i] = Tail(events[i])]
        BY <1>7, <2>1 DEF StreamRecv
      <3>4. result' \in [Ids -> Value] /\ events' \in [Ids -> Seq(Value)]
        BY <3>1, <3>2, <3>3 DEF TypeOK
      <3>5. \A j \in Ids : Len(events'[j]) <= StreamCap
        BY <3>1, <3>3 DEF TypeOK
      <3>6. UNCHANGED <<callVars, pending, phase, resp, cancel, run, rx, tx,
                        c2s>>
        BY <1>7 DEF StreamRecv
      <3> QED BY <3>4, <3>5, <3>6 DEF TypeOK, callVars
    <2>2. CASE events[i] = <<>>
      <3>1. result' = [result EXCEPT ![i] = Closed] /\ UNCHANGED events
        BY <1>7, <2>2 DEF StreamRecv
      <3>2. result' \in [Ids -> Value]
        BY <3>1, PlainTyped DEF TypeOK
      <3>3. UNCHANGED <<callVars, pending, phase, resp, cancel, run, rx, tx,
                        c2s>>
        BY <1>7 DEF StreamRecv
      <3> QED BY <3>1, <3>2, <3>3 DEF TypeOK, callVars
    <2> QED BY <2>1, <2>2
  <1>8. ASSUME NEW i \in Ids, DropStream(i) PROVE TypeOK'
    BY <1>8, EmptySeq DEF DropStream, TypeOK, callVars
  <1>9. ASSUME NEW i \in Ids, CancelTask(i) PROVE TypeOK'
    BY <1>9, TrySendTyped DEF CancelTask, Forget, TypeOK, callVars
  <1>10. ASSUME RunStart PROVE TypeOK'
    BY <1>10 DEF RunStart, TypeOK, callVars
  <1>11. ASSUME NEW m \in ServerMsg, Receive(m) PROVE TypeOK'
    <2>1. m.id \in Ids /\ Event(m) \in Value
      BY EventTyped
    <2>2. pending' \in SUBSET Ids
      BY <1>11 DEF Receive, Forget, TypeOK
    <2>3. resp' \in [Ids -> Value]
      BY <1>11, <2>1 DEF Receive, TypeOK
    <2>4. rx' \in [id : 0..MaxCalls, event : Value]
      BY <1>11, <2>1 DEF Receive, TypeOK
    <2>5. UNCHANGED <<callVars, phase, result, events, cancel, run, tx, c2s>>
      BY <1>11 DEF Receive
    <2> QED BY <2>2, <2>3, <2>4, <2>5 DEF TypeOK, callVars
  <1>12. ASSUME Deliver PROVE TypeOK'
    <2>1. rx.id \in Ids /\ rx.event \in Value
      BY <1>12 DEF Deliver, Borrowed, TypeOK
    <2>2. CASE /\ Len(events[rx.id]) < StreamCap
               /\ events' = [events EXCEPT ![rx.id] =
                                Append(events[rx.id], rx.event)]
      <3>1. /\ Append(events[rx.id], rx.event) \in Seq(Value)
            /\ Len(Append(events[rx.id], rx.event)) <= StreamCap
        BY <2>1, <2>2, AppendProperties, LenProperties DEF TypeOK
      <3> QED BY <1>12, <2>1, <2>2, <3>1, PlainTyped
                 DEF Deliver, TypeOK, callVars
    <2>3. CASE UNCHANGED events
      BY <1>12, <2>3, PlainTyped DEF Deliver, TypeOK, callVars
    <2> QED BY <1>12, <2>2, <2>3 DEF Deliver
  <1>13. ASSUME TxLoop PROVE TypeOK'
    <2>1. /\ Tail(tx) \in Seq(Packet) /\ Len(Tail(tx)) <= TxCap
          /\ Append(c2s, Head(tx)) \in Seq(Packet)
      BY <1>13, HeadTailProperties, AppendProperties, LenProperties
         DEF TxLoop, TypeOK
    <2> QED BY <1>13, <2>1 DEF TxLoop, TypeOK, callVars
  <1>14. ASSUME RunExit PROVE TypeOK'
    <2>1. ASSUME NEW i \in Ids
          PROVE  Drained(i) \in Seq(Value) /\ Len(Drained(i)) <= StreamCap
      BY PlainTyped, AppendProperties, LenProperties DEF Drained, TypeOK
    <2> QED BY <1>14, <2>1, PlainTyped, EmptySeq
               DEF RunExit, TypeOK, callVars
  <1>15. ASSUME UNCHANGED vars PROVE TypeOK'
    BY <1>15 DEF vars, TypeOK
  <1> QED
    BY <1>1, <1>2, <1>3, <1>4, <1>5, <1>6, <1>7, <1>8, <1>9, <1>10, <1>11,
       <1>12, <1>13, <1>14, <1>15
       DEF Next, CallUnary, CallStream, Caller, Abandon, Loops

\* Every variable keeps its type, and the two kinds of queues their bounds,
\* whatever the calls, the peer and the exit of run() do.
THEOREM Typed == Spec => []TypeOK
  BY InitTyped, NextTyped, PTL DEF Spec
-----------------------------------------------------------------------------
(***************************************************************************)
(* Answers.  NoLostAnswer is not inductive: the REQUEST of a call may be   *)
(* answered, or run() may end, while its caller still waits for a queue    *)
(* slot, and a cancel task must not take out the entry of a unary call.    *)
(***************************************************************************)

\* An id that was not allocated has no caller and no cancel task.
Fresh == \A i \in Ids :
    i >= next_id => phase[i] = "unused" /\ cancel[i] = "none"

KindsMatch == \A i \in Ids :
    /\ phase[i] = "waiting" => kind[i] = "unary"
    /\ phase[i] = "open" \/ cancel[i] # "none" => kind[i] = "stream"

\* The call is in the map, or its answer in its channel.
Registered == \A i \in Ids :
    phase[i] \in {"sending", "waiting"} /\ kind[i] = "unary"
        => i \in pending \/ resp[i] # None

\* Only a running loop holds the borrow, and only calls that still wait for
\* a slot, or were dropped there, register after run() has ended.
RunOver ==
    /\ run # "running" => ~Borrowed
    /\ run = "exited" => \A i \in pending : phase[i] \in {"sending", "dropped"}

IInv == TypeOK /\ Fresh /\ KindsMatch /\ Registered /\ RunOver

\* A new PacketClient satisfies the inductive invariant.
LEMMA InitIInv == Init => IInv
  BY InitTyped
     DEF Init, IInv, Fresh, KindsMatch, Registered, RunOver, Borrowed, Idle

\* The inductive invariant is what the two properties need.
LEMMA IInvImplies == IInv => NoLostAnswer /\ ExitReleasesCalls
  BY DEF IInv, TypeOK, KindsMatch, Registered, RunOver, NoLostAnswer,
         ExitReleasesCalls, SenderGone, Borrowed

\* Every step of PacketClient keeps the inductive invariant.
LEMMA NextIInv == IInv /\ [Next]_vars => IInv'
  <1> SUFFICES ASSUME IInv, [Next]_vars PROVE IInv'
    OBVIOUS
  <1>0. TypeOK /\ TypeOK'
    BY NextTyped DEF IInv
  <1> DEFINE Rest == Fresh /\ KindsMatch /\ Registered /\ RunOver
  <1> USE ClientAssumption DEF IInv
  <1>1. ASSUME NEW k \in Kinds, Begin(k) PROVE Rest'
    <2>1. Fresh'
      <3>1. /\ \A i \in Ids : i # next_id => phase'[i] = phase[i]
            /\ cancel' = cancel
        BY <1>0, <1>1 DEF Begin, TypeOK
      <3>2. next_id \in Nat /\ next_id' = next_id + 1
        BY <1>0, <1>1 DEF Begin, TypeOK
      <3>3. \A i \in Ids : i >= next_id' => i # next_id /\ i >= next_id
        BY <3>2
      <3> QED BY <3>1, <3>3 DEF Fresh
    <2>2. KindsMatch'
      <3>1. \A i \in Ids : i # next_id => UNCHANGED <<phase[i], kind[i]>>
        BY <1>0, <1>1 DEF Begin, TypeOK
      <3>2. /\ next_id \in Ids /\ cancel' = cancel
            /\ phase'[next_id] \in {"sending", "panicked"}
        BY <1>0, <1>1 DEF Begin, TypeOK
      <3>3. cancel[next_id] = "none"
        BY <1>0, <3>2 DEF TypeOK, Fresh
      <3> QED BY <1>0, <3>1, <3>2, <3>3 DEF KindsMatch
    <2>3. Registered'
      BY <1>0, <1>1 DEF Begin, TypeOK, Registered
    <2>4. RunOver'
      BY <1>0, <1>1 DEF Begin, TypeOK, RunOver, Borrowed
    <2> QED BY <2>1, <2>2, <2>3, <2>4
  <1>2. ASSUME NEW i \in Ids, SendRequest(i) PROVE Rest'
    <2>1. Fresh'
      BY <1>0, <1>2 DEF SendRequest, TypeOK, Fresh, callVars
    <2>2. KindsMatch'
      BY <1>0, <1>2 DEF SendRequest, TypeOK, KindsMatch, callVars
    <2>3. Registered'
      BY <1>0, <1>2 DEF SendRequest, TypeOK, Registered, callVars
    <2>4. RunOver'
      BY <1>0, <1>2 DEF SendRequest, TypeOK, RunOver, callVars, Borrowed
    <2> QED BY <2>1, <2>2, <2>3, <2>4
  <1>3. ASSUME NEW i \in Ids, SendFailed(i) PROVE Rest'
    BY <1>0, <1>3
       DEF SendFailed, TypeOK, Fresh, KindsMatch, Registered, RunOver,
           Borrowed, Forget, TrySendCancel, callVars
  <1>4. ASSUME NEW i \in Ids, DropSending(i) PROVE Rest'
    BY <1>0, <1>4
       DEF DropSending, TypeOK, Fresh, KindsMatch, Registered, RunOver,
           Borrowed, Forget, TrySendCancel, callVars
  <1>5. ASSUME NEW i \in Ids, UnaryResult(i) PROVE Rest'
    BY <1>0, <1>5
       DEF UnaryResult, TypeOK, Fresh, KindsMatch, Registered, RunOver,
           Borrowed, Forget, TrySendCancel, callVars
  <1>6. ASSUME NEW i \in Ids, DropUnary(i) PROVE Rest'
    <2>1. UNCHANGED <<next_id, kind, resp, cancel, run, rx>>
      BY <1>6 DEF DropUnary, callVars
    <2>2. /\ pending' = pending \/ (pending' = pending \ {i} /\ ~Borrowed)
          /\ \/ phase' = [phase EXCEPT ![i] = "dropped"]
             \/ phase' = [phase EXCEPT ![i] = "panicked"] /\ Borrowed
      BY <1>6 DEF DropUnary, Forget
    <2>3. phase[i] = "waiting"
      BY <1>6 DEF DropUnary
    <2>4. /\ \A j \in Ids \ {i} : phase'[j] = phase[j]
          /\ phase'[i] \in {"dropped", "panicked"}
          /\ phase'[i] = "dropped" \/ Borrowed
      BY <1>0, <2>2 DEF TypeOK
    <2>5. Fresh'
      BY <1>0, <2>1, <2>3, <2>4 DEF Fresh
    <2>6. KindsMatch'
      BY <1>0, <2>1, <2>4 DEF KindsMatch
    <2>7. Registered'
      BY <1>0, <2>1, <2>2, <2>4 DEF Registered
    <2>8. run # "running" => ~Borrowed /\ ~Borrowed'
      BY <1>0, <2>1 DEF RunOver, Borrowed
    <2>9. \A j \in pending' : j \in pending /\ j \in Ids
      BY <1>0, <2>2 DEF TypeOK
    <2>10. RunOver'
      BY <1>0, <2>1, <2>4, <2>8, <2>9 DEF RunOver
    <2> QED BY <2>5, <2>6, <2>7, <2>10
  <1>7. ASSUME NEW i \in Ids, StreamRecv(i) PROVE Rest'
    BY <1>0, <1>7
       DEF StreamRecv, TypeOK, Fresh, KindsMatch, Registered, RunOver,
           Borrowed, Forget, TrySendCancel, callVars
  <1>8. ASSUME NEW i \in Ids, DropStream(i) PROVE Rest'
    BY <1>0, <1>8
       DEF DropStream, TypeOK, Fresh, KindsMatch, Registered, RunOver,
           Borrowed, Forget, TrySendCancel, callVars
  <1>9. ASSUME NEW i \in Ids, CancelTask(i) PROVE Rest'
    <2>1. UNCHANGED <<next_id, kind, phase, resp, run, rx>>
      BY <1>9 DEF CancelTask, callVars
    <2>2. /\ pending' \in {pending, pending \ {i}}
          /\ \/ cancel' = [cancel EXCEPT ![i] = "done"]
             \/ cancel' = [cancel EXCEPT ![i] = "panicked"]
      BY <1>9 DEF CancelTask, Forget
    <2>3. cancel[i] = "signalled"
      BY <1>9 DEF CancelTask
    <2>4. Fresh' /\ KindsMatch'
      BY <1>0, <2>1, <2>2, <2>3 DEF TypeOK, Fresh, KindsMatch
    <2>5. Registered'
      BY <1>0, <2>1, <2>2, <2>3 DEF TypeOK, KindsMatch, Registered
    <2>6. RunOver'
      BY <1>0, <2>1, <2>2 DEF TypeOK, RunOver, Borrowed
    <2> QED BY <2>4, <2>5, <2>6
  <1>10. ASSUME RunStart PROVE Rest'
    BY <1>0, <1>10, PlainTyped
       DEF RunStart, TypeOK, Fresh, KindsMatch, Registered, RunOver, Borrowed,
           Idle, callVars
  <1>11. ASSUME Deliver PROVE Rest'
    BY <1>0, <1>11, PlainTyped
       DEF Deliver, TypeOK, Fresh, KindsMatch, Registered, RunOver, Borrowed,
           Idle, callVars
  <1>12. ASSUME TxLoop PROVE Rest'
    BY <1>0, <1>12, PlainTyped
       DEF TxLoop, TypeOK, Fresh, KindsMatch, Registered, RunOver, Borrowed,
           Idle, callVars
  <1>13. ASSUME RunExit PROVE Rest'
    BY <1>0, <1>13, PlainTyped
       DEF RunExit, TypeOK, Fresh, KindsMatch, Registered, RunOver, Borrowed,
           Idle, callVars
  <1>14. ASSUME NEW m \in ServerMsg, Receive(m) PROVE Rest'
    <2>1. UNCHANGED <<next_id, kind, phase, cancel, run>> /\ run = "running"
      BY <1>14 DEF Receive, callVars
    <2>2. Fresh' /\ KindsMatch' /\ RunOver'
      BY <2>1 DEF Fresh, KindsMatch, RunOver
    <2>3. CASE ForUnary(m)
      <3>1. /\ pending' = pending \ {m.id}
            /\ resp' = [resp EXCEPT ![m.id] = Event(m)]
        BY <1>14, <2>3 DEF Receive, ForUnary, ForStream, Forget
      <3>2. Event(m) # None /\ m.id \in Ids
        BY <2>3, EventTyped DEF ForUnary
      <3> QED BY <1>0, <2>1, <2>2, <3>1, <3>2 DEF TypeOK, Registered
    <2>4. CASE ForStream(m)
      <3>1. pending' \in {pending, pending \ {m.id}} /\ UNCHANGED resp
        BY <1>14, <2>4 DEF Receive, ForUnary, ForStream, Forget
      <3> QED BY <1>0, <2>1, <2>2, <2>4, <3>1 DEF TypeOK, Registered, ForStream
    <2>5. CASE ~ForUnary(m) /\ ~ForStream(m)
      BY <1>14, <2>1, <2>2, <2>5 DEF Receive, Registered
    <2> QED BY <2>3, <2>4, <2>5
  <1>15. ASSUME UNCHANGED vars PROVE Rest'
    BY <1>15 DEF vars, Fresh, KindsMatch, Registered, RunOver, Borrowed
  <1> QED
    BY <1>0, <1>1, <1>2, <1>3, <1>4, <1>5, <1>6, <1>7, <1>8, <1>9, <1>10,
       <1>11, <1>12, <1>13, <1>14, <1>15
       DEF Next, CallUnary, CallStream, Caller, Abandon, Loops

\* The inductive invariant: types, fresh ids, what a phase says of the kind of
\* its call, where its answer is, and what is left when run() has ended.
THEOREM Inductive == Spec => []IInv
  BY InitIInv, NextIInv, PTL DEF Spec

\* call_unary: whatever takes an entry out of the pending map, a caller that
\* awaits its response has either its entry or its answer.
THEOREM AnswersAreNotLost == Spec => []NoLostAnswer
  BY Inductive, IInvImplies, PTL

\* run(): when it has ended, for whatever reason and however many calls were
\* open, each of them has been released.
THEOREM ExitReleases == Spec => []ExitReleasesCalls
  BY Inductive, IInvImplies, PTL

-----------------------------------------------------------------------------
(***************************************************************************)
(* What the client writes.  The invariant relates a packet, queued or      *)
(* written, to what became of its call, and a call to its packets.         *)
(***************************************************************************)
Unsent(i) == phase[i] \in {"unused", "sending"}

\* A packet is the REQUEST or the CANCEL of a call that got its queue slot.
PacketsHaveCalls == \A n \in DOMAIN Sent :
    /\ ~Unsent(Sent[n].id)
    /\ Sent[n].kind = kind[Sent[n].id]

\* After CANCEL neither the guard nor the cancel task of its call is left.
CancelIsLast == \A n \in DOMAIN Sent : Sent[n].type = "cancel" =>
    /\ phase[Sent[n].id] = "dropped"
    /\ cancel[Sent[n].id] \in {"none", "done"}

\* As long as CANCEL may be queued, REQUEST was.
Cancellable(i) == phase[i] \in {"waiting", "open"} \/ cancel[i] = "signalled"

RequestQueued == run # "exited" =>
    \A i \in Ids : Cancellable(i) => \E n \in DOMAIN Sent : Sent[n] = Request(i)

PInv ==
    /\ PacketsHaveCalls /\ CancelIsLast /\ RequestQueued
    /\ CancelFollowsRequest /\ AbandonedCallsForgotten

-----------------------------------------------------------------------------
(* How what was sent changes. *)

\* What was sent is a sequence of packets.
LEMMA SentTyped ==
    ASSUME TypeOK
    PROVE  /\ Sent \in Seq(Packet) /\ Len(Sent) \in Nat
           /\ DOMAIN Sent = 1..Len(Sent)
           /\ \A n \in DOMAIN Sent :
                  Sent[n] \in Packet /\ Sent[n].id \in Ids
  <1>1. Sent \in Seq(Packet)
    BY ConcatProperties DEF Sent, TypeOK
  <1>2. Len(Sent) \in Nat /\ DOMAIN Sent = 1..Len(Sent)
    BY <1>1, LenProperties
  <1>3. \A n \in DOMAIN Sent : Sent[n] \in Packet
    BY <1>1, <1>2, ElementOfSeq
  <1> QED BY <1>1, <1>2, <1>3 DEF Packet

\* Queueing a packet appends it to what was sent.
LEMMA Queued ==
    ASSUME TypeOK, NEW p \in Packet, tx' = Append(tx, p), c2s' = c2s
    PROVE  /\ DOMAIN Sent' = DOMAIN Sent \cup {Len(Sent) + 1}
           /\ \A n \in DOMAIN Sent : Sent'[n] = Sent[n] /\ n < Len(Sent) + 1
           /\ Sent'[Len(Sent) + 1] = p
  <1>1. c2s \in Seq(Packet) /\ tx \in Seq(Packet)
    BY DEF TypeOK
  <1>2. Append(tx, p) = tx \o <<p>> /\ <<p>> \in Seq(Packet)
    BY <1>1, AppendIsConcat
  <1>3. c2s \o (tx \o <<p>>) = (c2s \o tx) \o <<p>>
    BY <1>1, <1>2, ConcatAssociative
  <1>4. Sent' = Append(Sent, p)
    BY <1>2, <1>3, SentTyped, AppendIsConcat DEF Sent
  <1> QED BY <1>4, SentTyped, AppendProperties, LenProperties

\* Writing a packet takes it from the queue only.
LEMMA Written ==
    ASSUME TypeOK, TxLoop
    PROVE  Sent' = Sent
  <1>1. /\ c2s \in Seq(Packet) /\ tx \in Seq(Packet) /\ tx # <<>>
        /\ tx' = Tail(tx) /\ c2s' = Append(c2s, Head(tx))
    BY DEF TypeOK, TxLoop
  <1>2. /\ Head(tx) \in Packet /\ Tail(tx) \in Seq(Packet)
        /\ <<Head(tx)>> \in Seq(Packet)
        /\ tx = <<Head(tx)>> \o Tail(tx)
    <2>1. Head(tx) \in Packet /\ Tail(tx) \in Seq(Packet)
      BY <1>1, HeadTailProperties
    <2>2. /\ <<Head(tx)>> \in Seq(Packet) /\ Len(<<Head(tx)>>) = 1
          /\ <<Head(tx)>>[1] = Head(tx)
      BY <2>1
    <2>3. /\ <<Head(tx)>> \o Tail(tx) \in Seq(Packet)
          /\ Len(<<Head(tx)>> \o Tail(tx)) = Len(tx)
          /\ \A n \in 1..Len(tx) : (<<Head(tx)>> \o Tail(tx))[n] = tx[n]
      BY <1>1, <2>1, <2>2, ConcatProperties, HeadTailProperties, LenProperties
    <2> QED BY <1>1, <2>1, <2>2, <2>3, SeqEqual
  <1>3. Append(c2s, Head(tx)) = c2s \o <<Head(tx)>>
    BY <1>1, <1>2, AppendIsConcat
  <1>4. (c2s \o <<Head(tx)>>) \o Tail(tx) = c2s \o (<<Head(tx)>> \o Tail(tx))
    BY <1>1, <1>2, ConcatAssociative
  <1> QED BY <1>1, <1>2, <1>3, <1>4 DEF Sent

\* Closing the queue leaves the packets that were written.
LEMMA Shortened ==
    ASSUME TypeOK, tx' = <<>>, c2s' = c2s
    PROVE  \A n \in DOMAIN Sent' :
               /\ n \in DOMAIN Sent /\ Sent'[n] = Sent[n]
               /\ \A m \in 1..(n - 1) : m \in DOMAIN Sent'
  <1>1. c2s \in Seq(Packet) /\ tx \in Seq(Packet) /\ Sent' = c2s
    BY ConcatEmptySeq DEF TypeOK, Sent
  <1> QED BY <1>1, ConcatProperties, LenProperties DEF Sent

-----------------------------------------------------------------------------
(* How calls change. *)

\* No step takes a call back, nor gives it another kind, nor revives a call
\* that was dropped and has no cancel task to run.
Forward ==
    /\ \A i \in Ids : ~Unsent(i) => ~Unsent(i)' /\ kind'[i] = kind[i]
    /\ \A i \in Ids : phase[i] = "dropped" /\ cancel[i] \in {"none", "done"} =>
           phase'[i] = "dropped" /\ cancel'[i] \in {"none", "done"}

\* Nothing was sent for a call that has no queue slot yet.
LEMMA UnsentHaveNoPackets ==
    ASSUME PacketsHaveCalls, NEW i \in Ids, Unsent(i)
    PROVE  \A n \in DOMAIN Sent : Sent[n].id # i
  BY DEF PacketsHaveCalls

\* The entry of an abandoned call is out of the map, and stays out.
Forgets ==
    \A i \in Ids :
        /\ phase'[i] = "dropped" /\ cancel'[i] \notin {"signalled", "panicked"}
        /\ ~Unsent(i)
        => \/ i \notin pending'
           \/ /\ phase[i] = "dropped" /\ cancel[i] \notin {"signalled", "panicked"}
              /\ i \in pending' => i \in pending

\* A step that sends nothing, on a connection that does not end.
LEMMA KeepsSilence ==
    ASSUME TypeOK, PInv, Forward, Forgets, Sent' = Sent,
           run = "exited" => run' = "exited",
           \A i \in Ids : Cancellable(i)' => Cancellable(i)
    PROVE  PInv'
  <1>1. \A n \in DOMAIN Sent : Sent[n].id \in Ids
    BY SentTyped
  <1>2. PacketsHaveCalls'
    BY <1>1 DEF PInv, PacketsHaveCalls, Forward
  <1>3. CancelIsLast'
    BY <1>1 DEF PInv, CancelIsLast, Forward
  <1>4. \A n \in DOMAIN Sent :
            kind'[Sent[n].id] = kind[Sent[n].id]
    BY <1>1 DEF PInv, PacketsHaveCalls, Forward
  <1>5. ASSUME NEW i \in Ids, NEW n \in DOMAIN Sent
        PROVE  Sent[n] = Request(i) <=> Sent[n] = Request(i)'
    <2>1. Sent[n] = Request(i) => Sent[n].id = i
      BY DEF Request
    <2>2. Sent[n] = Request(i)' => Sent[n].id = i
      BY DEF Request
    <2> QED BY <1>4, <2>1, <2>2 DEF Request
  <1>6. RequestQueued'
    BY <1>5 DEF PInv, RequestQueued
  <1>7. CancelFollowsRequest'
    <2>1. ASSUME NEW n \in DOMAIN Sent', (Sent[n].type)' = "cancel"
          PROVE  \E m \in 1..(n - 1) : Sent'[m] = Request(Sent[n].id)'
      <3>1. PICK m \in 1..(n - 1) : Sent[m] = Request(Sent[n].id)
        BY <2>1 DEF PInv, CancelFollowsRequest
      <3>2. m \in DOMAIN Sent
        BY <2>1, <3>1, SentTyped
      <3> QED BY <1>1, <1>5, <2>1, <3>1, <3>2
    <2> QED BY <2>1 DEF PInv, CancelFollowsRequest
  <1>8. AbandonedCallsForgotten'
    <2>1. ASSUME NEW i \in Ids, NEW n \in DOMAIN Sent, Sent[n] = Request(i)',
                 phase'[i] = "dropped",
                 cancel'[i] \notin {"signalled", "panicked"}
          PROVE  i \notin pending'
      <3>1. Sent[n] = Request(i) /\ Sent[n].id = i
        BY <1>5, <2>1 DEF Request
      <3>2. ~Unsent(i)
        BY <3>1 DEF PInv, PacketsHaveCalls
      <3> QED BY <2>1, <3>1, <3>2 DEF PInv, AbandonedCallsForgotten, Forgets
    <2> QED BY <2>1 DEF AbandonedCallsForgotten
  <1> QED BY <1>2, <1>3, <1>6, <1>7, <1>8 DEF PInv

\* A step that queues a packet: a REQUEST of a call that was not abandoned, or
\* a CANCEL after the REQUEST, and neither for the second time.
LEMMA KeepsOrder ==
    ASSUME TypeOK, PInv, Forward, Forgets, UNCHANGED <<kind, run, c2s>>,
           NEW p \in Packet, tx' = Append(tx, p),
           p.kind = kind[p.id], ~Unsent(p.id)',
           \A n \in DOMAIN Sent : Sent[n] # p,
           p.type = "request" => phase'[p.id] # "dropped",
           p.type = "cancel" =>
               /\ phase'[p.id] = "dropped" /\ cancel'[p.id] \in {"none", "done"}
               /\ \E n \in DOMAIN Sent : Sent[n] = Request(p.id),
           \A i \in Ids : Cancellable(i)' => Cancellable(i) \/ p = Request(i)
    PROVE  PInv'
  <1> DEFINE last == Len(Sent) + 1
  <1>1. /\ DOMAIN Sent' = DOMAIN Sent \cup {last}
        /\ \A n \in DOMAIN Sent : Sent'[n] = Sent[n] /\ n < last
        /\ Sent'[last] = p /\ last \in Nat
    <2>1. c2s' = c2s /\ last \in Nat
      BY SentTyped
    <2> QED BY <2>1, Queued
  <1>2. \A n \in DOMAIN Sent : Sent[n].id \in Ids
    BY SentTyped
  <1>3. \A i \in Ids : Request(i)' = Request(i)
    BY DEF Request
  <1> HIDE DEF last
  <1>4. PacketsHaveCalls'
    BY <1>1, <1>2 DEF PInv, PacketsHaveCalls, Forward
  <1>5. CancelIsLast'
    BY <1>1, <1>2 DEF PInv, CancelIsLast, Forward
  <1>6. RequestQueued'
    BY <1>1, <1>3 DEF PInv, RequestQueued
  <1>7. ASSUME NEW n \in DOMAIN Sent', (Sent[n].type)' = "cancel"
        PROVE  \E m \in 1..(n - 1) : Sent'[m] = Request(Sent[n].id)'
    <2>1. CASE n \in DOMAIN Sent
      <3>1. Sent'[n] = Sent[n]
        BY <1>1, <2>1
      <3>2. PICK m \in 1..(n - 1) : Sent[m] = Request(Sent[n].id)
        BY <1>7, <2>1, <3>1 DEF PInv, CancelFollowsRequest
      <3>3. m \in DOMAIN Sent
        BY <2>1, <3>2, SentTyped
      <3> QED BY <1>1, <1>2, <1>3, <2>1, <3>1, <3>2, <3>3
    <2>2. CASE n = last
      <3>1. PICK m \in DOMAIN Sent : Sent[m] = Request(p.id)
        BY <1>1, <1>7, <2>2
      <3>2. m \in 1..(n - 1)
        BY <1>1, <2>2, <3>1, SentTyped
      <3>3. p.id \in Ids
        BY DEF Packet
      <3> QED BY <1>1, <1>3, <2>2, <3>1, <3>2, <3>3
    <2> QED BY <1>1, <2>1, <2>2
  <1>8. \A m, n \in DOMAIN Sent' : Sent'[m] = Sent'[n] => m = n
    BY <1>1 DEF PInv, CancelFollowsRequest
  <1>9. CancelFollowsRequest'
    BY <1>7, <1>8 DEF CancelFollowsRequest
  <1>10. AbandonedCallsForgotten'
    <2>1. ASSUME NEW i \in Ids, NEW n \in DOMAIN Sent', Sent'[n] = Request(i),
                 phase'[i] = "dropped",
                 cancel'[i] \notin {"signalled", "panicked"}
          PROVE  i \notin pending'
      <3>1. Request(i).id = i /\ Request(i).type = "request"
        BY DEF Request
      <3>2. n \in DOMAIN Sent /\ Sent[n] = Request(i)
        BY <1>1, <2>1, <3>1
      <3>3. ~Unsent(i)
        BY <3>1, <3>2 DEF PInv, PacketsHaveCalls
      <3> QED BY <2>1, <3>2, <3>3 DEF PInv, AbandonedCallsForgotten, Forgets
    <2> QED BY <1>3, <2>1 DEF AbandonedCallsForgotten
  <1> QED BY <1>4, <1>5, <1>6, <1>9, <1>10 DEF PInv

\* The CANCEL that the guard or the cancel task of a call tries to send.
LEMMA KeepsCancel ==
    ASSUME TypeOK, PInv, UNCHANGED <<kind, run, c2s>>,
           NEW i \in Ids, TrySendCancel(i), Cancellable(i), ~Unsent(i),
           phase[i] # "dropped" \/ cancel[i] = "signalled",
           phase'[i] = "dropped", cancel'[i] \in {"none", "done"},
           pending' = pending \ {i},
           \A j \in Ids \ {i} : UNCHANGED <<phase[j], cancel[j]>>
    PROVE  PInv'
  <1>1. \A j \in Ids : Cancellable(j)' => Cancellable(j)
    BY DEF Cancellable
  <1>2. Forward /\ Forgets
    BY DEF Forward, Forgets, Unsent
  <1>3. CASE UNCHANGED tx
    <2>1. Sent' = Sent
      BY <1>3 DEF Sent
    <2> QED BY <1>1, <1>2, <2>1, KeepsSilence
  <1>4. CASE run # "exited" /\ tx' = Append(tx, Cancel(i))
    <2>1. /\ Cancel(i) \in Packet /\ Cancel(i).id = i
          /\ Cancel(i).kind = kind[i] /\ Cancel(i).type = "cancel"
      BY PacketTyped DEF Cancel
    <2>2. \A n \in DOMAIN Sent : Sent[n] # Cancel(i)
      BY <2>1 DEF PInv, CancelIsLast
    <2>3. \E n \in DOMAIN Sent : Sent[n] = Request(i)
      BY <1>4 DEF PInv, RequestQueued
    <2>4. ~Unsent(i)'
      BY DEF Unsent
    <2> QED BY <1>1, <1>2, <1>4, <2>1, <2>2, <2>3, <2>4, KeepsOrder
  <1> QED BY <1>3, <1>4 DEF TrySendCancel

-----------------------------------------------------------------------------
(* Steps. *)

\* A cancel task runs when its stream was dropped.
TasksFollowDrops == \A i \in Ids : cancel[i] = "signalled" => phase[i] = "dropped"

\* Only DropStream signals a cancel task, and a dropped stream stays so.
LEMMA NextTasks ==
    ASSUME IInv, TasksFollowDrops, [Next]_vars
    PROVE  TasksFollowDrops'
  <1>0. TypeOK /\ Fresh
    BY DEF IInv
  <1> USE DEF TasksFollowDrops
  <1>1. ASSUME NEW k \in Kinds, Begin(k) PROVE TasksFollowDrops'
    <2>1. /\ next_id \in Ids /\ cancel' = cancel
          /\ \A i \in Ids \ {next_id} : phase'[i] = phase[i]
      BY <1>0, <1>1 DEF Begin, TypeOK
    <2>2. cancel[next_id] = "none"
      BY <1>0, <2>1 DEF Fresh
    <2> QED BY <2>1, <2>2
  <1>2. ASSUME NEW i \in Ids, SendRequest(i) PROVE TasksFollowDrops'
    <2>1. /\ phase[i] # "dropped" /\ cancel'[i] \in {cancel[i], "armed"}
          /\ \A j \in Ids \ {i} : UNCHANGED <<phase[j], cancel[j]>>
      BY <1>0, <1>2 DEF SendRequest, TypeOK
    <2> QED BY <2>1
  <1>3. ASSUME NEW i \in Ids, SendFailed(i) \/ UnaryResult(i)
        PROVE  TasksFollowDrops'
    <2>1. /\ phase[i] # "dropped" /\ cancel' = cancel
          /\ \A j \in Ids \ {i} : phase'[j] = phase[j]
      BY <1>0, <1>3 DEF SendFailed, UnaryResult, TypeOK
    <2> QED BY <2>1
  <1>4. ASSUME NEW i \in Ids, Abandon(i) PROVE TasksFollowDrops'
    <2>1. /\ phase[i] # "dropped"
          /\ \A j \in Ids \ {i} : UNCHANGED <<phase[j], cancel[j]>>
          /\ phase'[i] = "dropped" \/ cancel' = cancel
      BY <1>0, <1>4 DEF Abandon, DropSending, DropUnary, DropStream, TypeOK
    <2> QED BY <2>1
  <1>5. ASSUME NEW i \in Ids, CancelTask(i) PROVE TasksFollowDrops'
    BY <1>0, <1>5 DEF CancelTask, TypeOK
  <1>6. CASE UNCHANGED <<phase, cancel>>
    BY <1>6
  <1>7. ASSUME NEW i \in Ids, StreamRecv(i) PROVE TasksFollowDrops'
    BY <1>6, <1>7 DEF StreamRecv
  <1>8. ASSUME NEW m \in ServerMsg, Receive(m) PROVE TasksFollowDrops'
    BY <1>6, <1>8 DEF Receive
  <1>9. ASSUME Loops \/ RunExit PROVE TasksFollowDrops'
    BY <1>6, <1>9 DEF Loops, RunStart, Deliver, TxLoop, RunExit
  <1>10. CASE UNCHANGED vars
    BY <1>6, <1>10 DEF vars
  <1> QED
    BY <1>1, <1>2, <1>3, <1>4, <1>5, <1>7, <1>8, <1>9, <1>10
       DEF Next, CallUnary, CallStream, Caller

\* Every step of PacketClient keeps the invariant.
LEMMA NextPInv ==
    ASSUME IInv, TasksFollowDrops, PInv, [Next]_vars
    PROVE  PInv'
  <1>0. TypeOK /\ Fresh /\ KindsMatch
    BY DEF IInv
  <1> DEFINE Quiet == /\ Forward /\ Forgets /\ Sent' = Sent
                      /\ run = "exited" => run' = "exited"
                      /\ \A i \in Ids : Cancellable(i)' => Cancellable(i)
  <1>1. Quiet => PInv'
    BY <1>0, KeepsSilence
  <1>2. ASSUME UNCHANGED <<kind, phase, cancel, tx, c2s>>,
               pending' \subseteq pending, run = "exited" => run' = "exited"
        PROVE  PInv'
    BY <1>1, <1>2 DEF Sent, Forward, Forgets, Unsent, Cancellable
  <1>3. ASSUME NEW k \in Kinds, Begin(k) PROVE PInv'
    <2>1. /\ next_id \in Ids /\ phase[next_id] = "unused"
          /\ cancel[next_id] = "none" /\ Unsent(next_id)
      BY <1>0, <1>3 DEF Begin, TypeOK, Fresh, Unsent
    <2>2. /\ \A j \in Ids \ {next_id} : UNCHANGED <<phase[j], kind[j]>>
          /\ phase'[next_id] \in {"sending", "panicked"}
          /\ pending' \subseteq pending \cup {next_id}
          /\ UNCHANGED <<cancel, run, tx, c2s>>
      BY <1>0, <1>3 DEF Begin, TypeOK
    <2>3. Forward /\ Forgets
      BY <2>1, <2>2 DEF Forward, Forgets, Unsent
    <2>4. \A j \in Ids : Cancellable(j)' => Cancellable(j)
      BY <2>1, <2>2 DEF Cancellable
    <2> QED BY <1>1, <2>2, <2>3, <2>4 DEF Sent
  <1>4. ASSUME NEW i \in Ids, SendRequest(i) PROVE PInv'
    <2>1. /\ phase[i] = "sending" /\ phase'[i] \in {"waiting", "open"}
          /\ tx' = Append(tx, Request(i))
          /\ UNCHANGED <<kind, pending, run, c2s>>
          /\ \A j \in Ids \ {i} : UNCHANGED <<phase[j], cancel[j]>>
      BY <1>0, <1>4 DEF SendRequest, TypeOK, callVars
    <2>2. /\ Request(i) \in Packet /\ Request(i).id = i
          /\ Request(i).kind = kind[i] /\ Request(i).type = "request"
      BY <1>0, PacketTyped DEF Request
    <2>3. \A n \in DOMAIN Sent : Sent[n] # Request(i)
      BY <2>1, <2>2, UnsentHaveNoPackets DEF PInv, Unsent
    <2>4. Forward /\ Forgets /\ ~Unsent(i)'
      BY <2>1 DEF Forward, Forgets, Unsent
    <2>5. \A j \in Ids : Cancellable(j)' => Cancellable(j) \/ j = i
      BY <2>1 DEF Cancellable
    <2> QED BY <1>0, <2>1, <2>2, <2>3, <2>4, <2>5, KeepsOrder
  <1>5. ASSUME NEW i \in Ids, SendFailed(i) \/ UnaryResult(i) \/ DropSending(i)
        PROVE  PInv'
    <2>1. /\ phase[i] \in {"sending", "waiting"} /\ phase'[i] \in {"done", "dropped"}
          /\ phase[i] = "waiting" => phase'[i] = "done"
          /\ \A j \in Ids \ {i} : UNCHANGED phase[j]
          /\ UNCHANGED <<kind, cancel, run, tx, c2s>> /\ pending' \subseteq pending
      BY <1>0, <1>5
         DEF SendFailed, UnaryResult, DropSending, Forget, TypeOK, callVars
    <2>2. Forward /\ Forgets
      BY <2>1 DEF Forward, Forgets, Unsent
    <2>3. \A j \in Ids : Cancellable(j)' => Cancellable(j)
      BY <2>1 DEF Cancellable
    <2> QED BY <1>1, <2>1, <2>2, <2>3 DEF Sent
  <1>6. ASSUME NEW i \in Ids, DropUnary(i) PROVE PInv'
    <2>1. /\ phase[i] = "waiting" /\ ~Unsent(i) /\ Cancellable(i)
          /\ cancel[i] = "none" /\ UNCHANGED <<kind, cancel, run, c2s>>
          /\ \A j \in Ids \ {i} : UNCHANGED <<phase[j], cancel[j]>>
      <3>1. cancel[i] = "none"
        BY <1>0, <1>6 DEF DropUnary, KindsMatch
      <3> QED BY <1>0, <1>6, <3>1
                 DEF DropUnary, Unsent, Cancellable, TypeOK, callVars
    <2>2. CASE TrySendCancel(i) /\ Forget(i) /\ phase'[i] = "dropped"
      BY <1>0, <2>1, <2>2, KeepsCancel DEF Forget
    <2>3. CASE UNCHANGED <<pending, tx>> /\ phase'[i] = "panicked"
      <3>1. Forward /\ Forgets
        BY <2>1, <2>3 DEF Forward, Forgets, Unsent
      <3>2. \A j \in Ids : Cancellable(j)' => Cancellable(j)
        BY <2>1, <2>3 DEF Cancellable
      <3> QED BY <1>1, <2>1, <2>3, <3>1, <3>2 DEF Sent
    <2> QED BY <1>0, <1>6, <2>2, <2>3 DEF DropUnary, TypeOK
  <1>7. ASSUME NEW i \in Ids, DropStream(i) PROVE PInv'
    <2>1. /\ phase[i] = "open" /\ cancel'[i] = "signalled"
          /\ UNCHANGED <<kind, pending, run, tx, c2s>>
          /\ \A j \in Ids \ {i} : UNCHANGED <<phase[j], cancel[j]>>
          /\ phase'[i] = "dropped"
      BY <1>0, <1>7 DEF DropStream, TypeOK, callVars
    <2>2. Forward /\ Forgets
      BY <2>1 DEF Forward, Forgets, Unsent
    <2>3. \A j \in Ids : Cancellable(j)' => Cancellable(j)
      BY <2>1 DEF Cancellable
    <2> QED BY <1>1, <2>1, <2>2, <2>3 DEF Sent
  <1>8. ASSUME NEW i \in Ids, CancelTask(i) PROVE PInv'
    <2>1. /\ cancel[i] = "signalled" /\ phase[i] = "dropped"
          /\ Cancellable(i) /\ ~Unsent(i)
          /\ UNCHANGED <<kind, phase, run, c2s>>
          /\ \A j \in Ids \ {i} : UNCHANGED <<phase[j], cancel[j]>>
      BY <1>0, <1>8
         DEF CancelTask, TasksFollowDrops, Cancellable, Unsent, TypeOK, callVars
    <2>2. CASE TrySendCancel(i) /\ Forget(i) /\ cancel'[i] = "done"
      BY <1>0, <2>1, <2>2, KeepsCancel DEF Forget
    <2>3. CASE UNCHANGED <<pending, tx>> /\ cancel'[i] = "panicked"
      <3>1. Forward /\ Forgets
        BY <2>1, <2>3 DEF Forward, Forgets, Unsent
      <3>2. \A j \in Ids : Cancellable(j)' => Cancellable(j)
        BY <2>1, <2>3 DEF Cancellable
      <3> QED BY <1>1, <2>1, <2>3, <3>1, <3>2 DEF Sent
    <2> QED BY <1>0, <1>8, <2>2, <2>3 DEF CancelTask, TypeOK
  <1>9. ASSUME TxLoop PROVE PInv'
    <2>1. UNCHANGED <<kind, phase, cancel, pending, run>>
      BY <1>9 DEF TxLoop, callVars
    <2>2. Forward /\ Forgets /\ Sent' = Sent
      BY <1>0, <1>9, <2>1, Written DEF Forward, Forgets, Unsent
    <2> QED BY <1>1, <2>1, <2>2 DEF Cancellable
  <1>10. ASSUME RunExit PROVE PInv'
    <2>1. /\ UNCHANGED <<kind, phase, cancel, c2s>> /\ pending' = {}
          /\ tx' = <<>> /\ run' = "exited"
      BY <1>10 DEF RunExit, callVars
    <2>2. \A n \in DOMAIN Sent' :
              /\ n \in DOMAIN Sent /\ Sent'[n] = Sent[n]
              /\ \A m \in 1..(n - 1) : m \in DOMAIN Sent'
      BY <1>0, <2>1, Shortened
    <2>3. \A i \in Ids : Request(i)' = Request(i)
      BY <2>1 DEF Request
    <2>4. \A n \in DOMAIN Sent : Sent[n].id \in Ids
      BY <1>0, SentTyped
    <2>5. PacketsHaveCalls' /\ CancelIsLast' /\ RequestQueued'
      BY <2>1, <2>2 DEF PInv, PacketsHaveCalls, CancelIsLast, RequestQueued, Unsent
    <2>6. CancelFollowsRequest'
      BY <2>2, <2>3, <2>4 DEF PInv, CancelFollowsRequest
    <2>7. AbandonedCallsForgotten'
      BY <2>1 DEF AbandonedCallsForgotten
    <2> QED BY <2>5, <2>6, <2>7 DEF PInv
  <1>11. ASSUME NEW i \in Ids, StreamRecv(i) PROVE PInv'
    BY <1>2, <1>11 DEF StreamRecv, callVars
  <1>12. ASSUME NEW m \in ServerMsg, Receive(m) PROVE PInv'
    BY <1>2, <1>12 DEF Receive, Forget, callVars
  <1>13. ASSUME RunStart \/ Deliver PROVE PInv'
    <2>1. CASE RunStart
      BY <1>2, <2>1 DEF RunStart, callVars
    <2>2. CASE Deliver
      BY <1>2, <2>2 DEF Deliver, callVars
    <2> QED BY <1>13, <2>1, <2>2
  <1>14. CASE UNCHANGED vars
    BY <1>2, <1>14 DEF vars
  <1> QED
    BY <1>3, <1>4, <1>5, <1>6, <1>7, <1>8, <1>9, <1>10, <1>11, <1>12, <1>13,
       <1>14 DEF Next, CallUnary, CallStream, Caller, Abandon, Loops

\* A new PacketClient has sent nothing.
LEMMA InitPInv == Init => PInv /\ TasksFollowDrops
  <1> SUFFICES ASSUME Init PROVE PInv /\ TasksFollowDrops
    OBVIOUS
  <1>1. DOMAIN Sent = {}
    BY DEF Init, Sent
  <1> QED BY <1>1 DEF Init, PInv, PacketsHaveCalls, CancelIsLast, RequestQueued,
                      CancelFollowsRequest, AbandonedCallsForgotten,
                      Cancellable, TasksFollowDrops

\* Packets and calls agree in every state.
THEOREM PacketsInductive == Spec => [](IInv /\ TasksFollowDrops /\ PInv)
  <1> DEFINE Inv == IInv /\ TasksFollowDrops /\ PInv
  <1>1. Init => Inv
    BY InitIInv, InitPInv
  <1>2. Inv /\ [Next]_vars => Inv'
    BY NextIInv, NextTasks, NextPInv
  <1> QED BY <1>1, <1>2, PTL DEF Spec

\* RequestGuard::drop and the cancel tasks: however calls, drops and a full
\* queue interleave, CANCEL is behind the REQUEST of its call, and no packet
\* is sent twice.
THEOREM CancelsFollow == Spec => []CancelFollowsRequest
  <1>1. PInv => CancelFollowsRequest
    BY DEF PInv
  <1> QED BY PacketsInductive, <1>1, PTL

\* The same guards: what they clean up stays out of the pending map, although
\* the CANCEL they try to send may be lost.
THEOREM AbandonedAreForgotten == Spec => []AbandonedCallsForgotten
  <1>1. PInv => AbandonedCallsForgotten
    BY DEF PInv
  <1> QED BY PacketsInductive, <1>1, PTL
=============================================================================

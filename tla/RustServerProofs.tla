-------------------------- MODULE RustServerProofs --------------------------
(***************************************************************************)
(* Theorems about RustServer, for every number of calls and of items and   *)
(* every capacity of the queues.                                           *)
(***************************************************************************)
EXTENDS RustServer, SequenceTheorems, TLAPS

USE DEF Calls, Kinds

-----------------------------------------------------------------------------
(***************************************************************************)
(* The inductive invariant.  CallsEndOnce is about the last station of a   *)
(* message only; what must be known is what each of the stations before it *)
(* holds: the handler, its reply or its stream's queue, the forwarder, the *)
(* outgoing queue.                                                         *)
(***************************************************************************)
Up == srv \in {"new", "running"}

\* What was given to the connection.
Out == s2c \o outq

\* What the forwarder of a stream holds and has still to take.
Queue(i) == held[i] \o sq[i]

Ended(q) == q # <<>> /\ q[Len(q)].type # "item"

\* How many items the forwarder has passed on.
Forwarded(i) == items[i] + (IF Ended(Queue(i)) THEN 1 ELSE 0) - Len(Queue(i))

\* How far a call has got, as its handler and its forwarder see it.
TaskOK(i) ==
    /\ handler[i] = "working" => method[i] = "unary"
    /\ handler[i] = "replying" =>
           \/ reply[i] = <<M("error", i, 0)>>
           \/ reply[i] = <<M("response", i, 0)>> /\ method[i] = "unary"
    /\ handler[i] \in {"streaming", "failing"} => fwd[i] # "none"
    /\ fwd[i] # "none" => /\ method[i] = "stream"
                          /\ handler[i] \in {"streaming", "failing", "done", "cancelled"}
    /\ fwd[i] # "running" => held[i] = <<>> /\ sq[i] = <<>>
    /\ fwd[i] = "none" => items[i] = 0
    /\ fwd[i] = "done" /\ Up => handler[i] \in {"done", "cancelled"}
    /\ Len(held[i]) <= 1

TasksOK == \A i \in Calls : TaskOK(i)

\* The receive loop refuses calls that have no handler, while it runs.
RefusalOK ==
    refusal # <<>> =>
        /\ srv = "running"
        /\ \E i \in Calls : handler[i] = "refused" /\ refusal = <<M("error", i, 0)>>

\* A stream's queue goes on where the forwarder stands, and its ending is the
\* last thing a handler does.
QueueOK(i) ==
    /\ Forwarded(i) \in Nat
    /\ \A n \in DOMAIN Queue(i) : LET m == Queue(i)[n] IN
           /\ m.id = i
           /\ m.type = "item" => m.body = Forwarded(i) + n
           /\ m.type # "item" => /\ n = Len(Queue(i)) /\ m.type \in {"end", "error"}
                                 /\ handler[i] \in {"done", "cancelled"}

QueuesOK == Up => \A i \in Calls : QueueOK(i)

\* A message that was given to the connection tells how far its call has got.
Refused(i) == handler[i] = "refused" /\ refusal # <<M("error", i, 0)>>
Replied(i) == handler[i] = "done" /\ fwd[i] = "none"
Drained(i) == /\ handler[i] \in {"done", "cancelled"} /\ fwd[i] # "none"
              /\ Queue(i) = <<>>

Accounted(m) ==
    \/ m.type = "item" /\ fwd[m.id] # "none" /\ m.body \in 1..Forwarded(m.id)
    \/ m.type # "item" /\ (Refused(m.id) \/ Replied(m.id) \/ Drained(m.id))

OutAccounted == Up => \A n \in DOMAIN Out : Accounted(Out[n])

\* And what a call has done was given to the connection.
OutComplete == Up => \A i \in Calls :
    /\ Forwarded(i) > 0 => \E n \in DOMAIN Out : Out[n] = M("item", i, Forwarded(i))
    /\ Refused(i) \/ Replied(i) => \E n \in DOMAIN Out : Out[n].id = i

OutOK == InOrder(Out) /\ OutAccounted /\ OutComplete

IInv == TypeOK /\ TasksOK /\ RefusalOK /\ QueuesOK /\ OutOK

-----------------------------------------------------------------------------
(* Messages and sequences of them. *)

\* M makes messages.
LEMMA MTyped ==
    ASSUME NEW t \in {"response", "item", "end", "error"}, NEW i \in Calls,
           NEW b \in 0..MaxItems
    PROVE  /\ M(t, i, b) \in Msg /\ <<M(t, i, b)>> \in Seq(Msg)
           /\ M(t, i, b).type = t /\ M(t, i, b).id = i /\ M(t, i, b).body = b
  BY DEF M, Msg

\* A message without a payload needs no assumption but that it is one.
LEMMA PlainTyped ==
    ASSUME NEW t \in {"response", "end", "error"}, NEW i \in Calls
    PROVE  /\ M(t, i, 0) \in Msg /\ <<M(t, i, 0)>> \in Seq(Msg)
           /\ M(t, i, 0).type = t /\ M(t, i, 0).id = i /\ M(t, i, 0).body = 0
  <1>1. 0 \in 0..MaxItems
    BY ServerAssumption
  <1> QED BY <1>1, MTyped

\* The first message of a queue, and what follows it.
LEMMA Taken ==
    ASSUME NEW q \in Seq(Msg), q # <<>>
    PROVE  /\ Head(q) \in Msg /\ <<Head(q)>> \in Seq(Msg)
           /\ Tail(q) \in Seq(Msg) /\ q = <<Head(q)>> \o Tail(q)
  <1>1. Head(q) \in Msg /\ Tail(q) \in Seq(Msg)
    BY HeadTailProperties
  <1>2. /\ <<Head(q)>> \in Seq(Msg) /\ Len(<<Head(q)>>) = 1
        /\ <<Head(q)>>[1] = Head(q)
    BY <1>1
  <1>3. /\ <<Head(q)>> \o Tail(q) \in Seq(Msg)
        /\ Len(<<Head(q)>> \o Tail(q)) = Len(q)
        /\ \A n \in 1..Len(q) : (<<Head(q)>> \o Tail(q))[n] = q[n]
    BY <1>1, <1>2, ConcatProperties, HeadTailProperties, LenProperties
  <1> QED BY <1>1, <1>2, <1>3, SeqEqual

\* A message that is put behind a queue is its last one.
LEMMA Longer ==
    ASSUME NEW q \in Seq(Msg), NEW m \in Msg
    PROVE  /\ q \o <<m>> = Append(q, m) /\ Append(q, m) \in Seq(Msg)
           /\ Len(Append(q, m)) = Len(q) + 1 /\ Len(q) \in Nat
           /\ DOMAIN Append(q, m) = DOMAIN q \cup {Len(q) + 1}
           /\ \A n \in DOMAIN q : Append(q, m)[n] = q[n] /\ n \in 1..Len(q)
           /\ Append(q, m)[Len(q) + 1] = m
  BY AppendIsConcat, AppendProperties, LenProperties

\* What was given to the connection are messages of calls.
LEMMA OutTyped ==
    ASSUME TypeOK
    PROVE  /\ Out \in Seq(Msg) /\ Len(Out) \in Nat /\ DOMAIN Out = 1..Len(Out)
           /\ \A n \in DOMAIN Out : Out[n] \in Msg /\ Out[n].id \in Calls
  <1>1. Out \in Seq(Msg)
    BY ConcatProperties DEF Out, TypeOK
  <1>2. Len(Out) \in Nat /\ DOMAIN Out = 1..Len(Out)
    BY <1>1, LenProperties
  <1>3. \A n \in DOMAIN Out : Out[n] \in Msg
    BY <1>1, <1>2, ElementOfSeq
  <1> QED BY <1>1, <1>2, <1>3 DEF Msg

\* What a forwarder holds and has to take are messages.
LEMMA QueueTyped ==
    ASSUME TypeOK, NEW i \in Calls
    PROVE  /\ Queue(i) \in Seq(Msg) /\ Len(Queue(i)) \in Nat
           /\ DOMAIN Queue(i) = 1..Len(Queue(i))
           /\ \A n \in DOMAIN Queue(i) : Queue(i)[n] \in Msg
  <1>1. Queue(i) \in Seq(Msg)
    BY ConcatProperties DEF Queue, TypeOK
  <1>2. Len(Queue(i)) \in Nat /\ DOMAIN Queue(i) = 1..Len(Queue(i))
    BY <1>1, LenProperties
  <1> QED BY <1>1, <1>2, ElementOfSeq

\* A message that gets a slot of the outgoing queue is the last of them all.
LEMMA OutQueued ==
    ASSUME TypeOK, NEW m \in Msg, outq' = outq \o <<m>>, s2c' = s2c
    PROVE  Out' = Append(Out, m)
  <1>1. /\ s2c \in Seq(Msg) /\ outq \in Seq(Msg) /\ <<m>> \in Seq(Msg)
        /\ Out \in Seq(Msg)
    BY OutTyped DEF TypeOK
  <1>2. s2c \o (outq \o <<m>>) = (s2c \o outq) \o <<m>>
    BY <1>1, ConcatAssociative
  <1> QED BY <1>1, <1>2, Longer DEF Out

\* Writing a message only moves it.
LEMMA OutWritten ==
    ASSUME TypeOK, TxLoop
    PROVE  Out' = Out
  <1>1. /\ s2c \in Seq(Msg) /\ outq \in Seq(Msg) /\ outq # <<>>
        /\ outq' = Tail(outq) /\ s2c' = Append(s2c, Head(outq))
    BY DEF TypeOK, TxLoop
  <1>2. Append(s2c, Head(outq)) = s2c \o <<Head(outq)>>
    BY <1>1, Taken, Longer
  <1>3. (s2c \o <<Head(outq)>>) \o Tail(outq) = s2c \o (<<Head(outq)>> \o Tail(outq))
    BY <1>1, Taken, ConcatAssociative
  <1> QED BY <1>1, <1>2, <1>3, Taken DEF Out

-----------------------------------------------------------------------------
(* Types. *)

\* A reply that is about to be sent is one message.
LEMMA ReplyTyped ==
    ASSUME TasksOK, NEW i \in Calls, handler[i] = "replying"
    PROVE  \E t \in {"error", "response"} :
               /\ reply[i] = <<M(t, i, 0)>>
               /\ t = "response" => method[i] = "unary"
  BY DEF TasksOK, TaskOK

\* What the forwarder holds is one message.
LEMMA HeldTyped ==
    ASSUME TypeOK, TasksOK, NEW i \in Calls, held[i] # <<>>
    PROVE  /\ \E m \in Msg : held[i] = <<m>>
           /\ fwd[i] = "running"
  <1>1. held[i] \in Seq(Msg) /\ Len(held[i]) <= 1 /\ fwd[i] = "running"
    BY DEF TypeOK, TasksOK, TaskOK
  <1>2. Len(held[i]) = 1
    <2>1. Len(held[i]) \in Nat \ {0}
      BY <1>1, EmptySeq
    <2>2. \A k \in Nat \ {0} : k <= 1 => k = 1
      OBVIOUS
    <2>3. Len(held[i]) <= 1
      BY <1>1
    <2> QED BY <2>1, <2>2, <2>3
  <1>3. held[i][1] \in Msg
    BY <1>1, <1>2, ElementOfSeq
  <1>4. held[i] = <<held[i][1]>>
    BY <1>1, <1>2
  <1> QED BY <1>1, <1>3, <1>4

\* A slot of the outgoing queue is taken.
LEMMA OutqTyped ==
    ASSUME TypeOK, OutRoom, NEW m \in Msg, outq' = outq \o <<m>>
    PROVE  outq' \in Seq(Msg) /\ Len(outq') <= OutCap
  <1>1. outq \in Seq(Msg) /\ Len(outq) < OutCap
    BY DEF TypeOK, OutRoom
  <1> QED BY <1>1, Longer, ServerAssumption

\* A place in the queue of a stream is taken.
LEMMA SqTyped ==
    ASSUME TypeOK, NEW i \in Calls, NEW m \in Msg, Len(sq[i]) < ItemCap,
           sq' = [sq EXCEPT ![i] = Append(@, m)]
    PROVE  /\ sq' \in [Calls -> Seq(Msg)]
           /\ \A j \in Calls : Len(sq'[j]) <= ItemCap
           /\ sq'[i] = Append(sq[i], m)
           /\ \A j \in Calls \ {i} : sq'[j] = sq[j]
  <1>1. sq[i] \in Seq(Msg) /\ sq \in [Calls -> Seq(Msg)]
    BY DEF TypeOK
  <1>2. Append(sq[i], m) \in Seq(Msg) /\ Len(Append(sq[i], m)) <= ItemCap
    BY <1>1, Longer, ServerAssumption
  <1> QED BY <1>1, <1>2 DEF TypeOK

\* Dropping a stream sender queues an ending, or nothing.
LEMMA DropSenderCases ==
    ASSUME TypeOK, NEW i \in Calls, DropSender(i)
    PROVE  \/ sq' = sq
           \/ /\ handler[i] = "streaming" /\ fwd[i] = "running"
              /\ Len(sq[i]) < ItemCap
              /\ sq' = [sq EXCEPT ![i] = Append(@, M("end", i, 0))]
  BY DEF DropSender

\* Either way the queue keeps its type and its bound.
LEMMA DropSenderTyped ==
    ASSUME TypeOK, NEW i \in Calls, DropSender(i)
    PROVE  sq' \in [Calls -> Seq(Msg)] /\ \A j \in Calls : Len(sq'[j]) <= ItemCap
  <1>1. CASE sq' = sq
    BY <1>1 DEF TypeOK
  <1>2. CASE /\ Len(sq[i]) < ItemCap
             /\ sq' = [sq EXCEPT ![i] = Append(@, M("end", i, 0))]
    BY <1>2, PlainTyped, SqTyped
  <1> QED BY <1>1, <1>2, DropSenderCases

\* Every step of PacketServer keeps the types and the bounds.
LEMMA NextTyped == TypeOK /\ TasksOK /\ RefusalOK /\ [Next]_vars => TypeOK'
  <1> SUFFICES ASSUME TypeOK, TasksOK, RefusalOK, [Next]_vars PROVE TypeOK'
    OBVIOUS
  <1> USE ServerAssumption DEF callVars, streamVars
  <1>1. ASSUME RunStart \/ RunExit PROVE TypeOK'
    <2>1. CASE RunStart
      BY <2>1 DEF RunStart, TypeOK
    <2>2. CASE RunExit
      <3>1. /\ refusal' = <<>> /\ outq' = <<>>
            /\ refusal' \in Seq(Msg) /\ outq' \in Seq(Msg) /\ Len(outq') <= OutCap
        BY <2>2, EmptySeq DEF RunExit
      <3> QED BY <2>2, <3>1 DEF RunExit, TypeOK
    <2> QED BY <1>1, <2>1, <2>2
  <1>2. ASSUME NEW i \in Calls, RecvBadRequest(i) PROVE TypeOK'
    BY <1>2, PlainTyped DEF RecvBadRequest, TypeOK
  <1>3. ASSUME SendRefusal PROVE TypeOK'
    <2>1. PICK m \in Msg : refusal = <<m>>
      BY <1>3, PlainTyped DEF SendRefusal, RefusalOK
    <2>2. outq' \in Seq(Msg) /\ Len(outq') <= OutCap
      BY <1>3, <2>1, OutqTyped DEF SendRefusal
    <2> QED BY <1>3, <2>2, EmptySeq DEF SendRefusal, TypeOK
  <1>4. ASSUME NEW i \in Calls, NEW k \in Kinds, RecvRequest(i, k) PROVE TypeOK'
    BY <1>4 DEF RecvRequest, TypeOK
  <1>5. ASSUME NEW i \in Calls, RecvCancel(i) PROVE TypeOK'
    BY <1>5 DEF RecvCancel, TypeOK
  <1>6. ASSUME TxLoop PROVE TypeOK'
    <2>1. /\ Tail(outq) \in Seq(Msg) /\ Len(Tail(outq)) <= OutCap
          /\ Append(s2c, Head(outq)) \in Seq(Msg)
      BY <1>6, HeadTailProperties, AppendProperties, LenProperties
         DEF TxLoop, TypeOK
    <2> QED BY <1>6, <2>1 DEF TxLoop, TypeOK
  <1>7. ASSUME DropServer PROVE TypeOK'
    BY <1>7 DEF DropServer, TypeOK
  <1>8. ASSUME NEW i \in Calls, StartHandler(i) PROVE TypeOK'
    <2>1. reply' \in [Calls -> Seq(Msg)]
      <3>1. CASE reply' = [reply EXCEPT ![i] = <<M("error", i, 0)>>]
        BY <3>1, PlainTyped DEF TypeOK
      <3> QED BY <1>8, <3>1 DEF StartHandler, TypeOK
    <2>2. /\ handler' \in [Calls -> {"none", "refused", "spawned", "working",
                   "replying", "streaming", "failing", "done", "cancelled"}]
          /\ fwd' \in [Calls -> {"none", "running", "done"}]
      BY <1>8 DEF StartHandler, TypeOK
    <2> QED BY <1>8, <2>1, <2>2 DEF StartHandler, TypeOK
  <1>9. ASSUME NEW i \in Calls, ReturnUnary(i) PROVE TypeOK'
    <2>1. PICK t \in {"response", "error"} :
              reply' = [reply EXCEPT ![i] = <<M(t, i, 0)>>]
      BY <1>9 DEF ReturnUnary
    <2>2. reply' \in [Calls -> Seq(Msg)]
      BY <2>1, PlainTyped DEF TypeOK
    <2> QED BY <1>9, <2>2 DEF ReturnUnary, TypeOK
  <1>10. ASSUME NEW i \in Calls, SendReply(i) PROVE TypeOK'
    <2>1. PICK m \in Msg : reply[i] = <<m>>
      BY <1>10, ReplyTyped, PlainTyped DEF SendReply
    <2>2. outq' \in Seq(Msg) /\ Len(outq') <= OutCap
      BY <1>10, <2>1, OutqTyped DEF SendReply, TypeOK
    <2> QED BY <1>10, <2>2, EmptySeq DEF SendReply, TypeOK
  <1>11. ASSUME NEW i \in Calls, SendItem(i) PROVE TypeOK'
    <2>1. items[i] + 1 \in 0..MaxItems
      <3>1. items[i] \in 0..MaxItems
        BY DEF TypeOK
      <3>2. items[i] < MaxItems
        BY <1>11 DEF SendItem
      <3> QED BY <3>1, <3>2
    <2>2. M("item", i, items[i] + 1) \in Msg
      BY <2>1, MTyped
    <2>3. sq' \in [Calls -> Seq(Msg)] /\ \A j \in Calls : Len(sq'[j]) <= ItemCap
      BY <1>11, <2>2, SqTyped DEF SendItem
    <2> QED BY <1>11, <2>1, <2>3 DEF SendItem, TypeOK
  <1>12. ASSUME NEW i \in Calls, FailStream(i) PROVE TypeOK'
    BY <1>12 DEF FailStream, TypeOK
  <1>13. ASSUME NEW i \in Calls, SendFailure(i) PROVE TypeOK'
    <2>1. sq' \in [Calls -> Seq(Msg)] /\ \A j \in Calls : Len(sq'[j]) <= ItemCap
      <3>1. CASE /\ Len(sq[i]) < ItemCap
                 /\ sq' = [sq EXCEPT ![i] = Append(@, M("error", i, 0))]
        BY <3>1, PlainTyped, SqTyped
      <3>2. CASE UNCHANGED sq
        BY <3>2 DEF TypeOK
      <3> QED BY <1>13, <3>1, <3>2 DEF SendFailure
    <2> QED BY <1>13, <2>1 DEF SendFailure, TypeOK
  <1>14. ASSUME NEW i \in Calls, ReturnStream(i) PROVE TypeOK'
    <2>1. sq' \in [Calls -> Seq(Msg)] /\ \A j \in Calls : Len(sq'[j]) <= ItemCap
      BY <1>14, DropSenderTyped DEF ReturnStream
    <2> QED BY <1>14, <2>1 DEF ReturnStream, TypeOK
  <1>15. ASSUME NEW i \in Calls, CancelHandler(i) PROVE TypeOK'
    <2>1. sq' \in [Calls -> Seq(Msg)] /\ \A j \in Calls : Len(sq'[j]) <= ItemCap
      BY <1>15, DropSenderTyped DEF CancelHandler
    <2> QED BY <1>15, <2>1, EmptySeq DEF CancelHandler, TypeOK
  <1>16. ASSUME NEW i \in Calls, ForwardTake(i) PROVE TypeOK'
    <2>1. sq[i] \in Seq(Msg) /\ sq[i] # <<>> /\ Len(sq[i]) <= ItemCap
      BY <1>16 DEF ForwardTake, TypeOK
    <2>2. /\ <<Head(sq[i])>> \in Seq(Msg) /\ Tail(sq[i]) \in Seq(Msg)
          /\ Len(Tail(sq[i])) <= ItemCap
      BY <2>1, Taken, HeadTailProperties, LenProperties
    <2> QED BY <1>16, <2>2 DEF ForwardTake, TypeOK
  <1>17. ASSUME NEW i \in Calls, ForwardSend(i) PROVE TypeOK'
    <2>1. PICK m \in Msg : held[i] = <<m>>
      BY <1>17, HeldTyped DEF ForwardSend
    <2>2. outq' \in Seq(Msg) /\ Len(outq') <= OutCap
      BY <1>17, <2>1, OutqTyped DEF ForwardSend, TypeOK
    <2>3. /\ sq' \in [Calls -> Seq(Msg)] /\ held' \in [Calls -> Seq(Msg)]
          /\ \A j \in Calls : Len(sq'[j]) <= ItemCap
      <3>1. sq' = sq \/ sq' = [sq EXCEPT ![i] = <<>>]
        BY <1>17 DEF ForwardSend
      <3>2. held' = [held EXCEPT ![i] = <<>>]
        BY <1>17 DEF ForwardSend
      <3>3. <<>> \in Seq(Msg) /\ Len(<<>>) <= ItemCap
        BY EmptySeq
      <3> QED BY <3>1, <3>2, <3>3 DEF TypeOK
    <2>4. fwd' \in [Calls -> {"none", "running", "done"}]
      BY <1>17 DEF ForwardSend, TypeOK
    <2> QED BY <1>17, <2>2, <2>3, <2>4 DEF ForwardSend, TypeOK
  <1>18. ASSUME NEW i \in Calls, ForwardEnd(i) PROVE TypeOK'
    BY <1>18 DEF ForwardEnd, TypeOK
  <1>19. CASE UNCHANGED vars
    BY <1>19 DEF vars, TypeOK
  <1> QED
    BY <1>1, <1>2, <1>3, <1>4, <1>5, <1>6, <1>7, <1>8, <1>9, <1>10, <1>11,
       <1>12, <1>13, <1>14, <1>15, <1>16, <1>17, <1>18, <1>19
       DEF Next, Loops, Exit, Peer, Task

-----------------------------------------------------------------------------
(* Tasks. *)

\* A step changes one call, and leaves the others alone.
Same(i) == UNCHANGED <<handler[i], method[i], reply[i], fwd[i], held[i], sq[i],
                       items[i]>>

\* Then the other calls' tasks agree as they did.
LEMMA OneCall ==
    ASSUME TasksOK, NEW i \in Calls, TaskOK(i)', Up' => Up,
           \A j \in Calls \ {i} : Same(j)
    PROVE  TasksOK'
  <1>1. ASSUME NEW j \in Calls \ {i} PROVE TaskOK(j)'
    <2>1. TaskOK(j) /\ Same(j)
      BY DEF TasksOK
    <2> QED BY <2>1 DEF TaskOK, Same, M
  <1> QED BY <1>1 DEF TasksOK

\* Every step of PacketServer keeps handlers and forwarders in agreement.
LEMMA NextTasks == TypeOK /\ TasksOK /\ [Next]_vars => TasksOK'
  <1> SUFFICES ASSUME TypeOK, TasksOK, [Next]_vars PROVE TasksOK'
    OBVIOUS
  <1> USE DEF callVars, streamVars
  <1>0. ASSUME NEW i \in Calls
        PROVE  /\ handler \in [Calls -> {"none", "refused", "spawned", "working",
                   "replying", "streaming", "failing", "done", "cancelled"}]
               /\ fwd \in [Calls -> {"none", "running", "done"}]
               /\ method \in [Calls -> Kinds] /\ TaskOK(i)
    BY DEF TypeOK, TasksOK
  <1>a. /\ DOMAIN handler = Calls /\ DOMAIN reply = Calls /\ DOMAIN fwd = Calls
        /\ DOMAIN held = Calls /\ DOMAIN sq = Calls /\ DOMAIN items = Calls
    BY DEF TypeOK
  <1>1. ASSUME UNCHANGED <<handler, method, reply, streamVars>>, Up' => Up
        PROVE  TasksOK'
    BY <1>1 DEF TasksOK, TaskOK, M
  <1>2. ASSUME Loops \/ Exit PROVE TasksOK'
    BY <1>1, <1>2
       DEF Loops, Exit, RunStart, SendRefusal, TxLoop, RunExit, DropServer, Up
  <1>3. ASSUME NEW i \in Calls, RecvBadRequest(i) PROVE TasksOK'
    <2>1. TaskOK(i)'
      BY <1>0, <1>3 DEF RecvBadRequest, TaskOK, M
    <2> QED BY <1>0, <1>3, <2>1, OneCall DEF RecvBadRequest, Same, Up
  <1>4. ASSUME NEW i \in Calls, NEW k \in Kinds, RecvRequest(i, k) PROVE TasksOK'
    <2>1. TaskOK(i)'
      BY <1>0, <1>4 DEF RecvRequest, TaskOK, M
    <2> QED BY <1>0, <1>4, <2>1, OneCall DEF RecvRequest, Same, Up
  <1>5. ASSUME NEW i \in Calls, RecvCancel(i) PROVE TasksOK'
    BY <1>1, <1>5 DEF RecvCancel, Up
  <1>6. ASSUME NEW i \in Calls, StartHandler(i) PROVE TasksOK'
    <2>1. TaskOK(i)'
      <3>0. reply \in [Calls -> Seq(Msg)]
        BY DEF TypeOK
      <3>1. /\ handler[i] = "spawned" /\ fwd[i] = "none" /\ handler'[i] # "spawned"
            /\ UNCHANGED <<method, items, sq, held, Up>>
        BY <1>0, <1>6 DEF StartHandler, TaskOK, Up
      <3>2. CASE /\ handler'[i] = "replying" /\ reply'[i] = <<M("error", i, 0)>>
                 /\ UNCHANGED fwd
        BY <1>0, <3>1, <3>2 DEF TaskOK, M
      <3>3. CASE method[i] = "unary" /\ handler'[i] = "working" /\ UNCHANGED fwd
        BY <1>0, <3>1, <3>3 DEF TaskOK, M
      <3>4. CASE /\ method[i] = "stream" /\ handler'[i] = "streaming"
                 /\ fwd'[i] = "running"
        BY <1>0, <3>1, <3>4 DEF TaskOK, M
      <3> QED BY <1>0, <1>6, <3>0, <3>2, <3>3, <3>4 DEF StartHandler
    <2>2. \A j \in Calls \ {i} : Same(j)
      <3>1. \A j \in Calls \ {i} : UNCHANGED <<handler[j], reply[j], fwd[j]>>
        BY <1>a, <1>6 DEF StartHandler
      <3>2. UNCHANGED <<method, held, sq, items>>
        BY <1>6 DEF StartHandler
      <3> QED BY <3>1, <3>2 DEF Same
    <2> QED BY <1>6, <2>1, <2>2, OneCall DEF StartHandler, Up
  <1>7. ASSUME NEW i \in Calls, ReturnUnary(i) PROVE TasksOK'
    <2>0. reply \in [Calls -> Seq(Msg)]
      BY DEF TypeOK
    <2>1. PICK t \in {"response", "error"} :
              reply' = [reply EXCEPT ![i] = <<M(t, i, 0)>>]
      BY <1>7 DEF ReturnUnary
    <2>2. TaskOK(i)'
      BY <1>0, <1>7, <2>0, <2>1 DEF ReturnUnary, TaskOK, M, Up
    <2> QED BY <1>7, <2>1, <2>2, OneCall DEF ReturnUnary, Same, Up
  <1>8. ASSUME NEW i \in Calls, SendReply(i) PROVE TasksOK'
    <2>1. TaskOK(i)'
      BY <1>0, <1>8 DEF SendReply, TaskOK, M, Up
    <2> QED BY <1>8, <2>1, OneCall DEF SendReply, Same, Up
  <1>9. ASSUME NEW i \in Calls, SendItem(i) PROVE TasksOK'
    <2>1. TaskOK(i)'
      BY <1>0, <1>9 DEF SendItem, TaskOK, M, Up
    <2> QED BY <1>9, <2>1, OneCall DEF SendItem, Same, Up
  <1>10. ASSUME NEW i \in Calls, FailStream(i) PROVE TasksOK'
    <2>1. TaskOK(i)'
      BY <1>0, <1>10 DEF FailStream, TaskOK, M, Up
    <2> QED BY <1>10, <2>1, OneCall DEF FailStream, Same, Up
  <1>11. ASSUME NEW i \in Calls, SendFailure(i) PROVE TasksOK'
    <2>1. TaskOK(i)'
      BY <1>0, <1>11 DEF SendFailure, TaskOK, M, Up
    <2>2. /\ \A j \in Calls \ {i} : UNCHANGED <<handler[j], sq[j]>>
          /\ UNCHANGED <<method, reply, fwd, held, items, Up>>
      BY <1>a, <1>11 DEF SendFailure, Up
    <2> QED BY <2>1, <2>2, OneCall DEF Same
  <1>12. ASSUME NEW i \in Calls, ReturnStream(i) \/ CancelHandler(i) PROVE TasksOK'
    <2>1. /\ handler[i] # "none" /\ handler'[i] \in {"done", "cancelled"}
          /\ handler[i] \in Live /\ DropSender(i)
          /\ handler'[i] = "done" => handler[i] = "streaming"
          /\ UNCHANGED <<method, items, fwd, held, Up>>
          /\ \A j \in Calls \ {i} : UNCHANGED <<handler[j], reply[j]>>
      <3>1. CASE ReturnStream(i)
        BY <1>0, <1>a, <3>1 DEF ReturnStream, Live, Up
      <3>2. CASE CancelHandler(i)
        BY <1>0, <1>a, <3>2 DEF CancelHandler, Live, Up
      <3> QED BY <1>12, <3>1, <3>2
    <2>2. /\ \A j \in Calls \ {i} : UNCHANGED sq[j]
          /\ fwd[i] # "running" => UNCHANGED sq[i]
      BY <2>1 DEF DropSender
    <2>3. TaskOK(i)'
      BY <1>0, <2>1, <2>2 DEF TaskOK, M
    <2> QED BY <2>1, <2>2, <2>3, OneCall DEF Same
  <1>13. ASSUME NEW i \in Calls, ForwardTake(i) PROVE TasksOK'
    <2>1. Len(<<Head(sq[i])>>) <= 1
      OBVIOUS
    <2>2. held'[i] = <<Head(sq[i])>>
      BY <1>13 DEF ForwardTake, TypeOK
    <2>3. TaskOK(i)'
      BY <1>0, <1>13, <2>1, <2>2 DEF ForwardTake, TaskOK, M, Up
    <2> QED BY <1>13, <2>3, OneCall DEF ForwardTake, Same, Up
  <1>14. ASSUME NEW i \in Calls, ForwardSend(i) PROVE TasksOK'
    <2>1. held'[i] = <<>> /\ fwd[i] = "running" /\ Len(<<>>) <= 1
      BY <1>14, HeldTyped DEF ForwardSend, TypeOK
    <2>2. sq \in [Calls -> Seq(Msg)]
      BY DEF TypeOK
    <2>3. TaskOK(i)'
      <3>1. /\ fwd'[i] # "running" => sq'[i] = <<>>
            /\ fwd'[i] = "done" => ~Up'
            /\ fwd'[i] # "none"
            /\ UNCHANGED <<handler, method, reply, items>>
        BY <1>0, <1>14, <2>1, <2>2 DEF ForwardSend, OutGone, Up
      <3> QED BY <1>0, <2>1, <3>1 DEF TaskOK, M
    <2>4. /\ \A j \in Calls \ {i} : UNCHANGED <<fwd[j], held[j], sq[j]>>
          /\ UNCHANGED <<handler, method, reply, items, Up>>
      BY <1>a, <1>14 DEF ForwardSend, Up
    <2> QED BY <2>3, <2>4, OneCall DEF Same
  <1>15. ASSUME NEW i \in Calls, ForwardEnd(i) PROVE TasksOK'
    <2>1. TaskOK(i)'
      BY <1>0, <1>15 DEF ForwardEnd, TaskOK, M, Up
    <2> QED BY <1>15, <2>1, OneCall DEF ForwardEnd, Same, Up
  <1>16. CASE UNCHANGED vars
    BY <1>1, <1>16 DEF vars, Up
  <1> QED
    BY <1>2, <1>3, <1>4, <1>5, <1>6, <1>7, <1>8, <1>9, <1>10, <1>11, <1>12,
       <1>13, <1>14, <1>15, <1>16 DEF Next, Peer, Task

\* The decode error that the receive loop sends is of a call it refused.
LEMMA NextRefusal == TypeOK /\ RefusalOK /\ [Next]_vars => RefusalOK'
  <1> SUFFICES ASSUME TypeOK, RefusalOK, [Next]_vars PROVE RefusalOK'
    OBVIOUS
  <1> USE DEF callVars, streamVars, RefusalOK
  <1>0. handler \in [Calls -> {"none", "refused", "spawned", "working",
            "replying", "streaming", "failing", "done", "cancelled"}]
    BY DEF TypeOK
  <1>1. ASSUME UNCHANGED <<handler, refusal, srv>> PROVE RefusalOK'
    BY <1>1 DEF M
  <1>2. ASSUME UNCHANGED <<refusal, srv>>, NEW i \in Calls,
               handler[i] # "refused",
               \A j \in Calls \ {i} : UNCHANGED handler[j]
        PROVE  RefusalOK'
    BY <1>2 DEF M
  <1>3. ASSUME RunStart \/ SendRefusal \/ RunExit \/ DropServer PROVE RefusalOK'
    BY <1>3 DEF RunStart, SendRefusal, RunExit, DropServer
  <1>4. ASSUME NEW i \in Calls, RecvBadRequest(i) PROVE RefusalOK'
    BY <1>0, <1>4 DEF RecvBadRequest, Receiving, M
  <1>5. ASSUME NEW i \in Calls, NEW k \in Kinds, RecvRequest(i, k)
        PROVE  RefusalOK'
    BY <1>2, <1>5 DEF RecvRequest
  <1>6. ASSUME TxLoop PROVE RefusalOK'
    BY <1>1, <1>6 DEF TxLoop
  <1>7. ASSUME NEW i \in Calls, Task(i) PROVE RefusalOK'
    <2>1. CASE ForwardTake(i) \/ ForwardSend(i) \/ ForwardEnd(i) \/ SendItem(i)
      BY <1>1, <2>1 DEF ForwardTake, ForwardSend, ForwardEnd, SendItem
    <2>2. CASE StartHandler(i) \/ ReturnUnary(i) \/ SendReply(i)
      <3>1. /\ UNCHANGED <<refusal, srv>> /\ handler[i] # "refused"
            /\ \A j \in Calls \ {i} : UNCHANGED handler[j]
        BY <1>0, <2>2 DEF StartHandler, ReturnUnary, SendReply
      <3> QED BY <1>2, <3>1
    <2>3. CASE FailStream(i) \/ SendFailure(i)
      <3>1. /\ UNCHANGED <<refusal, srv>> /\ handler[i] # "refused"
            /\ \A j \in Calls \ {i} : UNCHANGED handler[j]
        BY <1>0, <2>3 DEF FailStream, SendFailure
      <3> QED BY <1>2, <3>1
    <2>4. CASE ReturnStream(i) \/ CancelHandler(i)
      <3>1. /\ UNCHANGED <<refusal, srv>> /\ handler[i] # "refused"
            /\ \A j \in Calls \ {i} : UNCHANGED handler[j]
        BY <1>0, <2>4 DEF ReturnStream, CancelHandler, Live
      <3> QED BY <1>2, <3>1
    <2> QED BY <1>7, <2>1, <2>2, <2>3, <2>4 DEF Task
  <1>8. CASE UNCHANGED vars
    BY <1>1, <1>8 DEF vars
  <1>9. ASSUME NEW i \in Calls, RecvCancel(i) PROVE RefusalOK'
    BY <1>1, <1>9 DEF RecvCancel
  <1> QED BY <1>3, <1>4, <1>5, <1>6, <1>7, <1>8, <1>9 DEF Next, Loops, Exit, Peer

-----------------------------------------------------------------------------
(* Queues of streams. *)

\* The number of items is one.
LEMMA ItemsTyped == TypeOK => \A i \in Calls : items[i] \in Nat
  <1>1. TypeOK => items \in [Calls -> 0..MaxItems]
    BY DEF TypeOK
  <1> QED BY <1>1

\* A handler that may still send has not ended its queue.
LEMMA NotEnded ==
    ASSUME TypeOK, NEW i \in Calls, QueueOK(i),
           handler[i] \notin {"done", "cancelled"}
    PROVE  ~Ended(Queue(i)) /\ Forwarded(i) = items[i] - Len(Queue(i))
  <1>1. ~Ended(Queue(i))
    <2>1. SUFFICES ASSUME Queue(i) # <<>>, Queue(i)[Len(Queue(i))].type # "item"
                   PROVE  FALSE
      BY DEF Ended
    <2>2. Len(Queue(i)) \in Nat \ {0}
      BY <2>1, QueueTyped, EmptySeq
    <2>3. Len(Queue(i)) \in DOMAIN Queue(i)
      BY <2>2, QueueTyped
    <2> QED BY <2>1, <2>3 DEF QueueOK
  <1>2. items[i] \in Nat /\ Len(Queue(i)) \in Nat
    BY QueueTyped, ItemsTyped
  <1> QED BY <1>1, <1>2 DEF Forwarded

\* StreamSender::send: the next item goes behind the others.
LEMMA ItemQueued ==
    ASSUME TypeOK, NEW i \in Calls, QueueOK(i), handler[i] = "streaming",
           NEW m \in Msg, m = M("item", i, items[i] + 1),
           handler' = handler, items'[i] = items[i] + 1,
           Queue(i)' = Append(Queue(i), m)
    PROVE  QueueOK(i)' /\ Forwarded(i)' = Forwarded(i)
  <1> DEFINE q == Queue(i)
             len == Len(q)
             f == Forwarded(i)
  <1>1. /\ q \in Seq(Msg) /\ len \in Nat /\ DOMAIN q = 1..len
        /\ items[i] \in Nat /\ f = items[i] - len /\ f \in Nat
    <2>1. f \in Nat
      BY DEF QueueOK
    <2> QED BY <2>1, QueueTyped, NotEnded, ItemsTyped
  <1>2. /\ Len(q') = len + 1 /\ DOMAIN q' = 1..(len + 1)
        /\ q'[len + 1] = m /\ \A n \in 1..len : q'[n] = q[n]
        /\ q' # <<>>
    BY <1>1, AppendProperties, LenProperties
  <1>3. m.id = i /\ m.type = "item" /\ m.body = items[i] + 1
    BY DEF M
  <1>4. ~Ended(q')
    BY <1>2, <1>3 DEF Ended
  <1>5. f' = items'[i] - (len + 1)
    BY <1>1, <1>2, <1>4 DEF Forwarded
  <1>6. f' = f
    BY <1>1, <1>5
  <1>7. ASSUME NEW n \in DOMAIN q'
        PROVE  /\ q'[n].id = i /\ q'[n].type = "item" /\ q'[n].body = f + n
    <2>1. CASE n \in 1..len
      <3>1. q'[n] = q[n] /\ n \in DOMAIN q
        BY <1>1, <1>2, <2>1
      <3>2. q[n].type = "item"
        BY <3>1 DEF QueueOK
      <3> QED BY <3>1, <3>2 DEF QueueOK
    <2>2. CASE n = len + 1
      BY <1>1, <1>2, <1>3, <2>2
    <2> QED BY <1>1, <1>2, <2>1, <2>2
  <1> QED BY <1>1, <1>6, <1>7 DEF QueueOK

\* An ending goes behind everything, and the handler is done.
LEMMA EndingQueued ==
    ASSUME TypeOK, NEW i \in Calls, QueueOK(i),
           handler[i] \notin {"done", "cancelled"},
           handler'[i] \in {"done", "cancelled"},
           NEW m \in Msg, m.id = i, m.type \in {"end", "error"},
           items' = items, Queue(i)' = Append(Queue(i), m)
    PROVE  QueueOK(i)' /\ Forwarded(i)' = Forwarded(i)
  <1> DEFINE q == Queue(i)
             len == Len(q)
             f == Forwarded(i)
  <1>1. /\ q \in Seq(Msg) /\ len \in Nat /\ DOMAIN q = 1..len
        /\ items[i] \in Nat /\ f = items[i] - len /\ f \in Nat
    <2>1. f \in Nat
      BY DEF QueueOK
    <2> QED BY <2>1, QueueTyped, NotEnded, ItemsTyped
  <1>2. /\ Len(q') = len + 1 /\ DOMAIN q' = 1..(len + 1)
        /\ q'[len + 1] = m /\ \A n \in 1..len : q'[n] = q[n]
        /\ q' # <<>>
    BY <1>1, AppendProperties, LenProperties
  <1>4. Ended(q')
    BY <1>2 DEF Ended
  <1>5. f' = items'[i] + 1 - (len + 1)
    BY <1>1, <1>2, <1>4 DEF Forwarded
  <1>6. f' = f
    BY <1>1, <1>5
  <1>7. ASSUME NEW n \in 1..len
        PROVE  /\ q'[n].id = i /\ q'[n].type = "item" /\ q'[n].body = f + n
    <2>1. q'[n] = q[n] /\ n \in DOMAIN q
      BY <1>1, <1>2
    <2>2. q[n].type = "item"
      BY <2>1 DEF QueueOK
    <2> QED BY <2>1, <2>2 DEF QueueOK
  <1>8. \A n \in DOMAIN q' : n \in 1..len \/ n = len + 1
    BY <1>1, <1>2
  <1> QED BY <1>1, <1>2, <1>6, <1>7, <1>8 DEF QueueOK

\* The forwarder passes the first message on: the next item, or the ending.
LEMMA HeadForwarded ==
    ASSUME TypeOK, NEW i \in Calls, QueueOK(i), NEW m \in Msg,
           held[i] = <<m>>, Queue(i)' = sq[i],
           UNCHANGED <<handler, items>>
    PROVE  /\ QueueOK(i)' /\ m.id = i
           /\ m.type = "item" =>
                  Forwarded(i)' = Forwarded(i) + 1 /\ m.body = Forwarded(i) + 1
           /\ m.type # "item" =>
                  /\ m.type \in {"end", "error"}
                  /\ Forwarded(i)' = Forwarded(i) /\ Queue(i)' = <<>>
                  /\ handler[i] \in {"done", "cancelled"}
  <1> DEFINE q == Queue(i)
             s == sq[i]
             f == Forwarded(i)
  <1>1. /\ s \in Seq(Msg) /\ Len(s) \in Nat /\ DOMAIN s = 1..Len(s)
        /\ items[i] \in Nat /\ f \in Nat
    <2>1. s \in Seq(Msg) /\ f \in Nat
      BY DEF TypeOK, QueueOK
    <2> QED BY <2>1, LenProperties, ItemsTyped
  <1>2. /\ Len(q) = Len(s) + 1 /\ q[1] = m
        /\ \A n \in 1..Len(s) : q[n + 1] = s[n]
        /\ DOMAIN q = 1..(Len(s) + 1) /\ q # <<>>
    <2>1. <<m>> \in Seq(Msg) /\ Len(<<m>>) = 1 /\ <<m>>[1] = m
      OBVIOUS
    <2>2. q = <<m>> \o s
      BY DEF Queue
    <2>3. q \in Seq(Msg) /\ Len(q) = Len(s) + 1 /\ q[1] = m
      BY <1>1, <2>1, <2>2, ConcatProperties
    <2>4. \A n \in 1..Len(s) : q[n + 1] = s[n]
      BY <1>1, <2>1, <2>2, ConcatProperties
    <2>5. q # <<>>
      BY <1>1, <2>3
    <2> QED BY <2>3, <2>4, <2>5, LenProperties
  <1>3. 1 \in DOMAIN q /\ \A n \in 1..Len(s) : n + 1 \in DOMAIN q
    BY <1>1, <1>2
  <1>4. m.id = i /\ (m.type = "item" => m.body = f + 1)
    BY <1>2, <1>3 DEF QueueOK
  <1>5. CASE m.type = "item"
    <2>1. Ended(q) <=> Ended(s)
      <3>1. CASE s = <<>>
        <4>1. Len(s) = 0
          BY <3>1
        <4> QED BY <1>2, <1>5, <3>1, <4>1 DEF Ended
      <3>2. CASE s # <<>>
        <4>1. Len(s) \in Nat \ {0}
          BY <1>1, <3>2, EmptySeq
        <4>2. q[Len(q)] = s[Len(s)]
          BY <1>2, <4>1
        <4> QED BY <1>2, <3>2, <4>2 DEF Ended
      <3> QED BY <3>1, <3>2
    <2>2. /\ f = items[i] + (IF Ended(q) THEN 1 ELSE 0) - (Len(s) + 1)
          /\ f' = items[i] + (IF Ended(s) THEN 1 ELSE 0) - Len(s)
      BY <1>2 DEF Forwarded
    <2>3. f' = f + 1
      <3>1. \A a, b \in Nat : \A c \in {0, 1} : a + c - b = (a + c - (b + 1)) + 1
        OBVIOUS
      <3>2. PICK c \in {0, 1} : /\ f  = items[i] + c - (Len(s) + 1)
                               /\ f' = items[i] + c - Len(s)
        BY <2>1, <2>2
      <3> QED BY <1>1, <3>1, <3>2
    <2>4. ASSUME NEW n \in DOMAIN s
          PROVE  /\ s[n].id = i
                 /\ s[n].type = "item" => s[n].body = f' + n
                 /\ s[n].type # "item" =>
                        /\ n = Len(s) /\ s[n].type \in {"end", "error"}
                        /\ handler[i] \in {"done", "cancelled"}
      <3>1. n \in 1..Len(s) /\ n + 1 \in DOMAIN q /\ q[n + 1] = s[n]
        BY <1>1, <1>2, <1>3
      <3>2. /\ s[n].id = i
            /\ s[n].type = "item" => s[n].body = f + (n + 1)
            /\ s[n].type # "item" =>
                   /\ n + 1 = Len(q) /\ s[n].type \in {"end", "error"}
                   /\ handler[i] \in {"done", "cancelled"}
        BY <3>1 DEF QueueOK
      <3>3. f + (n + 1) = f' + n /\ (n + 1 = Len(q) => n = Len(s))
        <4>1. /\ \A a, b \in Nat : a + (b + 1) = (a + 1) + b
              /\ \A a, b \in Nat : a + 1 = b + 1 => a = b
          OBVIOUS
        <4>2. n \in Nat /\ f \in Nat /\ Len(s) \in Nat /\ Len(q) = Len(s) + 1
          BY <1>1, <1>2, <3>1
        <4>3. f + (n + 1) = (f + 1) + n
          BY <4>1, <4>2
        <4>4. n + 1 = Len(q) => n = Len(s)
          BY <4>1, <4>2
        <4> QED BY <2>3, <4>3, <4>4
      <3> QED BY <3>2, <3>3
    <2>5. QueueOK(i)'
      BY <1>1, <2>3, <2>4 DEF QueueOK
    <2> QED BY <1>4, <1>5, <2>3, <2>5
  <1>6. CASE m.type # "item"
    <2>1. /\ 1 = Len(q) /\ m.type \in {"end", "error"}
          /\ handler[i] \in {"done", "cancelled"}
      BY <1>2, <1>3, <1>6 DEF QueueOK
    <2>2. Len(s) = 0 /\ s = <<>>
      BY <1>1, <1>2, <2>1, EmptySeq
    <2>3. Ended(q) /\ ~Ended(s)
      BY <1>2, <1>6, <2>1, <2>2 DEF Ended
    <2>4. f = items[i] + 1 - 1 /\ f' = items[i] + 0 - 0
      BY <2>1, <2>2, <2>3 DEF Forwarded
    <2>5. f' = f
      BY <1>1, <2>4
    <2>6. QueueOK(i)'
      BY <1>1, <2>2, <2>5 DEF QueueOK
    <2> QED BY <1>4, <1>6, <2>1, <2>2, <2>5, <2>6
  <1> QED BY <1>5, <1>6

\* What most steps do to the queue of a call: nothing gets past the forwarder,
\* and a queue that ended stays empty.
QueueKept(i) ==
    /\ QueueOK(i)' /\ Forwarded(i)' = Forwarded(i)
    /\ handler[i] \in {"done", "cancelled"} =>
           Queue(i)' = Queue(i) /\ handler'[i] = handler[i]

\* A step that leaves the queue alone, and a handler that is done.
LEMMA QueueUntouched ==
    ASSUME TypeOK, NEW i \in Calls, QueueOK(i), Queue(i)' = Queue(i),
           items'[i] = items[i],
           handler[i] \in {"done", "cancelled"} => handler'[i] = handler[i]
    PROVE  QueueKept(i)
  <1>1. Forwarded(i)' = Forwarded(i)
    BY DEF Forwarded
  <1> QED BY <1>1 DEF QueueKept, QueueOK

\* What is put into a stream's queue is behind what the forwarder holds.
LEMMA QueueAppended ==
    ASSUME TypeOK, NEW i \in Calls, NEW m \in Msg,
           sq' = [sq EXCEPT ![i] = Append(@, m)], held' = held
    PROVE  /\ Queue(i)' = Append(Queue(i), m)
           /\ \A j \in Calls \ {i} : Queue(j)' = Queue(j)
  <1>1. sq'[i] = Append(sq[i], m) /\ \A j \in Calls \ {i} : sq'[j] = sq[j]
    BY DEF TypeOK
  <1>2. held[i] \in Seq(Msg) /\ sq[i] \in Seq(Msg)
    BY DEF TypeOK
  <1>3. held[i] \o (sq[i] \o <<m>>) = (held[i] \o sq[i]) \o <<m>>
    <2>1. <<m>> \in Seq(Msg)
      OBVIOUS
    <2>2. \A a, b, c \in Seq(Msg) : (a \o b) \o c = a \o (b \o c)
      BY ConcatAssociative
    <2> QED BY <1>2, <2>1, <2>2
  <1>4. Queue(i)' = Append(Queue(i), m)
    BY <1>1, <1>2, <1>3, QueueTyped, Longer DEF Queue
  <1> QED BY <1>1, <1>4 DEF Queue

\* The end of a handler, with or without an ending for its stream.
LEMMA HandlerEnds ==
    ASSUME TypeOK, QueuesOK, Up, NEW i \in Calls,
           handler[i] \notin {"done", "cancelled"},
           handler'[i] \in {"done", "cancelled"},
           \A j \in Calls \ {i} : handler'[j] = handler[j],
           UNCHANGED <<items, held>>, NEW m \in Msg,
           m.id = i, m.type \in {"end", "error"},
           sq' = sq \/ sq' = [sq EXCEPT ![i] = Append(@, m)]
    PROVE  \A j \in Calls : QueueKept(j)
  <1>1. \A j \in Calls : QueueOK(j)
    BY DEF QueuesOK
  <1>2. CASE sq' = sq
    <2>1. \A j \in Calls : Queue(j)' = Queue(j)
      BY <1>2 DEF Queue
    <2> QED BY <1>1, <2>1, QueueUntouched
  <1>3. CASE sq' = [sq EXCEPT ![i] = Append(@, m)]
    <2>1. QueueKept(i)
      BY <1>1, <1>3, QueueAppended, EndingQueued DEF QueueKept
    <2>2. \A j \in Calls \ {i} : QueueKept(j)
      BY <1>1, <1>3, QueueAppended, QueueUntouched
    <2> QED BY <2>1, <2>2
  <1> QED BY <1>2, <1>3

\* On a live server the forwarder passes on what it holds.
LEMMA ForwardSends ==
    ASSUME TypeOK, TasksOK, QueuesOK, Up, NEW i \in Calls, ForwardSend(i)
    PROVE  /\ QueueOK(i)' /\ Queue(i)' = sq[i]
           /\ \A j \in Calls \ {i} : QueueKept(j)
  <1>0. \A j \in Calls : QueueOK(j)
    BY DEF QueuesOK
  <1>1. PICK m \in Msg : held[i] = <<m>>
    BY HeldTyped DEF ForwardSend
  <1>2. ~OutGone
    BY DEF Up, OutGone
  <1>3. /\ held'[i] = <<>> /\ UNCHANGED <<handler, items, sq>>
        /\ \A j \in Calls \ {i} : held'[j] = held[j]
    BY <1>2 DEF ForwardSend, TypeOK
  <1>4. Queue(i)' = sq[i]
    <2>1. sq[i] \in Seq(Msg)
      BY DEF TypeOK
    <2> QED BY <1>3, <2>1, ConcatEmptySeq DEF Queue
  <1>5. QueueOK(i)'
    BY <1>0, <1>1, <1>3, <1>4, HeadForwarded
  <1>6. \A j \in Calls \ {i} : Queue(j)' = Queue(j)
    BY <1>3 DEF Queue
  <1> QED BY <1>0, <1>3, <1>4, <1>5, <1>6, QueueUntouched

\* Nothing else gets past a forwarder.
LEMMA NextQueues ==
    ASSUME TypeOK, TasksOK, QueuesOK, Up, Up', [Next]_vars,
           \A i \in Calls : ~ForwardSend(i)
    PROVE  \A j \in Calls : QueueKept(j)
  <1> USE DEF callVars, streamVars
  <1>0. /\ \A j \in Calls : QueueOK(j)
        /\ DOMAIN handler = Calls /\ DOMAIN items = Calls
    BY DEF QueuesOK, TypeOK
  <1>1. ASSUME UNCHANGED <<items, held, sq>>,
               \A j \in Calls : handler[j] \in {"done", "cancelled"} =>
                                    handler'[j] = handler[j]
        PROVE  \A j \in Calls : QueueKept(j)
    <2>1. \A j \in Calls : Queue(j)' = Queue(j)
      BY <1>1 DEF Queue
    <2> QED BY <1>0, <1>1, <2>1, QueueUntouched
  <1>2. ASSUME Loops \/ Exit PROVE \A j \in Calls : QueueKept(j)
    BY <1>1, <1>2
       DEF Loops, Exit, RunStart, SendRefusal, TxLoop, RunExit, DropServer
  <1>3. ASSUME NEW i \in Calls, RecvBadRequest(i) PROVE \A j \in Calls : QueueKept(j)
    <2>1. \A j \in Calls : handler[j] # "none" => handler'[j] = handler[j]
      BY <1>0, <1>3 DEF RecvBadRequest
    <2> QED BY <1>1, <1>3, <2>1 DEF RecvBadRequest
  <1>4. ASSUME NEW i \in Calls, NEW k \in Kinds, RecvRequest(i, k)
        PROVE  \A j \in Calls : QueueKept(j)
    <2>1. \A j \in Calls : handler[j] # "none" => handler'[j] = handler[j]
      BY <1>0, <1>4 DEF RecvRequest
    <2> QED BY <1>1, <1>4, <2>1 DEF RecvRequest
  <1>5. ASSUME NEW i \in Calls, RecvCancel(i) PROVE \A j \in Calls : QueueKept(j)
    BY <1>1, <1>5 DEF RecvCancel
  <1>6. ASSUME NEW i \in Calls,
               StartHandler(i) \/ ReturnUnary(i) \/ SendReply(i) \/ FailStream(i)
        PROVE  \A j \in Calls : QueueKept(j)
    <2>1. handler[i] \notin {"done", "cancelled"} /\ UNCHANGED <<items, held, sq>>
      BY <1>6 DEF StartHandler, ReturnUnary, SendReply, FailStream
    <2>2. \A j \in Calls \ {i} : handler'[j] = handler[j]
      BY <1>0, <1>6 DEF StartHandler, ReturnUnary, SendReply, FailStream
    <2> QED BY <1>1, <2>1, <2>2
  <1>7. ASSUME NEW i \in Calls, SendItem(i) PROVE \A j \in Calls : QueueKept(j)
    <2>1. /\ handler[i] = "streaming" /\ UNCHANGED <<handler, held>>
          /\ items' = [items EXCEPT ![i] = @ + 1]
          /\ items[i] < MaxItems
      BY <1>7 DEF SendItem
    <2>2. PICK m \in Msg : m = M("item", i, items[i] + 1)
      <3>1. items[i] \in Nat /\ MaxItems \in Nat
        BY ItemsTyped, ServerAssumption
      <3>2. items[i] + 1 \in 0..MaxItems
        BY <2>1, <3>1
      <3> QED BY <3>2, MTyped
    <2>3. sq' = [sq EXCEPT ![i] = Append(@, m)]
      BY <1>7, <2>2 DEF SendItem
    <2>4. items'[i] = items[i] + 1 /\ \A j \in Calls \ {i} : items'[j] = items[j]
      BY <1>0, <2>1
    <2>5. QueueKept(i)
      <3>1. Queue(i)' = Append(Queue(i), m)
        BY <2>1, <2>3, QueueAppended
      <3>2. QueueOK(i)' /\ Forwarded(i)' = Forwarded(i)
        BY <1>0, <2>1, <2>2, <2>4, <3>1, ItemQueued
      <3> QED BY <2>1, <3>2 DEF QueueKept
    <2>6. \A j \in Calls \ {i} : QueueKept(j)
      <3>1. \A j \in Calls \ {i} : Queue(j)' = Queue(j)
        BY <2>1, <2>3, QueueAppended
      <3> QED BY <1>0, <2>1, <2>4, <3>1, QueueUntouched
    <2> QED BY <2>5, <2>6
  <1>8. ASSUME NEW i \in Calls, SendFailure(i) PROVE \A j \in Calls : QueueKept(j)
    <2>1. PICK m \in Msg : m = M("error", i, 0) /\ m.id = i /\ m.type = "error"
      BY PlainTyped
    <2>2. /\ handler[i] \notin {"done", "cancelled"} /\ handler'[i] = "done"
          /\ \A j \in Calls \ {i} : handler'[j] = handler[j]
          /\ UNCHANGED <<items, held>>
      BY <1>0, <1>8 DEF SendFailure
    <2>3. sq' = sq \/ sq' = [sq EXCEPT ![i] = Append(@, m)]
      BY <1>8, <2>1 DEF SendFailure
    <2> QED BY <2>1, <2>2, <2>3, HandlerEnds
  <1>9. ASSUME NEW i \in Calls, ReturnStream(i) \/ CancelHandler(i)
        PROVE  \A j \in Calls : QueueKept(j)
    <2>1. PICK m \in Msg : m = M("end", i, 0) /\ m.id = i /\ m.type = "end"
      BY PlainTyped
    <2>2. /\ handler[i] \notin {"done", "cancelled"}
          /\ handler'[i] \in {"done", "cancelled"}
          /\ \A j \in Calls \ {i} : handler'[j] = handler[j]
          /\ UNCHANGED <<items, held>> /\ DropSender(i)
      BY <1>0, <1>9 DEF ReturnStream, CancelHandler, Live
    <2>3. sq' = sq \/ sq' = [sq EXCEPT ![i] = Append(@, m)]
      BY <2>1, <2>2, DropSenderCases
    <2> QED BY <2>1, <2>2, <2>3, HandlerEnds
  <1>10. ASSUME NEW i \in Calls, ForwardTake(i) PROVE \A j \in Calls : QueueKept(j)
    <2>1. /\ held[i] = <<>> /\ sq[i] # <<>> /\ sq[i] \in Seq(Msg)
          /\ held'[i] = <<Head(sq[i])>> /\ sq'[i] = Tail(sq[i])
          /\ \A j \in Calls \ {i} : held'[j] = held[j] /\ sq'[j] = sq[j]
          /\ UNCHANGED <<handler, items>>
      BY <1>10 DEF ForwardTake, TypeOK
    <2>2. Queue(i)' = Queue(i)
      <3>1. <<>> \o sq[i] = sq[i]
        BY <2>1, ConcatEmptySeq
      <3>2. sq[i] = <<Head(sq[i])>> \o Tail(sq[i])
        BY <2>1, Taken
      <3> QED BY <2>1, <3>1, <3>2 DEF Queue
    <2>3. \A j \in Calls : Queue(j)' = Queue(j)
      BY <2>1, <2>2 DEF Queue
    <2> QED BY <1>0, <2>1, <2>3, QueueUntouched
  <1>11. ASSUME NEW i \in Calls, ForwardEnd(i) PROVE \A j \in Calls : QueueKept(j)
    BY <1>1, <1>11 DEF ForwardEnd
  <1>12. CASE UNCHANGED vars
    BY <1>1, <1>12 DEF vars
  <1> QED
    BY <1>2, <1>3, <1>4, <1>5, <1>6, <1>7, <1>8, <1>9, <1>10, <1>11, <1>12
       DEF Next, Peer, Task

-----------------------------------------------------------------------------
(* What was given to the connection. *)

\* What a call has done does not get undone, and what is new was written.
Done(i) == Refused(i) \/ Replied(i)
Onward(i) ==
    /\ Refused(i) => Refused(i)'
    /\ Replied(i) => Replied(i)'
    /\ Drained(i) => Drained(i)'
    /\ fwd[i] # "none" => fwd'[i] # "none"

\* Such a step keeps the account of what was given before.
LEMMA AccountKept ==
    ASSUME TypeOK, NEW m \in Msg, Accounted(m), Onward(m.id),
           Forwarded(m.id) \in Nat, Forwarded(m.id)' \in Nat,
           Forwarded(m.id)' >= Forwarded(m.id)
    PROVE  Accounted(m)'
  <1>1. CASE m.type = "item"
    <2>1. fwd[m.id] # "none" /\ m.body \in 1..Forwarded(m.id)
      BY <1>1 DEF Accounted
    <2>2. m.body \in 1..(Forwarded(m.id)')
      BY <2>1
    <2> QED BY <1>1, <2>1, <2>2 DEF Accounted, Onward
  <1>2. CASE m.type # "item"
    BY <1>2 DEF Accounted, Onward
  <1> QED BY <1>1, <1>2

\* A step that gives nothing to the connection.
LEMMA OutKept ==
    ASSUME TypeOK, QueuesOK, OutOK, Up, Out' = Out,
           \A i \in Calls : Forwarded(i)' = Forwarded(i) /\ Onward(i),
           \A i \in Calls : Done(i)' => Done(i),
           \A n \in DOMAIN Out : method'[Out[n].id] = method[Out[n].id]
    PROVE  OutOK'
  <1>1. \A n \in DOMAIN Out : Out[n] \in Msg /\ Out[n].id \in Calls
    BY OutTyped
  <1>2. InOrder(Out)'
    BY <1>1 DEF OutOK, InOrder, M
  <1>3. \A i \in Calls : Forwarded(i) \in Nat
    BY DEF QueuesOK, QueueOK
  <1>4. ASSUME NEW n \in DOMAIN Out PROVE Accounted(Out[n])'
    <2> DEFINE m == Out[n]
    <2>1. m \in Msg /\ m.id \in Calls /\ m' = m /\ Accounted(m)
      BY <1>1 DEF OutOK, OutAccounted
    <2>2. Onward(m.id) /\ Forwarded(m.id)' = Forwarded(m.id) /\ Forwarded(m.id) \in Nat
      BY <1>3, <2>1
    <2> HIDE DEF m
    <2>3. Accounted(m)'
      BY <2>1, <2>2, AccountKept
    <2> QED BY <2>3 DEF m
  <1>5. OutAccounted'
    BY <1>4 DEF OutAccounted
  <1>6. OutComplete'
    BY DEF OutOK, OutComplete, Done, M
  <1> QED BY <1>2, <1>5, <1>6 DEF OutOK

\* A step that gives one message to the connection: of a call that gave
\* nothing but items so far, lesser ones if it is an item.
LEMMA OutGrows ==
    ASSUME TypeOK, QueuesOK, OutOK, Up, QueuesOK', Up', method' = method,
           NEW m \in Msg, outq' = outq \o <<m>>, s2c' = s2c,
           m.type \in IF method[m.id] = "unary" THEN {"response", "error"}
                                                ELSE {"item", "end", "error"},
           \A i \in Calls : Onward(i) /\ Forwarded(i)' >= Forwarded(i),
           \A i \in Calls : \/ Forwarded(i)' = Forwarded(i)
                            \/ m = M("item", i, Forwarded(i)'),
           \A i \in Calls : Done(i)' => Done(i) \/ m.id = i,
           Accounted(m)',
           \A x \in Msg : Accounted(x) /\ x.id = m.id =>
               x.type = "item" /\ (m.type = "item" => x.body < m.body),
           m.type = "item" /\ m.body # 1 =>
               \E n \in DOMAIN Out : Out[n] = M("item", m.id, m.body - 1)
    PROVE  OutOK'
  <1> DEFINE last == Len(Out) + 1
  <1>1. /\ Out' = Append(Out, m) /\ last \in Nat
        /\ DOMAIN Out' = DOMAIN Out \cup {last} /\ Out'[last] = m
        /\ \A n \in DOMAIN Out : Out'[n] = Out[n] /\ n \in 1..(last - 1)
    <2>1. Out' = Append(Out, m) /\ Out \in Seq(Msg) /\ Len(Out) \in Nat
      BY OutQueued, OutTyped
    <2>2. DOMAIN Out' = DOMAIN Out \cup {last} /\ Out'[last] = m
      BY <2>1, Longer
    <2>3. \A n \in DOMAIN Out : Out'[n] = Out[n] /\ n \in 1..(last - 1)
      BY <2>1, Longer
    <2> QED BY <2>1, <2>2, <2>3
  <1>2. /\ \A n \in DOMAIN Out : Out[n] \in Msg /\ Out[n].id \in Calls
                                /\ \A k \in 1..(n - 1) : k \in DOMAIN Out
        /\ \A k \in 1..(last - 1) : k \in DOMAIN Out
        /\ m.id \in Calls
    <2>1. /\ DOMAIN Out = 1..Len(Out) /\ Len(Out) \in Nat
          /\ \A n \in DOMAIN Out : Out[n] \in Msg /\ Out[n].id \in Calls
      BY OutTyped
    <2>2. m.id \in Calls
      BY DEF Msg
    <2> QED BY <2>1, <2>2
  <1> HIDE DEF last
  <1>3. \A n \in DOMAIN Out : Accounted(Out[n])
    BY DEF OutOK, OutAccounted
  <1>4. InOrder(Out)'
    <2>1. ASSUME NEW n \in DOMAIN Out
          PROVE  LET x == Out[n] IN
                 /\ x.type \in IF method[x.id] = "unary" THEN {"response", "error"}
                                                         ELSE {"item", "end", "error"}
                 /\ \A k \in 1..(n - 1) : Out'[k].id = x.id =>
                        /\ Out'[k].type = "item"
                        /\ x.type = "item" => Out'[k].body < x.body
                 /\ x.type = "item" /\ x.body # 1 =>
                        \E k \in 1..(n - 1) : Out'[k] = M("item", x.id, x.body - 1)
      <3>1. \A k \in 1..(n - 1) : Out'[k] = Out[k]
        BY <1>1, <1>2
      <3> QED BY <3>1 DEF OutOK, InOrder
    <2>2. \A k \in 1..(last - 1) : Out'[k].id = m.id =>
              /\ Out'[k].type = "item"
              /\ m.type = "item" => Out'[k].body < m.body
      BY <1>1, <1>2, <1>3
    <2>3. m.type = "item" /\ m.body # 1 =>
              \E k \in 1..(last - 1) : Out'[k] = M("item", m.id, m.body - 1)
      BY <1>1
    <2>4. ASSUME NEW n \in DOMAIN Out'
          PROVE  LET x == Out'[n] IN
                 /\ x.type \in IF method[x.id] = "unary" THEN {"response", "error"}
                                                         ELSE {"item", "end", "error"}
                 /\ \A k \in 1..(n - 1) : Out'[k].id = x.id =>
                        /\ Out'[k].type = "item"
                        /\ x.type = "item" => Out'[k].body < x.body
                 /\ x.type = "item" /\ x.body # 1 =>
                        \E k \in 1..(n - 1) : Out'[k] = M("item", x.id, x.body - 1)
      <3>1. CASE n \in DOMAIN Out
        BY <1>1, <2>1, <3>1
      <3>2. CASE n = last
        BY <1>1, <2>2, <2>3, <3>2
      <3> QED BY <1>1, <3>1, <3>2
    <2> QED BY <2>4 DEF InOrder, M
  <1>5. OutAccounted'
    <2>1. ASSUME NEW n \in DOMAIN Out PROVE Accounted(Out[n])'
      <3>1. PICK x \in Msg : x = Out[n] /\ x = Out'[n] /\ x.id \in Calls
        BY <1>1, <1>2
      <3>2. Forwarded(x.id) \in Nat /\ Forwarded(x.id)' \in Nat
        BY <3>1 DEF QueuesOK, QueueOK
      <3>3. /\ Onward(x.id) /\ Forwarded(x.id)' >= Forwarded(x.id)
            /\ Accounted(x)
        BY <1>3, <3>1
      <3>4. Accounted(x)'
        BY <3>2, <3>3, AccountKept
      <3> QED BY <3>1, <3>4
    <2>2. \A n \in DOMAIN Out' : n \in DOMAIN Out \/ (n = last /\ Out'[n] = m)
      BY <1>1
    <2>3. ASSUME NEW n \in DOMAIN Out', n \notin DOMAIN Out PROVE Accounted(Out[n])'
      BY <2>2, <2>3
    <2> QED BY <2>1, <2>3 DEF OutAccounted
  <1>6. OutComplete'
    <2>1. ASSUME NEW i \in Calls
          PROVE  /\ Forwarded(i)' > 0 =>
                        \E n \in DOMAIN Out' : Out'[n] = M("item", i, Forwarded(i)')
                 /\ Done(i)' => \E n \in DOMAIN Out' : Out'[n].id = i
      <3>1. Forwarded(i)' = Forwarded(i) /\ Forwarded(i)' > 0 =>
                \E n \in DOMAIN Out : Out[n] = M("item", i, Forwarded(i)')
        BY DEF OutOK, OutComplete
      <3>2. Done(i) => \E n \in DOMAIN Out : Out[n].id = i
        BY DEF OutOK, OutComplete, Done
      <3> QED BY <1>1, <3>1, <3>2
    <2> QED BY <2>1 DEF OutComplete, Done, M
  <1> QED BY <1>4, <1>5, <1>6 DEF OutOK

\* Only run() takes from the outgoing queue, and it leaves it as it is or
\* drops it when it ends.
LEMMA DownOut ==
    ASSUME TypeOK, [Next]_vars, ~Up'
    PROVE  s2c' = s2c /\ outq' \in {outq, <<>>} /\ method' = method
  <1> USE DEF callVars, streamVars, Up
  <1>1. CASE Loops
    BY <1>1 DEF Loops, RunStart, SendRefusal, OutRoom, TxLoop
  <1>2. CASE Exit
    BY <1>2 DEF Exit, RunExit, DropServer
  <1>3. CASE Peer
    BY <1>3 DEF Peer, RecvBadRequest, RecvCancel, RecvRequest, Receiving
  <1>4. ASSUME NEW i \in Calls, Task(i)
        PROVE  s2c' = s2c /\ outq' \in {outq, <<>>} /\ method' = method
    <2>1. CASE StartHandler(i) \/ ReturnUnary(i) \/ SendReply(i)
      BY <2>1 DEF StartHandler, ReturnUnary, SendReply, OutRoom
    <2>2. CASE SendItem(i) \/ FailStream(i) \/ SendFailure(i)
      BY <2>2 DEF SendItem, FailStream, SendFailure
    <2>3. CASE ReturnStream(i) \/ CancelHandler(i)
      BY <2>3 DEF ReturnStream, CancelHandler
    <2>4. CASE ForwardTake(i) \/ ForwardSend(i) \/ ForwardEnd(i)
      BY <2>4 DEF ForwardTake, ForwardSend, ForwardEnd, OutRoom
    <2> QED BY <1>4, <2>1, <2>2, <2>3, <2>4 DEF Task
  <1>5. CASE UNCHANGED vars
    BY <1>5 DEF vars
  <1> QED BY <1>1, <1>2, <1>3, <1>4, <1>5 DEF Next

\* Once run() has ended what was written stays in order.
LEMMA NextOutDown ==
    ASSUME TypeOK, OutOK, [Next]_vars, ~Up'
    PROVE  OutOK'
  <1>1. s2c' = s2c /\ outq' \in {outq, <<>>} /\ method' = method
    BY DownOut
  <1>2. s2c \in Seq(Msg) /\ outq \in Seq(Msg)
    BY DEF TypeOK
  <1>3. Out' \in {Out, s2c}
    BY <1>1, <1>2, ConcatEmptySeq DEF Out
  <1>4. /\ DOMAIN s2c \subseteq DOMAIN Out
        /\ \A n \in DOMAIN s2c : /\ s2c[n] = Out[n]
                                 /\ \A k \in 1..(n - 1) : k \in DOMAIN s2c
    BY <1>2, ConcatProperties, LenProperties DEF Out
  <1>5. \A n \in DOMAIN Out : \A k \in 1..(n - 1) : k \in DOMAIN Out
    BY OutTyped
  <1>6. InOrder(Out)'
    <2>1. CASE Out' = Out
      BY <1>1, <2>1 DEF OutOK, InOrder, M
    <2>2. CASE Out' = s2c
      BY <1>1, <1>4, <2>2 DEF OutOK, InOrder, M
    <2> QED BY <1>3, <2>1, <2>2
  <1> QED BY <1>6 DEF OutOK, OutAccounted, OutComplete

\* What a step that gives nothing to the connection does to a call.
Quiet(i) ==
    /\ handler[i] \in {"refused", "done", "cancelled"} => handler'[i] = handler[i]
    /\ handler'[i] = "refused" => handler[i] = "refused"
    /\ handler'[i] = "done" /\ fwd'[i] = "none" => handler[i] = "done"
    /\ fwd[i] # "none" => fwd'[i] # "none"
    /\ handler[i] = "done" /\ fwd[i] = "none" => fwd'[i] = "none"

\* It takes nothing back, and finishes nothing.
LEMMA QuietKeeps ==
    ASSUME NEW i \in Calls, QueueKept(i), Quiet(i), refusal' = refusal
    PROVE  Onward(i) /\ (Done(i)' => Done(i))
  <1>1. Refused(i) <=> Refused(i)'
    BY DEF Quiet, Refused, M
  <1>2. Replied(i) <=> Replied(i)'
    BY DEF Quiet, Replied
  <1>3. Drained(i) => Drained(i)'
    BY DEF Quiet, Drained, QueueKept
  <1> QED BY <1>1, <1>2, <1>3 DEF Quiet, Onward, Done

\* The receive loop sends the error of a call it refused.
LEMMA RefusalOut ==
    ASSUME IInv, TypeOK', QueuesOK', Up, Up', SendRefusal,
           \A j \in Calls : QueueKept(j)
    PROVE  OutOK'
  <1> USE DEF IInv
  <1>1. PICK i \in Calls : handler[i] = "refused" /\ refusal = <<M("error", i, 0)>>
    BY DEF SendRefusal, RefusalOK
  <1>2. PICK m \in Msg : m = M("error", i, 0) /\ m.id = i /\ m.type = "error"
    BY PlainTyped
  <1>3. /\ outq' = outq \o <<m>> /\ s2c' = s2c /\ refusal' = <<>>
        /\ UNCHANGED <<handler, fwd, method>>
    BY <1>1, <1>2 DEF SendRefusal, callVars, streamVars
  <1>4. ASSUME NEW j \in Calls
        PROVE  /\ Onward(j) /\ Forwarded(j)' = Forwarded(j) /\ Forwarded(j) \in Nat
               /\ Done(j)' => Done(j) \/ j = i
    <2>1. Refused(j)' <=> handler[j] = "refused"
      BY <1>3 DEF Refused, M
    <2>2. j # i => (Refused(j) <=> handler[j] = "refused")
      BY <1>1 DEF Refused, M
    <2>3. Replied(j)' <=> Replied(j)
      BY <1>3 DEF Replied
    <2>4. Drained(j) => Drained(j)'
      BY <1>3 DEF Drained, QueueKept
    <2>5. Forwarded(j)' = Forwarded(j) /\ Forwarded(j) \in Nat
      BY DEF QueueKept, QueuesOK, QueueOK
    <2> QED BY <1>3, <2>1, <2>2, <2>3, <2>4, <2>5 DEF Onward, Done, Refused
  <1>5. \A x \in Msg : ~(Accounted(x) /\ x.id = i)
    <2>1. fwd[i] = "none"
      BY <1>1 DEF TasksOK, TaskOK, TypeOK
    <2> QED BY <1>1, <2>1 DEF Accounted, Refused, Replied, Drained
  <1>6. Accounted(m)'
    BY <1>1, <1>2, <1>3 DEF Accounted, Refused, M
  <1>7. method[i] \in Kinds
    BY DEF TypeOK
  <1>8. \A j \in Calls : /\ Onward(j) /\ Forwarded(j)' >= Forwarded(j)
                         /\ Forwarded(j)' = Forwarded(j)
                         /\ Done(j)' => Done(j) \/ m.id = j
    BY <1>2, <1>4
  <1> QED BY <1>2, <1>3, <1>5, <1>6, <1>7, <1>8, OutGrows

\* A handler sends its reply.
LEMMA ReplyOut ==
    ASSUME IInv, TypeOK', QueuesOK', Up, Up', NEW i \in Calls, SendReply(i),
           \A j \in Calls : QueueKept(j)
    PROVE  OutOK'
  <1> USE DEF IInv
  <1>1. handler[i] = "replying" /\ fwd[i] = "none"
    BY DEF SendReply, TasksOK, TaskOK, TypeOK
  <1>2. PICK t \in {"error", "response"} :
            reply[i] = <<M(t, i, 0)>> /\ (t = "response" => method[i] = "unary")
    BY <1>1, ReplyTyped
  <1>3. PICK m \in Msg : m = M(t, i, 0) /\ m.id = i /\ m.type = t
    BY PlainTyped
  <1>4. /\ outq' = outq \o <<m>> /\ s2c' = s2c
        /\ UNCHANGED <<fwd, method, refusal>> /\ handler'[i] = "done"
        /\ \A j \in Calls \ {i} : handler'[j] = handler[j]
    <2>1. outq' = outq \o reply[i] /\ reply[i] = <<m>>
      BY <1>2, <1>3 DEF SendReply, OutGone, Up
    <2>2. s2c' = s2c /\ UNCHANGED <<fwd, method, refusal>>
      BY DEF SendReply, callVars, streamVars
    <2>3. /\ handler'[i] = "done"
          /\ \A j \in Calls \ {i} : handler'[j] = handler[j]
      BY DEF SendReply, TypeOK
    <2> QED BY <2>1, <2>2, <2>3
  <1>5. ASSUME NEW j \in Calls
        PROVE  /\ Onward(j) /\ Forwarded(j)' = Forwarded(j) /\ Forwarded(j) \in Nat
               /\ Done(j)' => Done(j) \/ j = i
    <2>1. CASE j # i
      <3>1. Quiet(j)
        BY <1>4, <2>1 DEF Quiet
      <3> QED BY <1>4, <3>1, QuietKeeps DEF QueueKept, QueuesOK, QueueOK
    <2>2. CASE j = i
      <3>1. Onward(i)
        BY <1>1, <1>4 DEF Onward, Refused, Replied, Drained
      <3> QED BY <2>2, <3>1 DEF QueueKept, QueuesOK, QueueOK
    <2> QED BY <2>1, <2>2
  <1>6. \A x \in Msg : ~(Accounted(x) /\ x.id = i)
    BY <1>1 DEF Accounted, Refused, Replied, Drained
  <1>7. Accounted(m)'
    BY <1>1, <1>3, <1>4 DEF Accounted, Replied
  <1>8. method[i] \in Kinds
    BY DEF TypeOK
  <1>9. \A j \in Calls : /\ Onward(j) /\ Forwarded(j)' >= Forwarded(j)
                         /\ Forwarded(j)' = Forwarded(j)
                         /\ Done(j)' => Done(j) \/ m.id = j
    BY <1>3, <1>5
  <1> QED BY <1>2, <1>3, <1>4, <1>6, <1>7, <1>8, <1>9, OutGrows

\* A forwarder passes on an item or the ending.
LEMMA ForwardOut ==
    ASSUME IInv, TypeOK', QueuesOK', Up, Up', NEW i \in Calls, ForwardSend(i)
    PROVE  OutOK'
  <1> USE DEF IInv
  <1>1. PICK m \in Msg : held[i] = <<m>>
    BY HeldTyped DEF ForwardSend
  <1>2. /\ outq' = outq \o <<m>> /\ s2c' = s2c
        /\ UNCHANGED <<fwd, method, refusal, handler, items>>
    <2>1. ~OutGone
      BY DEF OutGone, Up
    <2> QED BY <1>1, <2>1 DEF ForwardSend, callVars
  <1>3. /\ Queue(i)' = sq[i] /\ fwd[i] = "running" /\ method[i] = "stream"
        /\ \A j \in Calls \ {i} : QueueKept(j)
    <2>1. fwd[i] = "running"
      BY HeldTyped DEF ForwardSend
    <2> QED BY <2>1, ForwardSends DEF TasksOK, TaskOK
  <1>4. /\ QueueOK(i) /\ m.id = i
        /\ m.type = "item" =>
               Forwarded(i)' = Forwarded(i) + 1 /\ m.body = Forwarded(i) + 1
        /\ m.type # "item" =>
               /\ m.type \in {"end", "error"}
               /\ Forwarded(i)' = Forwarded(i) /\ Queue(i)' = <<>>
               /\ handler[i] \in {"done", "cancelled"}
    <2>1. QueueOK(i)
      BY DEF QueuesOK
    <2> QED BY <1>1, <1>2, <1>3, <2>1, HeadForwarded
  <1>5. Forwarded(i) \in Nat
    BY <1>4 DEF QueueOK
  <1>6. ~Refused(i) /\ ~Replied(i) /\ ~Drained(i)
    <2>1. handler[i] # "refused"
      BY <1>3 DEF TasksOK, TaskOK
    <2>2. Queue(i) # <<>>
      <3>1. sq[i] \in Seq(Msg)
        BY DEF TypeOK
      <3>2. Queue(i) = <<m>> \o sq[i]
        BY <1>1 DEF Queue
      <3>3. Len(<<m>> \o sq[i]) = Len(<<m>>) + Len(sq[i]) /\ Len(sq[i]) \in Nat
        BY <3>1, ConcatProperties, LenProperties
      <3> QED BY <3>2, <3>3
    <2> QED BY <1>3, <2>1, <2>2 DEF Refused, Replied, Drained
  <1>7. ASSUME NEW j \in Calls
        PROVE  /\ Onward(j) /\ Forwarded(j)' >= Forwarded(j)
               /\ Forwarded(j)' = Forwarded(j) \/ (m.type = "item" /\ j = i)
               /\ Done(j)' => Done(j) \/ m.id = j
    <2>1. CASE j # i
      <3>1. Quiet(j)
        BY <1>2, <2>1 DEF Quiet
      <3>2. Onward(j) /\ (Done(j)' => Done(j))
        BY <1>2, <1>3, <2>1, <3>1, QuietKeeps
      <3>3. Forwarded(j)' = Forwarded(j) /\ Forwarded(j) \in Nat
        BY <1>3, <2>1 DEF QueueKept, QueuesOK, QueueOK
      <3> QED BY <3>2, <3>3
    <2>2. CASE j = i
      <3>1. Onward(i)
        BY <1>2, <1>6 DEF Onward
      <3> QED BY <1>4, <1>5, <2>2, <3>1
    <2> QED BY <2>1, <2>2
  <1>8. ASSUME NEW x \in Msg, Accounted(x), x.id = i
        PROVE  x.type = "item" /\ (m.type = "item" => x.body < m.body)
    <2>1. x.type = "item" /\ x.body \in 1..Forwarded(i)
      BY <1>6, <1>8 DEF Accounted
    <2> QED BY <1>4, <1>5, <2>1
  <1>9. Accounted(m)'
    <2>1. CASE m.type = "item"
      <3>1. m.body \in 1..(Forwarded(i)')
        BY <1>4, <1>5, <2>1
      <3> QED BY <1>2, <1>3, <1>4, <2>1, <3>1 DEF Accounted
    <2>2. CASE m.type # "item"
      BY <1>2, <1>3, <1>4, <2>2 DEF Accounted, Drained
    <2> QED BY <2>1, <2>2
  <1>10. m.type = "item" /\ m.body # 1 =>
             \E n \in DOMAIN Out : Out[n] = M("item", m.id, m.body - 1)
    <2>1. SUFFICES ASSUME m.type = "item", m.body # 1
                   PROVE  \E n \in DOMAIN Out : Out[n] = M("item", i, m.body - 1)
      BY <1>4
    <2>2. Forwarded(i) > 0 /\ m.body - 1 = Forwarded(i)
      BY <1>4, <1>5, <2>1
    <2> QED BY <2>2 DEF OutOK, OutComplete
  <1>11. \A j \in Calls : \/ Forwarded(j)' = Forwarded(j)
                          \/ m = M("item", j, Forwarded(j)')
    <2>1. m.type = "item" => m = M("item", i, Forwarded(i)')
      <3>1. m = [type |-> m.type, id |-> m.id, body |-> m.body]
        BY DEF Msg
      <3> QED BY <1>4, <3>1 DEF M
    <2> QED BY <1>7, <2>1
  <1>12. m.type \in IF method[m.id] = "unary" THEN {"response", "error"}
                                              ELSE {"item", "end", "error"}
    BY <1>3, <1>4
  <1>13. \A j \in Calls : /\ Onward(j) /\ Forwarded(j)' >= Forwarded(j)
                          /\ Done(j)' => Done(j) \/ m.id = j
    BY <1>7
  <1>14. \A x \in Msg : Accounted(x) /\ x.id = m.id =>
             x.type = "item" /\ (m.type = "item" => x.body < m.body)
    BY <1>4, <1>8
  <1> QED BY <1>2, <1>9, <1>10, <1>11, <1>12, <1>13, <1>14, OutGrows

\* A server that has ended does not come back.
LEMMA StaysDown ==
    ASSUME [Next]_vars, Up'
    PROVE  Up
  <1> USE DEF Up
  <1>1. CASE Loops
    BY <1>1 DEF Loops, RunStart, SendRefusal, OutRoom, TxLoop
  <1>2. CASE Exit
    BY <1>2 DEF Exit, RunExit, DropServer
  <1>3. CASE Peer
    BY <1>3 DEF Peer, RecvBadRequest, RecvCancel, RecvRequest
  <1>4. ASSUME NEW i \in Calls, Task(i) PROVE Up
    <2>1. CASE StartHandler(i) \/ ReturnUnary(i) \/ SendReply(i)
      BY <2>1 DEF StartHandler, ReturnUnary, SendReply
    <2>2. CASE SendItem(i) \/ FailStream(i) \/ SendFailure(i)
      BY <2>2 DEF SendItem, FailStream, SendFailure
    <2>3. CASE ReturnStream(i) \/ CancelHandler(i)
      BY <2>3 DEF ReturnStream, CancelHandler
    <2>4. CASE ForwardTake(i) \/ ForwardSend(i) \/ ForwardEnd(i)
      BY <2>4 DEF ForwardTake, ForwardSend, ForwardEnd
    <2> QED BY <1>4, <2>1, <2>2, <2>3, <2>4 DEF Task
  <1>5. CASE UNCHANGED vars
    BY <1>5 DEF vars
  <1> QED BY <1>1, <1>2, <1>3, <1>4, <1>5 DEF Next

\* The steps that give something to the connection.
Sends == SendRefusal \/ \E i \in Calls : SendReply(i) \/ ForwardSend(i)

\* The others finish no call; a request names its method before any of them.
LEMMA QuietSteps ==
    ASSUME TypeOK, TasksOK, Up, Up', [Next]_vars, ~Sends,
           \A i \in Calls : ~RecvBadRequest(i)
    PROVE  /\ refusal' = refusal /\ Out' = Out
           /\ \A j \in Calls :
                  Quiet(j) /\ (method'[j] = method[j] \/ handler[j] = "none")
  <1> USE DEF callVars, streamVars
  <1> DEFINE Goal == /\ refusal' = refusal /\ Out' = Out
                     /\ \A j \in Calls :
                            Quiet(j) /\ (method'[j] = method[j] \/ handler[j] = "none")
  <1>0. DOMAIN handler = Calls /\ DOMAIN fwd = Calls /\ DOMAIN method = Calls
    BY DEF TypeOK
  <1>1. ASSUME UNCHANGED <<handler, fwd, method>>
        PROVE  \A j \in Calls :
                   Quiet(j) /\ (method'[j] = method[j] \/ handler[j] = "none")
    BY <1>1 DEF Quiet
  <1>2. CASE RunStart
    BY <1>1, <1>2 DEF RunStart, Out
  <1>3. CASE TxLoop
    <2>1. Out' = Out
      BY <1>3, OutWritten
    <2> QED BY <1>1, <1>3, <2>1 DEF TxLoop
  <1>4. ~Exit
    BY DEF Exit, RunExit, DropServer, Up
  <1>5. ASSUME NEW i \in Calls, RecvCancel(i) PROVE Goal
    BY <1>1, <1>5 DEF RecvCancel, Out
  <1>6. ASSUME NEW i \in Calls, NEW k \in Kinds, RecvRequest(i, k) PROVE Goal
    <2>1. UNCHANGED <<refusal, outq, s2c, fwd>> /\ handler[i] = "none"
          /\ handler' = [handler EXCEPT ![i] = "spawned"]
          /\ method' = [method EXCEPT ![i] = k]
      BY <1>6 DEF RecvRequest
    <2> QED BY <1>0, <2>1 DEF Quiet, Out
  <1>7. ASSUME NEW i \in Calls, StartHandler(i) PROVE Goal
    <2>1. /\ UNCHANGED <<refusal, outq, s2c, method>>
          /\ handler[i] = "spawned"
          /\ fwd' = fwd \/ fwd' = [fwd EXCEPT ![i] = "running"]
      BY <1>7 DEF StartHandler
    <2>2. PICK h \in {"replying", "working", "streaming"} :
              handler' = [handler EXCEPT ![i] = h]
      BY <1>7 DEF StartHandler
    <2>3. handler'[i] = h /\ \A j \in Calls \ {i} : handler'[j] = handler[j]
      BY <1>0, <2>2
    <2>4. \A j \in Calls : /\ fwd[j] # "none" => fwd'[j] # "none"
                           /\ j # i => fwd'[j] = fwd[j]
      BY <1>0, <2>1
    <2> QED BY <2>1, <2>3, <2>4 DEF Quiet, Out
  <1>8. ASSUME NEW i \in Calls, ReturnUnary(i) \/ FailStream(i) PROVE Goal
    <2>1. UNCHANGED <<refusal, outq, s2c, method, fwd>>
          /\ handler[i] \in {"working", "streaming"}
          /\ \E h \in {"replying", "failing"} : handler' = [handler EXCEPT ![i] = h]
      BY <1>8 DEF ReturnUnary, FailStream
    <2> QED BY <1>0, <2>1 DEF Quiet, Out
  <1>9. ASSUME NEW i \in Calls, SendFailure(i) \/ ReturnStream(i) PROVE Goal
    <2>1. UNCHANGED <<refusal, outq, s2c, method, fwd>>
          /\ handler[i] \in {"failing", "streaming"}
          /\ handler' = [handler EXCEPT ![i] = "done"]
      BY <1>9 DEF SendFailure, ReturnStream
    <2>2. fwd[i] # "none"
      BY <2>1 DEF TasksOK, TaskOK
    <2> QED BY <1>0, <2>1, <2>2 DEF Quiet, Out
  <1>10. ASSUME NEW i \in Calls, CancelHandler(i) PROVE Goal
    <2>1. UNCHANGED <<refusal, outq, s2c, method, fwd>>
          /\ handler[i] \in Live
          /\ handler' = [handler EXCEPT ![i] = "cancelled"]
      BY <1>10 DEF CancelHandler
    <2> QED BY <1>0, <2>1 DEF Quiet, Out, Live
  <1>11. ASSUME NEW i \in Calls, SendItem(i) \/ ForwardTake(i) PROVE Goal
    BY <1>1, <1>11 DEF SendItem, ForwardTake, Out
  <1>12. ASSUME NEW i \in Calls, ForwardEnd(i) PROVE Goal
    <2>1. UNCHANGED <<refusal, outq, s2c, method, handler>> /\ fwd[i] = "running"
          /\ fwd' = [fwd EXCEPT ![i] = "done"]
      BY <1>12 DEF ForwardEnd
    <2> QED BY <1>0, <2>1 DEF Quiet, Out
  <1>13. CASE UNCHANGED vars
    BY <1>1, <1>13 DEF vars, Out
  <1> HIDE DEF Goal
  <1>14. Goal
    BY <1>2, <1>3, <1>4, <1>5, <1>6, <1>7, <1>8, <1>9, <1>10, <1>11, <1>12, <1>13
       DEF Goal, Next, Loops, Peer, Task, Sends
  <1> QED BY <1>14 DEF Goal

\* Nothing was given to the connection for a call that did not begin.
LEMMA NothingYet ==
    ASSUME TypeOK, TasksOK, OutOK, Up, NEW n \in DOMAIN Out
    PROVE  handler[Out[n].id] # "none"
  <1>1. Out[n].id \in Calls /\ Accounted(Out[n])
    BY OutTyped DEF OutOK, OutAccounted
  <1> QED BY <1>1 DEF Accounted, Refused, Replied, Drained, TasksOK, TaskOK

\* The receive loop refuses a call.
LEMMA BadRequestOut ==
    ASSUME TypeOK, TasksOK, QueuesOK, OutOK, Up, NEW i \in Calls,
           RecvBadRequest(i), \A j \in Calls : QueueKept(j)
    PROVE  OutOK'
  <1>1. /\ refusal = <<>> /\ refusal' = <<M("error", i, 0)>>
        /\ UNCHANGED <<method, fwd, outq, s2c>>
    BY DEF RecvBadRequest, Receiving, callVars, streamVars
  <1>2. /\ handler[i] = "none" /\ handler'[i] = "refused"
        /\ \A j \in Calls \ {i} : handler'[j] = handler[j]
    BY DEF RecvBadRequest, TypeOK
  <1>3. ASSUME NEW j \in Calls
        PROVE  /\ Forwarded(j)' = Forwarded(j) /\ Onward(j)
               /\ Done(j)' => Done(j)
    <2>1. Refused(j)' <=> handler[j] = "refused"
      BY <1>1, <1>2 DEF Refused, M
    <2>2. Refused(j) <=> handler[j] = "refused"
      BY <1>1 DEF Refused
    <2>3. Replied(j)' <=> Replied(j)
      BY <1>1, <1>2 DEF Replied
    <2>4. Drained(j) => Drained(j)'
      BY <1>1, <1>2 DEF Drained, QueueKept
    <2> QED BY <1>1, <2>1, <2>2, <2>3, <2>4 DEF Onward, Done, QueueKept
  <1>4. Out' = Out
    BY <1>1 DEF Out
  <1> QED BY <1>1, <1>3, <1>4, OutKept

\* Each step keeps the account of what was given to the connection.
LEMMA NextOut ==
    ASSUME IInv, [Next]_vars, TypeOK', TasksOK', QueuesOK'
    PROVE  OutOK'
  <1> USE DEF IInv
  <1>1. CASE ~Up'
    BY <1>1, NextOutDown
  <1>2. CASE Up'
    <2>1. Up
      BY <1>2, StaysDown
    <2>2. ASSUME NEW i \in Calls, ForwardSend(i) PROVE OutOK'
      BY <1>2, <2>1, <2>2, ForwardOut
    <2>3. CASE \A i \in Calls : ~ForwardSend(i)
      <3>1. \A j \in Calls : QueueKept(j)
        BY <1>2, <2>1, <2>3, NextQueues
      <3>2. CASE SendRefusal
        BY <1>2, <2>1, <3>1, <3>2, RefusalOut
      <3>3. ASSUME NEW i \in Calls, SendReply(i) PROVE OutOK'
        BY <1>2, <2>1, <3>1, <3>3, ReplyOut
      <3>4. ASSUME NEW i \in Calls, RecvBadRequest(i) PROVE OutOK'
        BY <2>1, <3>1, <3>4, BadRequestOut
      <3>5. CASE ~Sends /\ \A i \in Calls : ~RecvBadRequest(i)
        <4>1. /\ refusal' = refusal /\ Out' = Out
              /\ \A j \in Calls :
                     Quiet(j) /\ (method'[j] = method[j] \/ handler[j] = "none")
          BY <1>2, <2>1, <3>5, QuietSteps
        <4>2. \A j \in Calls : Onward(j) /\ (Done(j)' => Done(j))
          BY <3>1, <4>1, QuietKeeps
        <4>3. \A j \in Calls : Forwarded(j)' = Forwarded(j)
          BY <3>1 DEF QueueKept
        <4>4. \A n \in DOMAIN Out : method'[Out[n].id] = method[Out[n].id]
          BY <2>1, <4>1, OutTyped, NothingYet
        <4> QED BY <2>1, <4>1, <4>2, <4>3, <4>4, OutKept
      <3> QED BY <2>3, <3>2, <3>3, <3>4, <3>5 DEF Sends
    <2> QED BY <2>2, <2>3
  <1> QED BY <1>1, <1>2

\* Each step keeps the account of the queues.
LEMMA NextQueuesOK ==
    ASSUME TypeOK, TasksOK, QueuesOK, [Next]_vars
    PROVE  QueuesOK'
  <1>1. CASE ~Up'
    BY <1>1 DEF QueuesOK
  <1>2. CASE Up'
    <2>1. Up
      BY <1>2, StaysDown
    <2>2. ASSUME NEW i \in Calls, ForwardSend(i) PROVE QueuesOK'
      BY <2>1, <2>2, ForwardSends DEF QueuesOK, QueueKept
    <2>3. CASE \A i \in Calls : ~ForwardSend(i)
      BY <1>2, <2>1, <2>3, NextQueues DEF QueuesOK, QueueKept
    <2> QED BY <2>2, <2>3
  <1> QED BY <1>1, <1>2

-----------------------------------------------------------------------------
(* The theorems. *)

\* The server begins in order.
LEMMA InitIInv == Init => IInv
  <1> SUFFICES ASSUME Init PROVE IInv
    OBVIOUS
  <1> USE DEF Init
  <1>1. TypeOK
    BY ServerAssumption DEF TypeOK
  <1>2. TasksOK
    BY DEF TasksOK, TaskOK
  <1>3. RefusalOK
    BY DEF RefusalOK
  <1>4. \A i \in Calls : Queue(i) = <<>> /\ items[i] = 0 /\ Forwarded(i) = 0
    <2>1. <<>> \o <<>> = <<>>
      OBVIOUS
    <2> QED BY <2>1 DEF Queue, Forwarded, Ended
  <1>5. QueuesOK
    BY <1>4 DEF QueuesOK, QueueOK
  <1>6. Out = <<>>
    BY DEF Out
  <1>7. OutOK
    BY <1>4, <1>6 DEF OutOK, InOrder, OutAccounted, OutComplete, Refused, Replied
  <1> QED BY <1>1, <1>2, <1>3, <1>5, <1>7 DEF IInv

\* Every step of the server keeps the stations in agreement.
LEMMA NextIInv == IInv /\ [Next]_vars => IInv'
  <1> SUFFICES ASSUME IInv, [Next]_vars PROVE IInv'
    OBVIOUS
  <1>1. TypeOK' /\ TasksOK' /\ RefusalOK'
    BY NextTyped, NextTasks, NextRefusal DEF IInv
  <1>2. QueuesOK'
    BY NextQueuesOK DEF IInv
  <1>3. OutOK'
    BY <1>1, <1>2, NextOut
  <1> QED BY <1>1, <1>2, <1>3 DEF IInv

\* The stations of every call agree at all times.
THEOREM Inductive == Spec => []IInv
  BY InitIInv, NextIInv, PTL DEF Spec

\* Every variable keeps its type, and no queue outgrows its capacity.
THEOREM Typed == Spec => []TypeOK
  <1>1. IInv => TypeOK
    BY DEF IInv
  <1> QED BY <1>1, Inductive, PTL

\* What was written is in order, because what was given to the connection is.
LEMMA WrittenInOrder == IInv => CallsEndOnce
  <1> SUFFICES ASSUME IInv PROVE CallsEndOnce
    OBVIOUS
  <1>1. s2c \in Seq(Msg) /\ outq \in Seq(Msg)
    BY DEF IInv, TypeOK
  <1>2. /\ DOMAIN s2c \subseteq DOMAIN Out
        /\ \A n \in DOMAIN s2c : /\ s2c[n] = Out[n]
                                 /\ \A k \in 1..(n - 1) : k \in DOMAIN s2c
    BY <1>1, ConcatProperties, LenProperties DEF Out
  <1>3. InOrder(Out)
    BY DEF IInv, OutOK
  <1> QED BY <1>2, <1>3 DEF CallsEndOnce, InOrder, M

\* What the peer reads of each call is one reply, or the items of a stream in
\* order and at most one ending after them (the handlers that
\* codegen_rust.rs generates, StreamSenderBase and run()).
THEOREM EndsOnce == Spec => []CallsEndOnce
  BY WrittenInOrder, Inductive, PTL

\* No error path of the receive loop or of a handler loses a reply while the
\* connection lives.
THEOREM RepliesKept == Spec => []RepliesAreKept
  <1>1. IInv => RepliesAreKept
    <2> SUFFICES ASSUME IInv, NEW i \in Calls, srv = "running", fwd[i] = "none",
                        handler[i] \in {"done", "refused"}
                 PROVE  \E n \in DOMAIN (Out \o refusal) : (Out \o refusal)[n].id = i
      BY DEF RepliesAreKept, Out
    <2>1. Out \in Seq(Msg) /\ refusal \in Seq(Msg)
      BY OutTyped DEF IInv, TypeOK
    <2>2. /\ Len(Out) \in Nat /\ DOMAIN Out = 1..Len(Out)
          /\ DOMAIN (Out \o refusal) = 1..(Len(Out) + Len(refusal))
          /\ \A n \in 1..(Len(Out) + Len(refusal)) : (Out \o refusal)[n] =
                 IF n <= Len(Out) THEN Out[n] ELSE refusal[n - Len(Out)]
      BY <2>1, ConcatProperties, LenProperties
    <2>3. CASE Refused(i) \/ Replied(i)
      <3>1. PICK n \in DOMAIN Out : Out[n].id = i
        BY <2>3 DEF IInv, OutOK, OutComplete, Up
      <3>2. Len(refusal) \in Nat
        BY <2>1, LenProperties
      <3>3. n \in 1..(Len(Out) + Len(refusal)) /\ n <= Len(Out)
        BY <2>2, <3>2
      <3> QED BY <2>2, <3>1, <3>3
    <2>4. CASE ~Refused(i) /\ ~Replied(i)
      <3>1. refusal = <<M("error", i, 0)>>
        BY <2>4 DEF Refused, Replied
      <3>2. Len(refusal) = 1 /\ refusal[1].id = i
        BY <3>1 DEF M
      <3>3. /\ Len(Out) + 1 \in 1..(Len(Out) + Len(refusal))
            /\ ~(Len(Out) + 1 <= Len(Out)) /\ Len(Out) + 1 - Len(Out) = 1
        BY <2>2, <3>2
      <3> QED BY <2>2, <3>2, <3>3
    <2> QED BY <2>3, <2>4
  <1> QED BY <1>1, Inductive, PTL
=============================================================================

--------------------------- MODULE GoServerProofs ---------------------------
(***************************************************************************)
(* Theorems about GoServer, for every number of calls and of items.        *)
(***************************************************************************)
EXTENDS GoServer, SequenceTheorems, TLAPS

USE DEF Calls, Kinds

-----------------------------------------------------------------------------
(* The inductive invariant. *)

\* A goroutine that is about to reply knows with what.
ReplyIsSet ==
    \A i \in Calls : handler[i] = "replying" => reply[i] # "none"

\* Run refuses calls that have no goroutine.
RefusedHaveNoTask == refusing # 0 => handler[refusing] = "refused"

\* A written message tells how far the goroutine of its call has got: items
\* come from a method that streams or did, the last message from one that is
\* done, or from Run.
Accounted(m) ==
    \/ /\ m.type = "item"
       /\ handler[m.id] \in {"streaming", "replying", "done"}
       /\ m.body <= items[m.id]
    \/ m.type # "item" /\ handler[m.id] = "done"
    \/ m.type # "item" /\ handler[m.id] = "refused" /\ refusing # m.id

WrittenByTask == \A n \in DOMAIN s2c : Accounted(s2c[n])

IInv ==
    /\ TypeOK /\ CallsEndOnce /\ LiveCallsCanBeCancelled
    /\ ReplyIsSet /\ RefusedHaveNoTask /\ WrittenByTask

-----------------------------------------------------------------------------
\* A server that was just started has written nothing.
LEMMA InitIInv == Init => IInv
  BY GoServerAssumption, EmptySeq
     DEF Init, IInv, TypeOK, CallsEndOnce, LiveCallsCanBeCancelled,
         ReplyIsSet, RefusedHaveNoTask, WrittenByTask

\* M makes messages.
LEMMA MTyped ==
    ASSUME NEW t \in {"response", "item", "end", "error"}, NEW i \in Calls,
           NEW b \in 0..MaxItems
    PROVE  /\ M(t, i, b) \in Msg
           /\ M(t, i, b).type = t /\ M(t, i, b).id = i /\ M(t, i, b).body = b
  BY DEF M, Msg

\* Whether or not Send writes it, messages are all that is written.
LEMMA SendTyped ==
    ASSUME s2c \in Seq(Msg), NEW m \in Msg, s2c' \in {s2c, Append(s2c, m)}
    PROVE  s2c' \in Seq(Msg)
  BY AppendProperties

\* A message that is appended ends up last, and the others stay where they
\* were.
LEMMA Appended ==
    ASSUME NEW m \in Msg, s2c \in Seq(Msg), s2c' = Append(s2c, m)
    PROVE  /\ s2c' \in Seq(Msg)
           /\ DOMAIN s2c' = DOMAIN s2c \cup {Len(s2c) + 1}
           /\ DOMAIN s2c = 1..Len(s2c) /\ Len(s2c) \in Nat
           /\ \A n \in DOMAIN s2c : s2c'[n] = s2c[n]
           /\ s2c'[Len(s2c) + 1] = m
  BY AppendProperties, LenProperties

\* A step that writes nothing only has to account for what was written.
LEMMA KeepsSilence ==
    ASSUME s2c \in Seq(Msg), s2c' = s2c, CallsEndOnce, WrittenByTask,
           \A m \in Msg : Accounted(m) => Accounted(m)'
    PROVE  CallsEndOnce' /\ WrittenByTask'
  <1>1. \A n \in DOMAIN s2c : s2c[n] \in Msg
    BY ElementOfSeq
  <1>2. CallsEndOnce'
    BY DEF CallsEndOnce
  <1>3. WrittenByTask'
    BY <1>1 DEF WrittenByTask
  <1> QED BY <1>2, <1>3

\* Nothing is written after the end of a call, and no item out of order, if
\* the new message is no item and its call has written items only, or is an
\* item and has a greater number than those.
LEMMA KeepsOrder ==
    ASSUME NEW m \in Msg, s2c \in Seq(Msg), s2c' = Append(s2c, m),
           CallsEndOnce, WrittenByTask,
           \A x \in Msg : Accounted(x) => Accounted(x)',
           Accounted(m)',
           \A x \in Msg : Accounted(x) /\ x.id = m.id =>
               /\ x.type = "item"
               /\ m.type = "item" => x.body < m.body
    PROVE  CallsEndOnce' /\ WrittenByTask'
  <1>0. \A n \in DOMAIN s2c : s2c[n] \in Msg /\ Accounted(s2c[n])
    BY ElementOfSeq DEF WrittenByTask
  <1>1. CallsEndOnce'
    <2>1. SUFFICES ASSUME NEW n \in DOMAIN s2c', NEW k \in 1..(n - 1),
                          s2c'[k].id = s2c'[n].id
                   PROVE  /\ s2c'[k].type = "item"
                          /\ s2c'[n].type = "item" =>
                                 s2c'[k].body < s2c'[n].body
      BY DEF CallsEndOnce
    <2>2. k \in DOMAIN s2c /\ s2c'[k] = s2c[k]
      BY Appended
    <2>3. CASE n \in DOMAIN s2c
      BY <2>1, <2>2, <2>3, Appended DEF CallsEndOnce
    <2>4. CASE n = Len(s2c) + 1
      BY <1>0, <2>1, <2>2, <2>4, Appended
    <2> QED BY <2>3, <2>4, Appended
  <1>2. WrittenByTask'
    <2>1. SUFFICES ASSUME NEW n \in DOMAIN s2c' PROVE Accounted(s2c[n])'
      BY DEF WrittenByTask
    <2>2. CASE n \in DOMAIN s2c
      BY <1>0, <2>2, Appended
    <2>3. CASE n = Len(s2c) + 1
      BY <2>3, Appended
    <2> QED BY <2>2, <2>3, Appended
  <1> QED BY <1>1, <1>2

-----------------------------------------------------------------------------
\* Every step of PacketServer keeps the types.
LEMMA NextTyped == IInv /\ [Next]_vars => TypeOK'
  <1> SUFFICES ASSUME IInv, [Next]_vars PROVE TypeOK'
    OBVIOUS
  <1> USE GoServerAssumption DEF IInv
  <1>1. ASSUME NEW i \in Calls, RecvBadRequest(i) PROVE TypeOK'
    BY <1>1 DEF RecvBadRequest, TypeOK
  <1>2. ASSUME NEW i \in Calls, NEW k \in Kinds, RecvRequest(i, k) PROVE TypeOK'
    BY <1>2 DEF RecvRequest, TypeOK
  <1>3. ASSUME NEW i \in Calls, RecvCancel(i) PROVE TypeOK'
    BY <1>3 DEF RecvCancel, TypeOK
  <1>4. ASSUME SendRefusal PROVE TypeOK'
    <2>1. M("error", refusing, 0) \in Msg
      BY <1>4, MTyped DEF SendRefusal, TypeOK
    <2>2. s2c' \in Seq(Msg)
      BY <1>4, <2>1, SendTyped DEF SendRefusal, TypeOK
    <2> QED BY <1>4, <2>2 DEF SendRefusal, TypeOK
  <1>5. ASSUME RunCtxDone PROVE TypeOK'
    BY <1>5 DEF RunCtxDone, TypeOK
  <1>6. ASSUME Exit PROVE TypeOK'
    BY <1>6 DEF Exit, TypeOK
  <1>7. ASSUME NEW i \in Calls, StartHandler(i) PROVE TypeOK'
    BY <1>7 DEF StartHandler, TypeOK
  <1>8. ASSUME NEW i \in Calls, Return(i) PROVE TypeOK'
    BY <1>8 DEF Return, TypeOK
  <1>9. ASSUME NEW i \in Calls, SendReply(i) PROVE TypeOK'
    <2>0. reply[i] \in {"response", "error", "end"} /\ 0 \in 0..MaxItems
      BY <1>9 DEF SendReply, TypeOK, ReplyIsSet
    <2>1. M(reply[i], i, 0) \in Msg
      BY <2>0, MTyped
    <2>2. s2c' \in Seq(Msg)
      BY <1>9, <2>1, SendTyped DEF SendReply, TypeOK
    <2> QED BY <1>9, <2>2 DEF SendReply, TypeOK
  <1>10. ASSUME NEW i \in Calls, SendItem(i) PROVE TypeOK'
    <2>1. M("item", i, items[i] + 1) \in Msg
      BY <1>10 DEF SendItem, TypeOK, M, Msg
    <2>2. s2c' \in Seq(Msg)
      BY <1>10, <2>1, AppendProperties DEF SendItem, TypeOK
    <2> QED BY <1>10, <2>2 DEF SendItem, TypeOK
  <1>11. CASE UNCHANGED vars
    BY <1>11 DEF vars, TypeOK
  <1> QED
    BY <1>1, <1>2, <1>3, <1>4, <1>5, <1>6, <1>7, <1>8, <1>9, <1>10, <1>11
       DEF Next, Peer, Task

\* Only REQUEST makes a context live, and only RecvCancel, RunCtxDone and Exit
\* take away what could end it later: the first two end it themselves, the
\* third leaves the context of Run.
LEMMA NextCancellable ==
    IInv /\ [Next]_vars => LiveCallsCanBeCancelled'
  <1> SUFFICES ASSUME IInv, [Next]_vars PROVE LiveCallsCanBeCancelled'
    OBVIOUS
  <1> USE DEF IInv, LiveCallsCanBeCancelled
  <1>1. ASSUME NEW i \in Calls, NEW k \in Kinds, RecvRequest(i, k)
        PROVE  LiveCallsCanBeCancelled'
    BY <1>1 DEF RecvRequest, TypeOK
  <1>2. ASSUME NEW i \in Calls, RecvCancel(i) PROVE LiveCallsCanBeCancelled'
    BY <1>2 DEF RecvCancel, TypeOK
  <1>3. ASSUME RunCtxDone PROVE LiveCallsCanBeCancelled'
    BY <1>3 DEF RunCtxDone, TypeOK
  <1>4. ASSUME Exit PROVE LiveCallsCanBeCancelled'
    BY <1>4 DEF Exit
  <1>5. ASSUME UNCHANGED <<activeCalls, runCtx, callCtx, srv>>
        PROVE  LiveCallsCanBeCancelled'
    BY <1>5
  <1> QED
    BY <1>1, <1>2, <1>3, <1>4, <1>5
       DEF Next, Peer, Task, RecvBadRequest, SendRefusal, StartHandler,
           Return, SendReply, SendItem, vars

\* The order of what is written, and that it tells how far each call is.
LEMMA NextOrdered ==
    IInv /\ [Next]_vars => /\ CallsEndOnce' /\ WrittenByTask'
                          /\ ReplyIsSet' /\ RefusedHaveNoTask'
  <1> DEFINE Ordered == /\ CallsEndOnce /\ WrittenByTask
                        /\ ReplyIsSet /\ RefusedHaveNoTask
  <1> SUFFICES ASSUME IInv, [Next]_vars PROVE Ordered'
    OBVIOUS
  <1> USE GoServerAssumption DEF IInv, RefusedHaveNoTask, ReplyIsSet
  <1>0. s2c \in Seq(Msg)
    BY DEF TypeOK
  <1> DEFINE Still == s2c' = s2c /\ \A m \in Msg : Accounted(m) => Accounted(m)'
  <1>1. Still => CallsEndOnce' /\ WrittenByTask'
    BY <1>0, KeepsSilence
  <1>2. ASSUME NEW i \in Calls, RecvBadRequest(i) PROVE Ordered'
    <2>1. Still
      BY <1>2 DEF RecvBadRequest, TypeOK, Receiving, Accounted, Msg
    <2> QED BY <1>1, <1>2, <2>1 DEF RecvBadRequest, TypeOK
  <1>3. ASSUME NEW i \in Calls, NEW k \in Kinds, RecvRequest(i, k) PROVE Ordered'
    <2>1. Still
      BY <1>3 DEF RecvRequest, TypeOK, Receiving, Accounted, Msg
    <2> QED BY <1>1, <1>3, <2>1 DEF RecvRequest, TypeOK, Receiving
  <1>4. ASSUME NEW i \in Calls, RecvCancel(i) PROVE Ordered'
    <2>1. Still
      BY <1>4 DEF RecvCancel, Accounted
    <2> QED BY <1>1, <1>4, <2>1 DEF RecvCancel
  <1>5. ASSUME RunCtxDone \/ Exit PROVE Ordered'
    <2>1. Still
      BY <1>5 DEF RunCtxDone, Exit, Accounted
    <2> QED BY <1>1, <1>5, <2>1 DEF RunCtxDone, Exit
  <1>6. ASSUME NEW i \in Calls, StartHandler(i) \/ Return(i) PROVE Ordered'
    <2>1. Still
      <3>1. CASE StartHandler(i)
        BY <3>1 DEF StartHandler, TypeOK, Accounted, Msg
      <3>2. CASE Return(i)
        BY <3>2 DEF Return, TypeOK, Accounted, Msg
      <3> QED BY <1>6, <3>1, <3>2
    <2>2. ReplyIsSet'
      BY <1>6 DEF StartHandler, Return, TypeOK
    <2>3. RefusedHaveNoTask'
      BY <1>6 DEF StartHandler, Return, TypeOK
    <2> QED BY <1>1, <2>1, <2>2, <2>3
  <1>7. ASSUME SendRefusal PROVE Ordered'
    <2>1. refusing \in Calls /\ 0 \in 0..MaxItems
      BY <1>7 DEF SendRefusal, TypeOK
    <2>2. PICK m \in Msg : /\ m = M("error", refusing, 0)
                           /\ m.id = refusing /\ m.type = "error"
      BY <2>1, MTyped
    <2>3. s2c' = s2c \/ s2c' = Append(s2c, m)
      BY <1>7, <2>2 DEF SendRefusal
    <2>4. /\ \A x \in Msg : Accounted(x) => Accounted(x)' /\ x.id # refusing
          /\ Accounted(m)'
      BY <1>7, <2>1, <2>2 DEF SendRefusal, TypeOK, Accounted, Msg
    <2>5. CallsEndOnce' /\ WrittenByTask'
      BY <1>0, <1>1, <2>2, <2>3, <2>4, KeepsOrder
    <2> QED BY <1>7, <2>5 DEF SendRefusal
  <1>8. ASSUME NEW i \in Calls, SendReply(i) PROVE Ordered'
    <2>1. reply[i] \in {"response", "error", "end"} /\ 0 \in 0..MaxItems
      BY <1>8 DEF SendReply, TypeOK
    <2>2. PICK m \in Msg : m = M(reply[i], i, 0) /\ m.id = i /\ m.type # "item"
      BY <2>1, MTyped
    <2>3. s2c' = s2c \/ s2c' = Append(s2c, m)
      BY <1>8, <2>2 DEF SendReply
    <2>4. /\ \A x \in Msg : Accounted(x) =>
                 Accounted(x)' /\ (x.id = i => x.type = "item")
          /\ Accounted(m)'
      BY <1>8, <2>2 DEF SendReply, TypeOK, Accounted, Msg
    <2>5. CallsEndOnce' /\ WrittenByTask'
      BY <1>0, <1>1, <2>2, <2>3, <2>4, KeepsOrder
    <2> QED BY <1>8, <2>5 DEF SendReply, TypeOK
  <1>9. ASSUME NEW i \in Calls, SendItem(i) PROVE Ordered'
    <2>1. items[i] + 1 \in 0..MaxItems
      BY <1>9 DEF SendItem, TypeOK
    <2>2. PICK m \in Msg : /\ m = M("item", i, items[i] + 1)
                           /\ m.id = i /\ m.type = "item" /\ m.body = items[i] + 1
      BY <2>1, MTyped
    <2>3. s2c' = Append(s2c, m)
      BY <1>9, <2>2 DEF SendItem
    <2>4. \A x \in Msg : Accounted(x) =>
              Accounted(x)' /\ (x.id = i => x.type = "item" /\ x.body < m.body)
      <3>1. items' = [items EXCEPT ![i] = @ + 1] /\ items \in [Calls -> Nat]
        BY <1>9 DEF SendItem, TypeOK
      <3>2. \A x \in Msg : x.body \in Nat /\ x.id \in Calls
        BY DEF Msg
      <3>3. /\ \A j \in Calls : items'[j] >= items[j] /\ items[j] \in Nat
                                /\ items'[j] \in Nat
            /\ m.body > items[i]
        BY <2>2, <3>1
      <3>4. UNCHANGED <<handler, refusing>> /\ handler[i] = "streaming"
        BY <1>9 DEF SendItem
      <3>5. ASSUME NEW x \in Msg, Accounted(x)
            PROVE  Accounted(x)' /\ (x.id = i => x.type = "item" /\ x.body < m.body)
        <4>1. CASE x.type = "item"
          <5>1. /\ x.body <= items[x.id] /\ x.body \in Nat /\ m.body \in Nat
                /\ items[x.id] \in Nat /\ items'[x.id] \in Nat
                /\ items'[x.id] >= items[x.id]
            BY <2>2, <3>2, <3>3, <3>5, <4>1 DEF Accounted
          <5> QED BY <3>3, <3>4, <3>5, <4>1, <5>1 DEF Accounted
        <4>2. CASE x.type # "item"
          BY <3>4, <3>5, <4>2 DEF Accounted
        <4> QED BY <4>1, <4>2
      <3> QED BY <3>5
    <2>5. Accounted(m)'
      BY <1>9, <2>2 DEF SendItem, TypeOK, Accounted
    <2>6. CallsEndOnce' /\ WrittenByTask'
      BY <1>0, <2>2, <2>3, <2>4, <2>5, KeepsOrder
    <2> QED BY <1>9, <2>6 DEF SendItem
  <1>10. CASE UNCHANGED vars
    <2>1. Still
      BY <1>10 DEF vars, Accounted
    <2> QED BY <1>1, <1>10, <2>1 DEF vars
  <1> QED
    BY <1>2, <1>3, <1>4, <1>5, <1>6, <1>7, <1>8, <1>9, <1>10 DEF Next, Peer, Task

-----------------------------------------------------------------------------
\* IInv holds in every state of PacketServer.
THEOREM Inductive == Spec => []IInv
  <1>1. IInv /\ [Next]_vars => IInv'
    BY NextTyped, NextCancellable, NextOrdered DEF IInv
  <1> QED BY InitIInv, <1>1, PTL DEF Spec

\* The state of PacketServer is well typed: no message without a type is
\* ever written, and none for a call nobody made.
THEOREM Typed == Spec => []TypeOK
  <1>1. IInv => TypeOK
    BY DEF IInv
  <1> QED BY Inductive, <1>1, PTL

\* However many calls share the transport, each of them is answered with one
\* reply, or with items in order and at most one ending.
THEOREM EndsOnce == Spec => []CallsEndOnce
  <1>1. IInv => CallsEndOnce
    BY DEF IInv
  <1> QED BY Inductive, <1>1, PTL

\* While Run receives no call escapes cancellation: as long as its context is
\* live it is found by CANCEL.  At any time it ends with the context of Run.
\* That a closed connection cancels calls is not claimed: it does not.
THEOREM Cancellable == Spec => []LiveCallsCanBeCancelled
  <1>1. IInv => LiveCallsCanBeCancelled
    BY DEF IInv
  <1> QED BY Inductive, <1>1, PTL
=============================================================================

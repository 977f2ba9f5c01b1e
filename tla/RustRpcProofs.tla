--------------------------- MODULE RustRpcProofs ---------------------------
(***************************************************************************)
(* Theorems about RustRpc, for every number of calls and of items, every   *)
(* capacity of the queues and every set of faults.                         *)
(***************************************************************************)
EXTENDS RustRpc, SequenceTheorems, TLAPS

\* The theorems about the two ends.
SP == INSTANCE RustServerProofs
CP == INSTANCE RustClientProofs WITH Bodies <- 1..MaxItems, NoBody <- 0

USE DEF MaxCalls, Calls, S!Calls, SP!Calls, S!Kinds, SP!Kinds, C!Ids, CP!Ids,
        C!Kinds, CP!Kinds

-----------------------------------------------------------------------------
(* The two ends, and what is known of each. *)

\* What the theorems about the two ends assume of the constants holds here.
LEMMA Constants ==
    /\ MaxCalls \in Nat
    /\ SP!ServerAssumption /\ CP!ClientAssumption
  <1>1. Len(Script) \in Nat
    BY RpcAssumption, LenProperties
  <1> QED BY <1>1, RpcAssumption DEF SP!ServerAssumption, CP!ClientAssumption

\* The server of the composition is the one the theorems are about.
LEMMA SameServer ==
    /\ S!Init <=> SP!Init
    /\ S!Next <=> SP!Next
    /\ S!TypeOK <=> SP!TypeOK
  <1>1. S!Init <=> SP!Init
    BY DEF S!Init, SP!Init
  <1>2. S!TypeOK <=> SP!TypeOK
    BY DEF S!TypeOK, SP!TypeOK, S!Msg, SP!Msg
  <1>3. S!Loops <=> SP!Loops
    BY DEF S!Loops, SP!Loops, S!RunStart, SP!RunStart, S!SendRefusal,
           SP!SendRefusal, S!TxLoop, SP!TxLoop, S!callVars, SP!callVars,
           S!streamVars, SP!streamVars, S!OutRoom, SP!OutRoom, S!OutGone,
           SP!OutGone, S!M, SP!M
  <1>4. S!Exit <=> SP!Exit
    BY DEF S!Exit, SP!Exit, S!RunExit, SP!RunExit, S!DropServer, SP!DropServer,
           S!callVars, SP!callVars, S!streamVars, SP!streamVars, S!OutRoom,
           SP!OutRoom, S!OutGone, SP!OutGone, S!M, SP!M
  <1>5. S!Peer <=> SP!Peer
    BY DEF S!Peer, SP!Peer, S!RecvBadRequest, SP!RecvBadRequest, S!RecvCancel,
           SP!RecvCancel, S!RecvRequest, SP!RecvRequest, S!Receiving,
           SP!Receiving, S!callVars, SP!callVars, S!streamVars, SP!streamVars,
           S!OutRoom, SP!OutRoom, S!OutGone, SP!OutGone, S!M, SP!M
  <1>6. \A i \in Calls : S!Task(i) <=> SP!Task(i)
    BY DEF S!Task, SP!Task, S!StartHandler, SP!StartHandler, S!ReturnUnary,
           SP!ReturnUnary, S!SendReply, SP!SendReply, S!SendItem, SP!SendItem,
           S!FailStream, SP!FailStream, S!SendFailure, SP!SendFailure,
           S!ReturnStream, SP!ReturnStream, S!CancelHandler, SP!CancelHandler,
           S!DropSender, SP!DropSender, S!Live, SP!Live, S!ForwardTake,
           SP!ForwardTake, S!ForwardSend, SP!ForwardSend, S!ForwardEnd,
           SP!ForwardEnd, S!callVars, SP!callVars, S!streamVars, SP!streamVars,
           S!OutRoom, SP!OutRoom, S!OutGone, SP!OutGone, S!M, SP!M
  <1> QED
    BY <1>1, <1>2, <1>3, <1>4, <1>5, <1>6 DEF S!Next, SP!Next

\* So is the client.
LEMMA SameClient ==
    /\ C!Init <=> CP!Init
    /\ C!Next <=> CP!Next
    /\ C!TypeOK <=> CP!TypeOK
  <1>1. C!Init <=> CP!Init
    BY DEF C!Init, CP!Init, C!None, CP!None, C!Plain, CP!Plain, C!Idle, CP!Idle
  <1>2. C!TypeOK <=> CP!TypeOK
    BY DEF C!TypeOK, CP!TypeOK, C!Value, CP!Value, C!Packet, CP!Packet
  <1>3. \A k \in {"unary", "stream"} : C!Begin(k) <=> CP!Begin(k)
    BY DEF C!Begin, CP!Begin, C!callVars, CP!callVars, C!Plain, CP!Plain,
           C!None, CP!None, C!Closed, CP!Closed, C!Down, CP!Down, C!Borrowed,
           CP!Borrowed, C!Forget, CP!Forget
  <1>s. C!Cardinality(C!Sending) = CP!Cardinality(CP!Sending)
    BY DEF C!Cardinality, CP!Cardinality, C!Sending, CP!Sending
  <1>4. \A i \in Calls : C!Caller(i) <=> CP!Caller(i)
    BY <1>s DEF C!Caller, CP!Caller, C!SendRequest, CP!SendRequest,
           C!SendFailed, CP!SendFailed, C!UnaryResult, CP!UnaryResult,
           C!StreamRecv, CP!StreamRecv, C!CancelTask, CP!CancelTask, C!Request,
           CP!Request, C!Cancel, CP!Cancel, C!TrySendCancel, CP!TrySendCancel,
           C!RecvValue, CP!RecvValue, C!SenderGone, CP!SenderGone, C!callVars,
           CP!callVars, C!Plain, CP!Plain, C!None, CP!None, C!Closed, CP!Closed,
           C!Down, CP!Down, C!Borrowed, CP!Borrowed, C!Forget, CP!Forget
  <1>5. \A i \in Calls : C!Abandon(i) <=> CP!Abandon(i)
    BY <1>s DEF C!Abandon, CP!Abandon, C!DropSending, CP!DropSending,
           C!DropUnary, CP!DropUnary, C!DropStream, CP!DropStream, C!Cancel,
           CP!Cancel, C!TrySendCancel, CP!TrySendCancel, C!callVars,
           CP!callVars, C!Plain, CP!Plain, C!None, CP!None, C!Closed, CP!Closed,
           C!Down, CP!Down, C!Borrowed, CP!Borrowed, C!Forget, CP!Forget
  <1>6. C!Loops <=> CP!Loops
    BY DEF C!Loops, CP!Loops, C!RunStart, CP!RunStart, C!Deliver, CP!Deliver,
           C!TxLoop, CP!TxLoop, C!HasReceiver, CP!HasReceiver, C!Idle, CP!Idle,
           C!callVars, CP!callVars, C!Plain, CP!Plain, C!None, CP!None,
           C!Closed, CP!Closed, C!Down, CP!Down, C!Borrowed, CP!Borrowed,
           C!Forget, CP!Forget
  <1>7. C!RunExit <=> CP!RunExit
    BY DEF C!RunExit, CP!RunExit, C!Drained, CP!Drained, C!HasReceiver,
           CP!HasReceiver, C!Idle, CP!Idle, C!callVars, CP!callVars, C!Plain,
           CP!Plain, C!None, CP!None, C!Closed, CP!Closed, C!Down, CP!Down,
           C!Borrowed, CP!Borrowed, C!Forget, CP!Forget
  <1>8. \A m \in C!ServerMsg : C!Receive(m) <=> CP!Receive(m)
    BY DEF C!Receive, CP!Receive, C!ForUnary, CP!ForUnary, C!ForStream,
           CP!ForStream, C!Event, CP!Event, C!callVars, CP!callVars, C!Plain,
           CP!Plain, C!None, CP!None, C!Closed, CP!Closed, C!Down, CP!Down,
           C!Borrowed, CP!Borrowed, C!Forget, CP!Forget
  <1>9. C!ServerMsg = CP!ServerMsg
    BY DEF C!ServerMsg, CP!ServerMsg
  <1> QED
    BY <1>1, <1>2, <1>3, <1>4, <1>5, <1>6, <1>7, <1>8, <1>9 DEF C!Next, CP!Next,
           C!CallUnary, CP!CallUnary, C!CallStream, CP!CallStream

\* The invariants of the two ends.
Ends == SP!IInv /\ CP!IInv /\ CP!TasksFollowDrops /\ CP!PInv

\* Nobody has read more than was written.
ReadsOK == c_read \in 0..Len(c2s) /\ s_read \in 0..Len(s2c)

\* Types of the two ends, seen from here.
LEMMA EndsTyped ==
    ASSUME Ends
    PROVE  /\ S!TypeOK /\ C!TypeOK
           /\ s2c \in Seq(S!Msg) /\ s2c \in Seq(C!ServerMsg)
           /\ c2s \in Seq(C!Packet)
           /\ Len(s2c) \in Nat /\ Len(c2s) \in Nat
  <1>1. S!TypeOK /\ C!TypeOK
    BY SameServer, SameClient DEF Ends, SP!IInv, CP!IInv
  <1>2. S!Msg = C!ServerMsg
    <2>1. 0..MaxItems = 1..MaxItems \cup {0}
      BY RpcAssumption
    <2> QED BY <2>1 DEF S!Msg, C!ServerMsg
  <1>3. s2c \in Seq(S!Msg) /\ c2s \in Seq(C!Packet)
    BY <1>1 DEF S!TypeOK, C!TypeOK
  <1> QED BY <1>1, <1>2, <1>3, LenProperties

\* What an end reads is a packet, or a message.
LEMMA Readable ==
    ASSUME Ends, ReadsOK
    PROVE  /\ c_read < Len(c2s) =>
                  /\ c_read + 1 \in DOMAIN c2s /\ c2s[c_read + 1] \in C!Packet
           /\ s_read < Len(s2c) =>
                  /\ s_read + 1 \in DOMAIN s2c /\ s2c[s_read + 1] \in S!Msg
                  /\ s2c[s_read + 1] \in C!ServerMsg
  <1>1. c_read \in Nat /\ s_read \in Nat
    BY EndsTyped DEF ReadsOK
  <1>2. ASSUME c_read < Len(c2s)
        PROVE  c_read + 1 \in DOMAIN c2s /\ c2s[c_read + 1] \in C!Packet
    <2>1. c_read + 1 \in 1..Len(c2s) /\ DOMAIN c2s = 1..Len(c2s)
      BY <1>1, <1>2, EndsTyped, LenProperties
    <2> QED BY <2>1, EndsTyped, ElementOfSeq
  <1>3. ASSUME s_read < Len(s2c)
        PROVE  /\ s_read + 1 \in DOMAIN s2c /\ s2c[s_read + 1] \in S!Msg
               /\ s2c[s_read + 1] \in C!ServerMsg
    <2>1. s_read + 1 \in 1..Len(s2c) /\ DOMAIN s2c = 1..Len(s2c)
      BY <1>1, <1>3, EndsTyped, LenProperties
    <2> QED BY <2>1, EndsTyped, ElementOfSeq
  <1> QED BY <1>2, <1>3

\* Every step of the composition is a step of each end, or none.
LEMMA StepOfEnds ==
    ASSUME Ends, ReadsOK, [Next]_vars
    PROVE  [SP!Next]_(SP!vars) /\ [CP!Next]_(CP!vars)
  <1>0. S!TypeOK /\ C!TypeOK
    BY EndsTyped
  <1>1. CASE ServerRead
    <2>1. UNCHANGED cvars
      BY <1>1 DEF ServerRead, ServerStep
    <2>2. S!Peer
      <3> DEFINE p == c2s[c_read + 1]
      <3>1. p.id \in Calls /\ p.kind \in {"unary", "stream"}
        BY <1>1, Readable DEF ServerRead, C!Packet
      <3>2. S!RecvRequest(p.id, p.kind) \/ S!RecvCancel(p.id)
        BY <1>1 DEF ServerRead, ServerStep
      <3> QED BY <3>1, <3>2 DEF S!Peer
    <2> QED BY <2>1, <2>2, SameServer DEF S!Next, cvars, CP!vars
  <1>2. CASE ServerTask \/ ServerRun \/ ServerExit
    <2>1. UNCHANGED cvars /\ S!Next
      BY <1>2 DEF ServerTask, ServerRun, ServerExit, ServerStep, S!Next
    <2> QED BY <2>1, SameServer DEF cvars, CP!vars
  <1>3. CASE ClientRead
    <2>1. UNCHANGED svars
      BY <1>3 DEF ClientRead, ClientStep
    <2>2. C!Next
      BY <1>3, Readable DEF ClientRead, ClientStep, C!Next
    <2> QED BY <2>1, <2>2, SameClient DEF svars, SP!vars
  <1>4. CASE ClientCall \/ ClientTask \/ ClientDrop \/ ClientRun \/ ClientExit
    <2>1. UNCHANGED svars /\ C!Next
      BY <1>4 DEF ClientCall, ClientTask, ClientDrop, ClientRun, ClientExit,
                  ClientStep, C!Next
    <2> QED BY <2>1, SameClient DEF svars, SP!vars
  <1>5. CASE UNCHANGED vars
    BY <1>5 DEF vars, svars, cvars, SP!vars, CP!vars
  <1> QED BY <1>1, <1>2, <1>3, <1>4, <1>5 DEF Next

\* So the two ends keep their invariants.
LEMMA NextEnds ==
    ASSUME Ends, ReadsOK, [Next]_vars
    PROVE  Ends'
  <1>1. [SP!Next]_(SP!vars) /\ [CP!Next]_(CP!vars)
    BY StepOfEnds
  <1>2. SP!IInv'
    BY <1>1, SP!NextIInv, Constants DEF Ends
  <1>3. CP!IInv' /\ CP!TasksFollowDrops' /\ CP!PInv'
    BY <1>1, CP!NextIInv, CP!NextTasks, CP!NextPInv, Constants DEF Ends
  <1> QED BY <1>2, <1>3 DEF Ends

\* What was written stays written.
LEMMA Grows ==
    ASSUME Ends, ReadsOK, [Next]_vars
    PROVE  /\ Len(s2c') >= Len(s2c) /\ Len(c2s') >= Len(c2s)
           /\ \A n \in DOMAIN s2c : n \in DOMAIN s2c' /\ s2c'[n] = s2c[n]
           /\ \A n \in DOMAIN c2s : n \in DOMAIN c2s' /\ c2s'[n] = c2s[n]
  <1>1. s2c' = s2c \/ \E m \in S!Msg : s2c' = Append(s2c, m)
    <2>1. s2c' = s2c \/ (outq # <<>> /\ s2c' = Append(s2c, Head(outq)))
      BY StepOfEnds
         DEF SP!vars, SP!Next, SP!Loops, SP!Exit, SP!Peer, SP!Task, SP!RunStart,
             SP!SendRefusal, SP!TxLoop, SP!RunExit, SP!DropServer,
             SP!RecvBadRequest, SP!RecvCancel, SP!RecvRequest, SP!StartHandler,
             SP!ReturnUnary, SP!SendReply, SP!SendItem, SP!FailStream,
             SP!SendFailure, SP!ReturnStream, SP!CancelHandler, SP!ForwardTake,
             SP!ForwardSend, SP!ForwardEnd
    <2>2. outq \in Seq(S!Msg)
      BY EndsTyped DEF S!TypeOK
    <2> QED BY <2>1, <2>2, HeadTailProperties
  <1>2. c2s' = c2s \/ \E p \in C!Packet : c2s' = Append(c2s, p)
    <2>1. c2s' = c2s \/ (tx # <<>> /\ c2s' = Append(c2s, Head(tx)))
      BY StepOfEnds
         DEF CP!vars, CP!Next, CP!CallUnary, CP!CallStream, CP!Begin, CP!Caller,
             CP!Abandon, CP!Loops, CP!RunExit, CP!Receive, CP!SendRequest,
             CP!SendFailed, CP!UnaryResult, CP!StreamRecv, CP!CancelTask,
             CP!DropSending, CP!DropUnary, CP!DropStream, CP!RunStart,
             CP!Deliver, CP!TxLoop
    <2>2. tx \in Seq(C!Packet)
      BY EndsTyped DEF C!TypeOK
    <2> QED BY <2>1, <2>2, HeadTailProperties
  <1>3. /\ Len(s2c') >= Len(s2c)
        /\ \A n \in DOMAIN s2c : n \in DOMAIN s2c' /\ s2c'[n] = s2c[n]
    <2>1. s2c \in Seq(S!Msg) /\ Len(s2c) \in Nat /\ DOMAIN s2c = 1..Len(s2c)
      BY EndsTyped, LenProperties
    <2>2. ASSUME NEW m \in S!Msg, s2c' = Append(s2c, m)
          PROVE  /\ Len(s2c') >= Len(s2c)
                 /\ \A n \in DOMAIN s2c : n \in DOMAIN s2c' /\ s2c'[n] = s2c[n]
      BY <2>1, <2>2, AppendProperties, LenProperties
    <2> QED BY <1>1, <2>1, <2>2
  <1>4. /\ Len(c2s') >= Len(c2s)
        /\ \A n \in DOMAIN c2s : n \in DOMAIN c2s' /\ c2s'[n] = c2s[n]
    <2>1. c2s \in Seq(C!Packet) /\ Len(c2s) \in Nat /\ DOMAIN c2s = 1..Len(c2s)
      BY EndsTyped, LenProperties
    <2>2. ASSUME NEW p \in C!Packet, c2s' = Append(c2s, p)
          PROVE  /\ Len(c2s') >= Len(c2s)
                 /\ \A n \in DOMAIN c2s : n \in DOMAIN c2s' /\ c2s'[n] = c2s[n]
      BY <2>1, <2>2, AppendProperties, LenProperties
    <2> QED BY <1>2, <2>1, <2>2
  <1> QED BY <1>3, <1>4

\* Nobody reads more than was written.
LEMMA NextReads ==
    ASSUME Ends, ReadsOK, [Next]_vars
    PROVE  ReadsOK'
  <1>1. /\ Len(s2c) \in Nat /\ Len(c2s) \in Nat
        /\ c_read \in 0..Len(c2s) /\ s_read \in 0..Len(s2c)
    BY EndsTyped DEF ReadsOK
  <1>2. Len(s2c') \in Nat /\ Len(c2s') \in Nat
    <2>1. s2c' \in Seq(S!Msg)' /\ c2s' \in Seq(C!Packet)'
      BY NextEnds, SameServer, SameClient
         DEF Ends, SP!IInv, CP!IInv, SP!TypeOK, CP!TypeOK, S!Msg, SP!Msg,
             C!Packet, CP!Packet
    <2> QED BY <2>1, LenProperties
  <1>3. \/ UNCHANGED <<c_read, s_read>>
        \/ c_read < Len(c2s) /\ c_read' = c_read + 1 /\ s_read' = s_read
        \/ s_read < Len(s2c) /\ s_read' = s_read + 1 /\ c_read' = c_read
    BY DEF Next, vars, ServerRead, ServerTask, ServerRun, ServerExit, ServerStep,
           ClientRead, ClientCall, ClientTask, ClientDrop, ClientRun, ClientExit,
           ClientStep
  <1> QED BY <1>1, <1>2, <1>3, Grows DEF ReadsOK

-----------------------------------------------------------------------------
(* What the service methods produce. *)

\* The outcome that is item n of a stream.
Item(n) == [type |-> "item", body |-> n]

\* Outcomes that end a call.
Finals == {v \in C!Value : v.type \in {"ok", "error", "end"}}

MadeTyped == made \in [Calls -> Seq(C!Value)]

\* A step of the server, as the method of one call sees it.
Quiet(j) == /\ handler'[j] = handler[j] /\ items'[j] = items[j]
            /\ made'[j] = made[j] /\ reply'[j] = reply[j]

Starts(j) == /\ handler[j] \in {"none", "spawned"}
             /\ handler'[j] \in {"spawned", "working", "streaming"}
             /\ items'[j] = items[j] /\ made'[j] = made[j]

Yields(j) == /\ handler[j] = "streaming" /\ handler'[j] = "streaming"
             /\ items'[j] = items[j] + 1 /\ items'[j] \in 1..MaxItems
             /\ made'[j] = Append(made[j], Item(items'[j]))

Finishes(j, v) == /\ handler[j] \in {"spawned", "working", "streaming"}
                  /\ handler'[j] \in {"replying", "failing", "done"}
                  /\ items'[j] = items[j] /\ made'[j] = Append(made[j], v)
                  /\ handler'[j] = "replying" => v = C!Event(reply'[j][1])
                  /\ handler'[j] = "failing" => v = C!Plain("error")
                  /\ handler'[j] = "done" => v = C!Plain("end")

Passes(j) == /\ handler[j] \in {"replying", "failing"} /\ handler'[j] = "done"
             /\ items'[j] = items[j] /\ made'[j] = made[j]

Stops(j) == /\ handler[j] \in S!Live /\ handler'[j] = "cancelled"
            /\ items'[j] = items[j] /\ made'[j] = made[j]

Moves(j) == \/ Quiet(j) \/ Starts(j) \/ Yields(j) \/ Passes(j) \/ Stops(j)
            \/ \E v \in Finals : Finishes(j, v)

\* The cases of Produced.
LEMMA ProducedCases ==
    ASSUME NEW j \in Calls
    PROVE  /\ items'[j] # items[j] => Produced(j) = <<Item(items'[j])>>
           /\ items'[j] = items[j] =>
                /\ handler'[j] = handler[j] => Produced(j) = <<>>
                /\ handler'[j] # handler[j] =>
                     /\ handler'[j] = "failing" => Produced(j) = <<C!Plain("error")>>
                     /\ handler'[j] = "replying" =>
                            Produced(j) = <<C!Event(reply'[j][1])>>
                     /\ handler'[j] = "done" /\ handler[j] = "streaming" =>
                            Produced(j) = <<C!Plain("end")>>
                     /\ handler'[j] = "done" /\ handler[j] # "streaming" =>
                            Produced(j) = <<>>
                     /\ handler'[j] \in {"spawned", "working", "streaming",
                                         "cancelled"} => Produced(j) = <<>>
  <1>1. CASE items'[j] # items[j]
    BY <1>1, Zenon DEF Produced, Item
  <1>2. CASE items'[j] = items[j] /\ handler'[j] = handler[j]
    BY <1>2, Zenon DEF Produced
  <1>3. CASE items'[j] = items[j] /\ handler'[j] # handler[j]
    <2>1. Produced(j) =
            CASE handler'[j] \in {"refused", "failing"} -> <<C!Plain("error")>>
              [] handler'[j] = "replying" -> <<C!Event(reply'[j][1])>>
              [] handler[j] = "streaming" /\ handler'[j] = "done" ->
                     <<C!Plain("end")>>
              [] OTHER -> <<>>
      BY <1>3, Zenon DEF Produced
    <2>2. handler'[j] = "failing" => Produced(j) = <<C!Plain("error")>>
      BY <2>1, Zenon
    <2>3. handler'[j] = "replying" => Produced(j) = <<C!Event(reply'[j][1])>>
      BY <2>1, Zenon
    <2>4. handler'[j] = "done" /\ handler[j] = "streaming" =>
              Produced(j) = <<C!Plain("end")>>
      BY <2>1, Zenon
    <2>5. handler'[j] = "done" /\ handler[j] # "streaming" => Produced(j) = <<>>
      BY <2>1, Zenon
    <2>6. handler'[j] \in {"spawned", "working", "streaming", "cancelled"} =>
              Produced(j) = <<>>
      BY <2>1, Zenon
    <2> QED BY <1>3, <2>2, <2>3, <2>4, <2>5, <2>6, Zenon
  <1> QED BY <1>1, <1>2, <1>3, Zenon

\* A call whose handler does not move produces nothing.
LEMMA QuietCall ==
    ASSUME MadeTyped, NEW j \in Calls, handler'[j] = handler[j],
           items'[j] = items[j], reply'[j] = reply[j],
           made' = [i \in Calls |-> made[i] \o Produced(i)]
    PROVE  Quiet(j)
  <1>1. Produced(j) = <<>>
    BY ProducedCases
  <1>2. made[j] \in Seq(C!Value) /\ made'[j] = made[j] \o <<>>
    BY <1>1 DEF MadeTyped
  <1> QED BY <1>2, ConcatEmptySeq DEF Quiet

\* One outcome is appended.
LEMMA OneProduced ==
    ASSUME MadeTyped, NEW j \in Calls, NEW v \in C!Value, Produced(j) = <<v>>,
           made' = [i \in Calls |-> made[i] \o Produced(i)]
    PROVE  made'[j] = Append(made[j], v)
  <1>1. made[j] \in Seq(C!Value) /\ made'[j] = made[j] \o <<v>>
    BY DEF MadeTyped
  <1> QED BY <1>1, AppendIsConcat

\* Outcomes are values.
LEMMA OutcomesTyped ==
    /\ \A t \in {"ok", "error", "end"} : C!Plain(t) \in Finals
    /\ \A n \in 1..MaxItems : Item(n) \in C!Value
    /\ C!Down \in C!Value /\ C!Closed \in C!Value /\ C!None \in C!Value
  BY DEF C!Plain, C!Down, C!Closed, C!None, Finals, C!Value, Item

\* A step of the server moves the handler of one call at most.
LEMMA ServerMoves ==
    ASSUME Ends, ReadsOK, MadeTyped,
           ServerRead \/ ServerTask \/ ServerRun \/ ServerExit
    PROVE  \/ \A j \in Calls : Quiet(j)
           \/ \E i \in Calls : Moves(i) /\ \A j \in Calls \ {i} : Quiet(j)
  <1>1. made' = [i \in Calls |-> made[i] \o Produced(i)]
    BY DEF ServerRead, ServerTask, ServerRun, ServerExit, ServerStep
  <1>2. /\ DOMAIN handler = Calls /\ DOMAIN items = Calls /\ DOMAIN reply = Calls
        /\ \A i \in Calls : items[i] \in 0..MaxItems
    BY EndsTyped DEF S!TypeOK
  <1>3. ASSUME UNCHANGED <<handler, items, reply>>
        PROVE  \A j \in Calls : Quiet(j)
    BY <1>1, <1>3, QuietCall
  <1>4. ASSUME NEW i \in Calls, NEW h, handler' = [handler EXCEPT ![i] = h],
               items' = items, reply' = reply \/ \E r : reply' = [reply EXCEPT ![i] = r]
        PROVE  /\ \A j \in Calls \ {i} : Quiet(j)
               /\ handler'[i] = h /\ items'[i] = items[i]
    <2>1. handler'[i] = h /\ items'[i] = items[i]
      BY <1>2, <1>4
    <2>2. ASSUME NEW j \in Calls \ {i} PROVE Quiet(j)
      BY <1>1, <1>2, <1>4, QuietCall
    <2> QED BY <2>1, <2>2
  <1>5. CASE ServerRead
    <2> DEFINE p == c2s[c_read + 1]
    <2>1. p.id \in Calls
      BY <1>5, Readable DEF ServerRead, C!Packet
    <2>2. CASE S!RecvRequest(p.id, p.kind)
      <3>1. /\ handler[p.id] = "none" /\ handler' = [handler EXCEPT ![p.id] = "spawned"]
            /\ items' = items /\ reply' = reply
        BY <2>2 DEF S!RecvRequest, S!streamVars
      <3>2. /\ \A j \in Calls \ {p.id} : Quiet(j)
            /\ handler'[p.id] = "spawned" /\ items'[p.id] = items[p.id]
        BY <1>4, <2>1, <3>1
      <3>3. Starts(p.id)
        <4>1. Produced(p.id) = <<>>
          BY <2>1, <3>1, <3>2, ProducedCases
        <4>2. made'[p.id] = made[p.id]
          BY <1>1, <2>1, <4>1, ConcatEmptySeq DEF MadeTyped
        <4> QED BY <3>1, <3>2, <4>2 DEF Starts
      <3> QED BY <2>1, <3>2, <3>3 DEF Moves
    <2>3. CASE S!RecvCancel(p.id)
      BY <1>3, <2>3 DEF S!RecvCancel, S!streamVars
    <2> QED BY <1>5, <2>2, <2>3 DEF ServerRead, ServerStep
  <1>6. CASE ServerRun \/ ServerExit
    <2>1. UNCHANGED <<handler, items, reply>>
      BY <1>6 DEF ServerRun, ServerExit, ServerStep, S!Loops, S!Exit, S!RunStart,
                  S!SendRefusal, S!TxLoop, S!RunExit, S!DropServer, S!streamVars
    <2> QED BY <1>3, <2>1
  <1>7. ASSUME NEW i \in Calls, S!Task(i)
        PROVE  \/ \A j \in Calls : Quiet(j)
               \/ Moves(i) /\ \A j \in Calls \ {i} : Quiet(j)
    <2>m. made[i] \in Seq(C!Value) /\ made[i] \o <<>> = made[i]
      BY ConcatEmptySeq DEF MadeTyped
    <2>n. Produced(i) = <<>> => made'[i] = made[i]
      BY <1>1, <2>m
    <2>1. CASE S!StartHandler(i)
      <3>1. PICK h \in {"replying", "working", "streaming"} :
                /\ handler[i] = "spawned" /\ handler' = [handler EXCEPT ![i] = h]
                /\ items' = items
                /\ h = "replying" =>
                     reply' = [reply EXCEPT ![i] = <<S!M("error", i, 0)>>]
                /\ h # "replying" => reply' = reply
        BY <2>1 DEF S!StartHandler
      <3>2. /\ \A j \in Calls \ {i} : Quiet(j)
            /\ handler'[i] = h /\ items'[i] = items[i]
        BY <1>4, <3>1
      <3>3. CASE h = "replying"
        <4>1. reply'[i][1] = S!M("error", i, 0)
          BY <1>2, <3>1, <3>3
        <4>2. C!Event(reply'[i][1]) = C!Plain("error")
          BY <4>1 DEF S!M, C!Event, C!Plain
        <4>3. Produced(i) = <<C!Plain("error")>>
          BY <3>1, <3>2, <3>3, <4>2, ProducedCases
        <4>4. made'[i] = Append(made[i], C!Plain("error"))
          BY <1>1, <4>3, OneProduced, OutcomesTyped DEF Finals
        <4>5. Finishes(i, C!Plain("error"))
          BY <3>1, <3>2, <3>3, <4>2, <4>4 DEF Finishes
        <4> QED BY <3>2, <4>5, OutcomesTyped DEF Moves
      <3>4. CASE h # "replying"
        <4>1. Produced(i) = <<>>
          BY <3>1, <3>2, <3>4, ProducedCases
        <4>2. Starts(i)
          BY <2>n, <3>1, <3>2, <3>4, <4>1 DEF Starts
        <4> QED BY <3>2, <4>2 DEF Moves
      <3> QED BY <3>3, <3>4
    <2>2. CASE S!ReturnUnary(i)
      <3>1. PICK t \in {"response", "error"} :
                /\ handler[i] = "working"
                /\ handler' = [handler EXCEPT ![i] = "replying"]
                /\ items' = items /\ reply' = [reply EXCEPT ![i] = <<S!M(t, i, 0)>>]
        BY <2>2 DEF S!ReturnUnary, S!streamVars
      <3>2. /\ \A j \in Calls \ {i} : Quiet(j)
            /\ handler'[i] = "replying" /\ items'[i] = items[i]
        BY <1>4, <3>1
      <3>3. reply'[i][1] = S!M(t, i, 0)
        BY <1>2, <3>1
      <3>4. PICK v \in Finals : v = C!Event(reply'[i][1])
        <4>1. \/ C!Event(reply'[i][1]) = C!Plain("error")
              \/ C!Event(reply'[i][1]) = C!Plain("ok")
          BY <3>3 DEF S!M, C!Event, C!Plain
        <4> QED BY <4>1, OutcomesTyped
      <3>5. Produced(i) = <<v>>
        BY <3>1, <3>2, <3>4, ProducedCases
      <3>6. made'[i] = Append(made[i], v)
        BY <1>1, <3>5, OneProduced DEF Finals
      <3>7. Finishes(i, v)
        BY <3>1, <3>2, <3>4, <3>6 DEF Finishes
      <3> QED BY <3>2, <3>7 DEF Moves
    <2>3. CASE S!SendReply(i) \/ S!SendFailure(i)
      <3>1. /\ handler[i] \in {"replying", "failing"}
            /\ handler' = [handler EXCEPT ![i] = "done"] /\ items' = items
            /\ reply' = reply \/ reply' = [reply EXCEPT ![i] = <<>>]
        BY <2>3 DEF S!SendReply, S!SendFailure, S!streamVars
      <3>2. /\ \A j \in Calls \ {i} : Quiet(j)
            /\ handler'[i] = "done" /\ items'[i] = items[i]
        BY <1>4, <3>1
      <3>3. Produced(i) = <<>>
        BY <3>1, <3>2, ProducedCases
      <3>4. Passes(i)
        BY <2>n, <3>1, <3>2, <3>3 DEF Passes
      <3> QED BY <3>2, <3>4 DEF Moves
    <2>4. CASE S!SendItem(i)
      <3>1. /\ handler[i] = "streaming" /\ items[i] < MaxItems
            /\ items' = [items EXCEPT ![i] = @ + 1]
            /\ handler' = handler /\ reply' = reply
        BY <2>4 DEF S!SendItem
      <3>2. /\ items'[i] = items[i] + 1 /\ items'[i] \in 1..MaxItems
            /\ items'[i] # items[i]
        BY <1>2, <3>1, RpcAssumption
      <3>3. \A j \in Calls \ {i} : Quiet(j)
        BY <1>1, <1>2, <3>1, QuietCall
      <3>4. Produced(i) = <<Item(items'[i])>>
        BY <3>2, ProducedCases
      <3>5. made'[i] = Append(made[i], Item(items'[i]))
        BY <1>1, <3>2, <3>4, OneProduced, OutcomesTyped
      <3>6. Yields(i)
        BY <3>1, <3>2, <3>5 DEF Yields
      <3> QED BY <3>3, <3>6 DEF Moves
    <2>5. CASE S!FailStream(i)
      <3>1. /\ handler[i] = "streaming" /\ handler' = [handler EXCEPT ![i] = "failing"]
            /\ items' = items /\ reply' = reply
        BY <2>5 DEF S!FailStream, S!streamVars
      <3>2. /\ \A j \in Calls \ {i} : Quiet(j)
            /\ handler'[i] = "failing" /\ items'[i] = items[i]
        BY <1>4, <3>1
      <3>3. Produced(i) = <<C!Plain("error")>>
        BY <3>1, <3>2, ProducedCases
      <3>4. made'[i] = Append(made[i], C!Plain("error"))
        BY <1>1, <3>3, OneProduced, OutcomesTyped DEF Finals
      <3>5. Finishes(i, C!Plain("error"))
        BY <3>1, <3>2, <3>4 DEF Finishes
      <3> QED BY <3>2, <3>5, OutcomesTyped DEF Moves
    <2>6. CASE S!ReturnStream(i)
      <3>1. /\ handler[i] = "streaming" /\ handler' = [handler EXCEPT ![i] = "done"]
            /\ items' = items /\ reply' = reply
        BY <2>6 DEF S!ReturnStream
      <3>2. /\ \A j \in Calls \ {i} : Quiet(j)
            /\ handler'[i] = "done" /\ items'[i] = items[i]
        BY <1>4, <3>1
      <3>3. Produced(i) = <<C!Plain("end")>>
        BY <3>1, <3>2, ProducedCases
      <3>4. made'[i] = Append(made[i], C!Plain("end"))
        BY <1>1, <3>3, OneProduced, OutcomesTyped DEF Finals
      <3>5. Finishes(i, C!Plain("end"))
        BY <3>1, <3>2, <3>4 DEF Finishes
      <3> QED BY <3>2, <3>5, OutcomesTyped DEF Moves
    <2>7. CASE S!CancelHandler(i)
      <3>1. /\ handler[i] \in S!Live /\ handler' = [handler EXCEPT ![i] = "cancelled"]
            /\ items' = items /\ reply' = [reply EXCEPT ![i] = <<>>]
        BY <2>7 DEF S!CancelHandler
      <3>2. /\ \A j \in Calls \ {i} : Quiet(j)
            /\ handler'[i] = "cancelled" /\ items'[i] = items[i]
        BY <1>4, <3>1
      <3>3. Produced(i) = <<>>
        BY <3>1, <3>2, ProducedCases DEF S!Live
      <3>4. Stops(i)
        BY <2>n, <3>1, <3>2, <3>3 DEF Stops
      <3> QED BY <3>2, <3>4 DEF Moves
    <2>8. CASE S!ForwardTake(i) \/ S!ForwardSend(i) \/ S!ForwardEnd(i)
      <3>1. UNCHANGED <<handler, items, reply>>
        BY <2>8 DEF S!ForwardTake, S!ForwardSend, S!ForwardEnd
      <3> QED BY <1>3, <3>1
    <2> QED
      BY <1>7, <2>1, <2>2, <2>3, <2>4, <2>5, <2>6, <2>7, <2>8 DEF S!Task
  <1>8. CASE ServerTask
    BY <1>7, <1>8 DEF ServerTask, ServerStep
  <1> QED BY <1>5, <1>6, <1>8

-----------------------------------------------------------------------------
(***************************************************************************)
(* The server's half of the inductive invariant: what a service method     *)
(* produced is what its call's handler, its messages and their places in   *)
(* the queues and on the connection say, and a stream is cut short only    *)
(* when its caller dropped it or the server is gone.                       *)
(***************************************************************************)

\* The method of call i has returned, or failed.
Complete(i) == /\ Len(made[i]) = items[i] + 1
               /\ made[i][items[i] + 1].type # "item"

\* It was cancelled before it did.
Cut(i) == handler[i] = "cancelled" /\ Len(made[i]) = items[i]

MadeOK(i) ==
    /\ \A n \in 1..items[i] : made[i][n] = Item(n)
    /\ Len(made[i]) = items[i] \/ Complete(i)
    /\ handler[i] \in {"none", "spawned", "working", "streaming"} =>
           Len(made[i]) = items[i]
    /\ handler[i] \in {"replying", "failing", "done"} => Complete(i)
    /\ handler[i] = "replying" => made[i][items[i] + 1] = C!Event(reply[i][1])
    /\ handler[i] = "failing" => made[i][items[i] + 1] = C!Plain("error")
    /\ handler[i] # "refused"

HandlerOK(i) ==
    /\ handler[i] # "none" => /\ phase[i] \notin {"unused", "sending"}
                              /\ method[i] = kind[i]
    /\ signal[i] = "fired" /\ SP!Up => phase[i] = "dropped"

\* An ending says how the method ended, or that its caller is gone.
Proper(m) == Complete(m.id) /\ made[m.id][items[m.id] + 1] = C!Event(m)

EndingOK(m) == m.type # "item" =>
    Proper(m) \/ (m.type = "end" /\ Cut(m.id) /\ (SP!Up => phase[m.id] = "dropped"))

EndingsOK(q) == \A n \in DOMAIN q : EndingOK(q[n])

QueuedOK ==
    EndingsOK(outq) /\ \A i \in Calls : EndingsOK(held[i]) /\ EndingsOK(sq[i])

\* What was written of a call: items it has produced, and its ending after
\* the last of them.
Whole(i, n) == items[i] = 0 \/ \E k \in 1..(n - 1) : s2c[k] = S!M("item", i, items[i])

WellWritten(m, n) ==
    /\ handler[m.id] # "none"
    /\ m.type = "item" => m.body \in 1..items[m.id]
    /\ m.type # "item" =>
           /\ \/ Proper(m)
              \/ m.type = "end" /\ Cut(m.id) /\ phase[m.id] = "dropped"
           /\ Whole(m.id, n)

WrittenOK == \A n \in DOMAIN s2c : WellWritten(s2c[n], n)

MadesOK == \A i \in Calls : MadeOK(i)
HandlersOK == \A i \in Calls : HandlerOK(i)

ServerHalf == MadeTyped /\ MadesOK /\ HandlersOK /\ QueuedOK /\ WrittenOK

ServerMove == ServerRead \/ ServerTask \/ ServerRun \/ ServerExit

-----------------------------------------------------------------------------
(* What a method produces. *)

\* Types of a call's part of the server.
LEMMA CallTyped ==
    ASSUME Ends, MadeTyped, NEW i \in Calls
    PROVE  /\ items[i] \in Nat /\ items[i] <= MaxItems
           /\ made[i] \in Seq(C!Value) /\ Len(made[i]) \in Nat
           /\ DOMAIN made[i] = 1..Len(made[i])
  <1>1. items[i] \in 0..MaxItems
    BY EndsTyped DEF S!TypeOK
  <1>2. made[i] \in Seq(C!Value)
    BY DEF MadeTyped
  <1> QED BY <1>1, <1>2, LenProperties, RpcAssumption

\* A service method goes on after what it has produced, and after its last
\* outcome nothing follows.
LEMMA MoveMade ==
    ASSUME Ends, MadeTyped, NEW i \in Calls, MadeOK(i), Moves(i)
    PROVE  MadeOK(i)'
  <1> DEFINE q == made[i]  k == items[i]
  <1>1. k \in Nat /\ q \in Seq(C!Value) /\ Len(q) \in Nat
    BY CallTyped
  <1>2. CASE Quiet(i)
    BY <1>2 DEF Quiet, MadeOK, Complete
  <1>3. CASE Starts(i)
    BY <1>3 DEF Starts, MadeOK, Complete
  <1>4. CASE Yields(i)
    <2>1. handler[i] = "streaming" /\ handler'[i] = "streaming"
          /\ items'[i] = k + 1 /\ made'[i] = Append(q, Item(k + 1))
      BY <1>4 DEF Yields
    <2>2. Len(q) = k /\ \A n \in 1..k : q[n] = Item(n)
      BY <2>1 DEF MadeOK
    <2>3. Item(k + 1) \in C!Value
      BY <1>4, OutcomesTyped DEF Yields
    <2>4. Len(made'[i]) = k + 1 /\ made'[i][k + 1] = Item(k + 1)
          /\ \A n \in 1..k : made'[i][n] = Item(n)
      BY <1>1, <2>1, <2>2, <2>3, AppendProperties
    <2>5. \A n \in 1..(k + 1) : made'[i][n] = Item(n)
      BY <1>1, <2>4
    <2> QED BY <2>1, <2>4, <2>5 DEF MadeOK
  <1>5. ASSUME NEW v \in Finals, Finishes(i, v) PROVE MadeOK(i)'
    <2>1. handler[i] \in {"spawned", "working", "streaming"}
          /\ handler'[i] \in {"replying", "failing", "done"}
          /\ items'[i] = k /\ made'[i] = Append(q, v)
      BY <1>5 DEF Finishes
    <2>2. Len(q) = k /\ \A n \in 1..k : q[n] = Item(n)
      BY <2>1 DEF MadeOK
    <2>3. Len(made'[i]) = k + 1 /\ made'[i][k + 1] = v
          /\ \A n \in 1..k : made'[i][n] = Item(n)
      BY <1>1, <2>1, <2>2, AppendProperties DEF Finals
    <2>4. Complete(i)'
      BY <2>1, <2>3 DEF Complete, Finals
    <2>5. /\ handler'[i] = "replying" => v = C!Event(reply'[i][1])
          /\ handler'[i] = "failing" => v = C!Plain("error")
      BY <1>5 DEF Finishes
    <2> QED BY <2>1, <2>3, <2>4, <2>5 DEF MadeOK
  <1>6. CASE Passes(i)
    BY <1>6 DEF Passes, MadeOK, Complete
  <1>7. CASE Stops(i)
    BY <1>7 DEF Stops, MadeOK, Complete
  <1> QED BY <1>2, <1>3, <1>4, <1>5, <1>6, <1>7 DEF Moves

\* What a method has ended with stays, and so does where it was cut.
LEMMA MoveEnds ==
    ASSUME Ends, MadeTyped, NEW i \in Calls, MadeOK(i), Moves(i)
    PROVE  /\ items'[i] \in Nat /\ items'[i] >= items[i]
           /\ handler[i] # "none" => handler'[i] # "none"
           /\ Complete(i) => /\ Complete(i)' /\ items'[i] = items[i]
                             /\ made'[i] = made[i]
           /\ Cut(i) => Cut(i)' /\ items'[i] = items[i]
  <1>1. items[i] \in Nat /\ Len(made[i]) \in Nat
    BY CallTyped
  <1>2. CASE Quiet(i)
    BY <1>1, <1>2 DEF Quiet, Complete, Cut
  <1>3. CASE Starts(i) \/ Passes(i) \/ Stops(i)
    BY <1>1, <1>3 DEF Starts, Passes, Stops, Complete, Cut, S!Live
  <1>4. CASE Yields(i) \/ \E v \in Finals : Finishes(i, v)
    <2>1. /\ handler[i] \in {"spawned", "working", "streaming"}
          /\ handler'[i] # "none"
          /\ items'[i] = items[i] \/ items'[i] = items[i] + 1
      BY <1>4 DEF Yields, Finishes
    <2>2. ~Complete(i) /\ ~Cut(i)
      BY <1>1, <2>1 DEF MadeOK, Complete, Cut
    <2> QED BY <1>1, <2>1, <2>2
  <1> QED BY <1>2, <1>3, <1>4 DEF Moves

\* So in every step of the server.
LEMMA ServerKeeps ==
    ASSUME Ends, ReadsOK, MadeTyped, MadesOK, ServerMove
    PROVE  /\ MadesOK'
           /\ \A i \in Calls :
                /\ items'[i] \in Nat /\ items'[i] >= items[i]
                /\ handler[i] # "none" => handler'[i] # "none"
                /\ Complete(i) => /\ Complete(i)' /\ items'[i] = items[i]
                                  /\ made'[i] = made[i]
                /\ Cut(i) => Cut(i)' /\ items'[i] = items[i]
  <1>1. \A i \in Calls : Moves(i)
    BY ServerMoves DEF ServerMove, Moves
  <1>2. \A i \in Calls : MadeOK(i)
    BY DEF MadesOK
  <1>3. MadesOK'
    BY <1>1, <1>2, MoveMade DEF MadesOK
  <1> QED BY <1>1, <1>2, <1>3, MoveEnds

\* Outcomes stay outcomes.
LEMMA ServerMadeTyped ==
    ASSUME Ends, ReadsOK, MadeTyped, ServerMove
    PROVE  MadeTyped'
  <1>1. made' = [i \in Calls |-> made[i] \o Produced(i)]
    BY DEF ServerMove, ServerRead, ServerTask, ServerRun, ServerExit, ServerStep
  <1>2. ASSUME NEW i \in Calls PROVE made'[i] \in Seq(C!Value)
    <2>1. Moves(i) /\ made[i] \in Seq(C!Value)
      BY ServerMoves DEF ServerMove, Moves, MadeTyped
    <2>2. made'[i] = made[i] \/ \E v \in C!Value : made'[i] = Append(made[i], v)
      BY <2>1, OutcomesTyped
         DEF Moves, Quiet, Starts, Yields, Finishes, Passes, Stops, Finals
    <2>3. CASE made'[i] = made[i]
      BY <2>1, <2>3
    <2>4. ASSUME NEW v \in C!Value, made'[i] = Append(made[i], v)
          PROVE  made'[i] \in Seq(C!Value)
      BY <2>1, <2>4, AppendProperties
    <2> QED BY <2>2, <2>3, <2>4
  <1> QED BY <1>1, <1>2 DEF MadeTyped

-----------------------------------------------------------------------------
(* The queues of the server. *)

\* Endings say the truth after a step of the server as they did before.
LEMMA EndingKept ==
    ASSUME Ends, ReadsOK, MadeTyped, MadesOK, ServerMove,
           NEW m \in S!Msg, EndingOK(m)
    PROVE  EndingOK(m)'
  <1>1. m.id \in Calls
    BY DEF S!Msg
  <1>2. /\ Complete(m.id) => /\ Complete(m.id)' /\ items'[m.id] = items[m.id]
                             /\ made'[m.id] = made[m.id]
        /\ Cut(m.id) => Cut(m.id)'
    BY <1>1, ServerKeeps
  <1>3. SP!Up' => SP!Up
    BY DEF SP!Up, ServerMove, ServerRead, ServerTask, ServerRun, ServerExit,
           ServerStep, S!RecvRequest, S!RecvCancel, S!Receiving, S!Loops, S!Exit,
           S!RunStart, S!SendRefusal, S!TxLoop, S!RunExit, S!DropServer, S!Task,
           S!StartHandler, S!ReturnUnary, S!SendReply, S!SendItem, S!FailStream,
           S!SendFailure, S!ReturnStream, S!CancelHandler, S!ForwardTake,
           S!ForwardSend, S!ForwardEnd
  <1>4. phase' = phase
    BY DEF ServerMove, ServerRead, ServerTask, ServerRun, ServerExit, ServerStep,
           cvars
  <1>5. C!Event(m)' = C!Event(m)
    BY DEF C!Event
  <1> QED BY <1>2, <1>3, <1>4, <1>5 DEF EndingOK, Proper

\* So do those of a queue.
LEMMA EndingsKept ==
    ASSUME Ends, ReadsOK, MadeTyped, MadesOK, ServerMove,
           NEW q \in Seq(S!Msg), EndingsOK(q)
    PROVE  \A n \in DOMAIN q : EndingOK(q[n])'
  <1>1. \A n \in DOMAIN q : q[n] \in S!Msg /\ EndingOK(q[n])
    BY ElementOfSeq, LenProperties DEF EndingsOK
  <1> QED BY <1>1, EndingKept

\* A queue that grows by a message.
LEMMA EndingsAppended ==
    ASSUME NEW q \in Seq(S!Msg), \A n \in DOMAIN q : EndingOK(q[n])',
           NEW m \in S!Msg, EndingOK(m)'
    PROVE  \A n \in DOMAIN Append(q, m) : EndingOK(Append(q, m)[n])'
  <1>1. /\ DOMAIN Append(q, m) = DOMAIN q \cup {Len(q) + 1}
        /\ \A n \in DOMAIN q : Append(q, m)[n] = q[n]
        /\ Append(q, m)[Len(q) + 1] = m
    BY AppendProperties, LenProperties
  <1>2. ASSUME NEW n \in DOMAIN Append(q, m)
        PROVE  EndingOK(Append(q, m)[n])'
    <2>1. PICK r \in S!Msg : r = Append(q, m)[n] /\ EndingOK(r)'
      <3>1. CASE n \in DOMAIN q
        BY <1>1, <3>1, ElementOfSeq, LenProperties
      <3>2. CASE n = Len(q) + 1
        BY <1>1, <3>2
      <3> QED BY <1>1, <1>2, <3>1, <3>2
    <2> QED BY <2>1
  <1> QED BY <1>2

\* A queue whose head is taken, or that is emptied.
LEMMA EndingsTail ==
    ASSUME NEW q \in Seq(S!Msg), \A n \in DOMAIN q : EndingOK(q[n])', q # <<>>
    PROVE  /\ \A n \in DOMAIN Tail(q) : EndingOK(Tail(q)[n])'
           /\ EndingOK(Head(q))'
           /\ \A n \in DOMAIN <<Head(q)>> : EndingOK(<<Head(q)>>[n])'
  <1>1. /\ \A n \in DOMAIN Tail(q) : n + 1 \in DOMAIN q /\ Tail(q)[n] = q[n + 1]
        /\ Head(q) = q[1] /\ 1 \in DOMAIN q
    BY HeadTailProperties, LenProperties, EmptySeq
  <1>2. ASSUME NEW n \in DOMAIN Tail(q) PROVE EndingOK(Tail(q)[n])'
    <2>1. PICK r : r = q[n + 1] /\ r = Tail(q)[n] /\ EndingOK(r)'
      BY <1>1, <1>2
    <2> QED BY <2>1
  <1>3. PICK h : h = Head(q) /\ EndingOK(h)'
    BY <1>1
  <1>4. DOMAIN <<Head(q)>> = {1} /\ <<Head(q)>>[1] = h
    BY <1>3
  <1> QED BY <1>2, <1>3, <1>4

\* The reply a handler is sending.
LEMMA ReplySent ==
    ASSUME Ends, MadesOK, NEW i \in Calls, handler[i] = "replying"
    PROVE  \E m \in S!Msg : /\ reply[i] = <<m>> /\ m.id = i
                            /\ EndingOK(m)
  <1>1. SP!TaskOK(i) /\ MadeOK(i)
    BY DEF Ends, SP!IInv, SP!TasksOK, MadesOK
  <1>2. PICK t \in {"response", "error"} : reply[i] = <<SP!M(t, i, 0)>>
    BY <1>1 DEF SP!TaskOK
  <1>3. SP!M(t, i, 0) \in S!Msg /\ SP!M(t, i, 0).id = i
    BY RpcAssumption DEF SP!M, S!Msg
  <1>4. reply[i][1] = SP!M(t, i, 0)
    BY <1>2
  <1>5. Proper(SP!M(t, i, 0))
    BY <1>1, <1>3, <1>4 DEF MadeOK, Proper
  <1> QED BY <1>2, <1>3, <1>5 DEF EndingOK

\* What a forwarder sends.
LEMMA HeldSent ==
    ASSUME Ends, NEW i \in Calls, held[i] # <<>>
    PROVE  \E m \in S!Msg : held[i] = <<m>>
  <1>1. SP!TypeOK /\ SP!TasksOK
    BY DEF Ends, SP!IInv
  <1>2. \E m \in SP!Msg : held[i] = <<m>>
    BY <1>1, SP!HeldTyped, Constants
  <1> QED BY <1>2 DEF S!Msg, SP!Msg

\* The outgoing queue.
LEMMA NextOutq ==
    ASSUME Ends, ReadsOK, ServerHalf, ServerMove
    PROVE  EndingsOK(outq)'
  <1>1. \A m \in S!Msg : EndingOK(m) => EndingOK(m)'
    BY EndingKept DEF ServerHalf
  <1>2. PICK q \in Seq(S!Msg) : q = outq
    BY EndsTyped DEF S!TypeOK
  <1>3. \A n \in DOMAIN q : EndingOK(q[n])'
    BY <1>2, EndingsKept DEF ServerHalf, QueuedOK
  <1>4. \/ outq' = outq \/ outq' = <<>>
        \/ outq # <<>> /\ outq' = Tail(outq)
        \/ \E i \in Calls : handler[i] = "replying" /\ outq' = outq \o reply[i]
        \/ \E i \in Calls : held[i] # <<>> /\ outq' = outq \o held[i]
    <2>1. refusal = <<>>
      BY DEF Ends, SP!IInv, SP!RefusalOK, ServerHalf, MadesOK, MadeOK
    <2> QED
      BY <2>1
         DEF ServerMove, ServerRead, ServerTask, ServerRun, ServerExit,
             ServerStep, S!RecvRequest, S!RecvCancel, S!Loops, S!Exit,
             S!RunStart, S!SendRefusal, S!TxLoop, S!RunExit, S!DropServer,
             S!Task, S!StartHandler, S!ReturnUnary, S!SendReply, S!SendItem,
             S!FailStream, S!SendFailure, S!ReturnStream, S!CancelHandler,
             S!ForwardTake, S!ForwardSend, S!ForwardEnd
  <1>5. ASSUME NEW r \in Seq(S!Msg), outq' = r,
               \A n \in DOMAIN r : EndingOK(r[n])'
        PROVE  EndingsOK(outq)'
    BY <1>5 DEF EndingsOK
  <1>6. CASE outq' = outq
    BY <1>2, <1>3, <1>5, <1>6
  <1>7. CASE outq' = <<>>
    <2>1. <<>> \in Seq(S!Msg) /\ DOMAIN <<>> = {}
      BY EmptySeq
    <2> QED BY <1>5, <1>7, <2>1
  <1>8. CASE outq # <<>> /\ outq' = Tail(outq)
    <2>1. Tail(q) \in Seq(S!Msg) /\ outq' = Tail(q)
          /\ \A n \in DOMAIN Tail(q) : EndingOK(Tail(q)[n])'
      BY <1>2, <1>3, <1>8, EndingsTail, HeadTailProperties
    <2> QED BY <1>5, <2>1
  <1>9. ASSUME NEW m \in S!Msg, EndingOK(m), outq' = outq \o <<m>>
        PROVE  EndingsOK(outq)'
    <2>1. outq' = Append(q, m) /\ Append(q, m) \in Seq(S!Msg)
      BY <1>2, <1>9, AppendIsConcat, AppendProperties
    <2>2. \A n \in DOMAIN Append(q, m) : EndingOK(Append(q, m)[n])'
      BY <1>1, <1>3, <1>9, EndingsAppended
    <2> QED BY <1>5, <2>1, <2>2
  <1>10. ASSUME NEW i \in Calls, handler[i] = "replying", outq' = outq \o reply[i]
         PROVE  EndingsOK(outq)'
    BY <1>9, <1>10, ReplySent DEF ServerHalf
  <1>11. ASSUME NEW i \in Calls, held[i] # <<>>, outq' = outq \o held[i]
         PROVE  EndingsOK(outq)'
    <2>1. PICK m \in S!Msg : held[i] = <<m>>
      BY <1>11, HeldSent
    <2>2. EndingsOK(held[i])
      BY DEF ServerHalf, QueuedOK
    <2>3. EndingOK(m)
      <3>1. held[i][1] = m /\ 1 \in DOMAIN held[i]
        BY <2>1
      <3> QED BY <2>2, <3>1 DEF EndingsOK
    <2> QED BY <1>9, <1>11, <2>1, <2>3
  <1> QED BY <1>4, <1>6, <1>7, <1>8, <1>10, <1>11

\* What forwarders hold.
LEMMA NextHeld ==
    ASSUME Ends, ReadsOK, ServerHalf, ServerMove
    PROVE  \A i \in Calls : EndingsOK(held[i])'
  <1> SUFFICES ASSUME NEW i \in Calls PROVE EndingsOK(held[i])'
    OBVIOUS
  <1>1. PICK q \in Seq(S!Msg), s \in Seq(S!Msg) : q = held[i] /\ s = sq[i]
    BY EndsTyped DEF S!TypeOK
  <1>2. /\ \A n \in DOMAIN q : EndingOK(q[n])'
        /\ \A n \in DOMAIN s : EndingOK(s[n])'
    BY <1>1, EndingsKept DEF ServerHalf, QueuedOK
  <1>3. \/ held'[i] = held[i] \/ held'[i] = <<>>
        \/ sq[i] # <<>> /\ held'[i] = <<Head(sq[i])>>
    <2>1. DOMAIN held = Calls
      BY EndsTyped DEF S!TypeOK
    <2>2. CASE ServerRead
      BY <2>2 DEF ServerRead, ServerStep, S!RecvRequest, S!RecvCancel, S!streamVars
    <2>3. CASE ServerTask
      <3>1. PICK j \in Calls : S!Task(j)
        BY <2>3 DEF ServerTask, ServerStep
      <3> QED
        BY <2>1, <3>1
           DEF S!Task, S!StartHandler, S!ReturnUnary, S!SendReply, S!SendItem,
               S!FailStream, S!SendFailure, S!ReturnStream, S!CancelHandler,
               S!ForwardTake, S!ForwardSend, S!ForwardEnd, S!streamVars
    <2>4. CASE ServerRun
      BY <2>1, <2>4
         DEF ServerRun, ServerStep, S!Loops, S!RunStart, S!SendRefusal, S!TxLoop,
             S!streamVars
    <2>5. CASE ServerExit
      BY <2>1, <2>5
         DEF ServerExit, ServerStep, S!Exit, S!RunExit, S!DropServer, S!streamVars
    <2> QED BY <2>2, <2>3, <2>4, <2>5 DEF ServerMove
  <1>4. ASSUME NEW r, held'[i] = r, \A n \in DOMAIN r : EndingOK(r[n])'
        PROVE  EndingsOK(held[i])'
    BY <1>4 DEF EndingsOK
  <1>5. CASE held'[i] = <<>>
    <2>1. DOMAIN <<>> = {}
      OBVIOUS
    <2> QED BY <1>4, <1>5, <2>1
  <1>6. CASE sq[i] # <<>> /\ held'[i] = <<Head(sq[i])>>
    <2>1. \A n \in DOMAIN <<Head(s)>> : EndingOK(<<Head(s)>>[n])'
      BY <1>1, <1>2, <1>6, EndingsTail
    <2> QED BY <1>1, <1>4, <1>6, <2>1
  <1> QED BY <1>1, <1>2, <1>3, <1>4, <1>5, <1>6

\* What a handler puts into its stream's queue.
LEMMA MessageQueued ==
    ASSUME Ends, ReadsOK, ServerHalf, ServerMove, NEW i \in Calls,
           NEW t \in {"item", "end", "error"}, NEW b \in 0..MaxItems,
           t = "error" => handler[i] = "failing" /\ b = 0,
           t = "end" => /\ b = 0 /\ handler[i] = "streaming"
                        /\ \/ handler'[i] = "done"
                           \/ handler'[i] = "cancelled" /\ signal[i] = "fired"
    PROVE  S!M(t, i, b) \in S!Msg /\ EndingOK(S!M(t, i, b))'
  <1> DEFINE m == S!M(t, i, b)
  <1>1. m \in S!Msg /\ m.id = i /\ m.type = t /\ m.body = b
    BY DEF S!M, S!Msg
  <1>2. MadeOK(i) /\ HandlerOK(i) /\ Moves(i) /\ MadeTyped
    BY ServerMoves DEF ServerHalf, MadesOK, HandlersOK, ServerMove, Moves
  <1>3. items[i] \in Nat /\ made[i] \in Seq(C!Value) /\ Len(made[i]) \in Nat
    BY <1>2, CallTyped
  <1>4. CASE t = "item"
    BY <1>1, <1>4 DEF EndingOK
  <1>5. CASE t = "error"
    <2>1. EndingOK(m)
      <3>1. C!Event(m) = C!Plain("error")
        BY <1>1, <1>5 DEF C!Event, C!Plain
      <3> QED BY <1>1, <1>2, <1>5, <3>1 DEF EndingOK, Proper, MadeOK
    <2> QED BY <1>1, <2>1, EndingKept DEF ServerHalf
  <1>6. CASE t = "end" /\ handler'[i] = "done"
    <2>1. PICK v \in Finals : Finishes(i, v)
      BY <1>2, <1>6 DEF Moves, Quiet, Starts, Yields, Passes, Stops
    <2>2. v = C!Plain("end") /\ items'[i] = items[i] /\ made'[i] = Append(made[i], v)
      BY <1>6, <2>1 DEF Finishes
    <2>3. Len(made[i]) = items[i]
      BY <1>2, <1>6 DEF MadeOK
    <2>4. made'[i][items'[i] + 1] = C!Plain("end")
      BY <1>3, <2>2, <2>3, AppendProperties DEF Finals
    <2>5. Complete(i)'
      BY <1>6, ServerKeeps DEF ServerHalf, MadesOK, MadeOK
    <2>6. C!Event(m)' = C!Plain("end")
      BY <1>1, <1>6 DEF C!Event, C!Plain
    <2> QED BY <1>1, <2>4, <2>5, <2>6 DEF EndingOK, Proper
  <1>7. CASE t = "end" /\ handler'[i] = "cancelled" /\ signal[i] = "fired"
    <2>1. items'[i] = items[i] /\ made'[i] = made[i]
      BY <1>2, <1>7 DEF Moves, Quiet, Starts, Yields, Finishes, Passes, Stops
    <2>2. Cut(i)'
      BY <1>2, <1>7, <2>1 DEF Cut, MadeOK
    <2>3. SP!Up' => phase'[i] = "dropped"
      <3>1. phase' = phase
        BY DEF ServerMove, ServerRead, ServerTask, ServerRun, ServerExit,
               ServerStep, cvars
      <3>2. SP!Up' => SP!Up
        BY DEF SP!Up, ServerMove, ServerRead, ServerTask, ServerRun, ServerExit,
               ServerStep, S!RecvRequest, S!RecvCancel, S!Receiving, S!Loops,
               S!Exit, S!RunStart, S!SendRefusal, S!TxLoop, S!RunExit,
               S!DropServer, S!Task, S!StartHandler, S!ReturnUnary, S!SendReply,
               S!SendItem, S!FailStream, S!SendFailure, S!ReturnStream,
               S!CancelHandler, S!ForwardTake, S!ForwardSend, S!ForwardEnd
      <3> QED BY <1>2, <1>7, <3>1, <3>2 DEF HandlerOK
    <2> QED BY <1>1, <1>7, <2>2, <2>3 DEF EndingOK
  <1> QED BY <1>1, <1>4, <1>5, <1>6, <1>7

\* How the queue of a stream changes.
LEMMA SqChanges ==
    ASSUME Ends, ServerMove, NEW i \in Calls
    PROVE  \/ sq'[i] = sq[i] \/ sq'[i] = <<>>
           \/ sq[i] # <<>> /\ sq'[i] = Tail(sq[i])
           \/ \E t \in {"item", "end", "error"}, b \in 0..MaxItems :
                /\ sq'[i] = Append(sq[i], S!M(t, i, b))
                /\ t = "error" => handler[i] = "failing" /\ b = 0
                /\ t = "end" =>
                     /\ b = 0 /\ handler[i] = "streaming"
                     /\ \/ handler'[i] = "done"
                        \/ handler'[i] = "cancelled" /\ signal[i] = "fired"
  <1>1. /\ DOMAIN sq = Calls /\ DOMAIN handler = Calls
        /\ \A j \in Calls : items[j] \in 0..MaxItems
        /\ sq \in [Calls -> Seq(S!Msg)]
    BY EndsTyped DEF S!TypeOK
  <1>2. CASE sq' = sq
    BY <1>2
  <1>3. ASSUME NEW j \in Calls, NEW q, sq' = [sq EXCEPT ![j] = q], j # i
        PROVE  sq'[i] = sq[i]
    BY <1>1, <1>3
  <1>4. ASSUME NEW j \in Calls, S!SendItem(j), j = i
        PROVE  \E b \in 0..MaxItems : sq'[i] = Append(sq[i], S!M("item", i, b))
    <2>1. items[i] + 1 \in 0..MaxItems
      BY <1>1, <1>4, RpcAssumption DEF S!SendItem
    <2> QED BY <1>1, <1>4, <2>1 DEF S!SendItem
  <1>5. 0 \in 0..MaxItems
    BY RpcAssumption
  <1>6. ASSUME NEW j \in Calls, S!SendFailure(j), sq' # sq, j = i
        PROVE  handler[i] = "failing" /\ sq'[i] = Append(sq[i], S!M("error", i, 0))
    BY <1>1, <1>6 DEF S!SendFailure
  <1>7. ASSUME NEW j \in Calls, S!ReturnStream(j) \/ S!CancelHandler(j), sq' # sq,
               j = i
        PROVE  /\ handler[i] = "streaming"
               /\ sq'[i] = Append(sq[i], S!M("end", i, 0))
               /\ \/ handler'[i] = "done"
                  \/ handler'[i] = "cancelled" /\ signal[i] = "fired"
    BY <1>1, <1>7 DEF S!ReturnStream, S!CancelHandler, S!DropSender
  <1>8. ASSUME NEW j \in Calls, S!ForwardTake(j), j = i
        PROVE  sq[i] # <<>> /\ sq'[i] = Tail(sq[i])
    BY <1>1, <1>8 DEF S!ForwardTake
  <1>9. ASSUME NEW j \in Calls, S!ForwardSend(j), sq' # sq, j = i
        PROVE  sq'[i] = <<>>
    BY <1>1, <1>9 DEF S!ForwardSend
  <1>10. ASSUME NEW j \in Calls, S!Task(j), sq' # sq
         PROVE  /\ \E q : sq' = [sq EXCEPT ![j] = q]
                /\ \/ S!SendItem(j) \/ S!SendFailure(j) \/ S!ReturnStream(j)
                   \/ S!CancelHandler(j) \/ S!ForwardTake(j) \/ S!ForwardSend(j)
    BY <1>10
       DEF S!Task, S!StartHandler, S!ReturnUnary, S!SendReply, S!SendItem,
           S!FailStream, S!SendFailure, S!ReturnStream, S!CancelHandler,
           S!ForwardTake, S!ForwardSend, S!ForwardEnd, S!streamVars, S!DropSender
  <1>11. CASE sq' # sq
    <2>1. PICK j \in Calls : S!Task(j)
      BY <1>11
         DEF ServerMove, ServerRead, ServerTask, ServerRun, ServerExit,
             ServerStep, S!RecvRequest, S!RecvCancel, S!Loops, S!Exit,
             S!RunStart, S!SendRefusal, S!TxLoop, S!RunExit, S!DropServer,
             S!streamVars
    <2>2. CASE j # i
      BY <1>3, <1>10, <1>11, <2>1, <2>2
    <2>3. CASE j = i
      BY <1>4, <1>5, <1>6, <1>7, <1>8, <1>9, <1>10, <1>11, <2>1, <2>3
    <2> QED BY <2>2, <2>3
  <1> QED BY <1>2, <1>11

\* The queues of the streams.
LEMMA NextSq ==
    ASSUME Ends, ReadsOK, ServerHalf, ServerMove
    PROVE  \A i \in Calls : EndingsOK(sq[i])'
  <1> SUFFICES ASSUME NEW i \in Calls PROVE EndingsOK(sq[i])'
    OBVIOUS
  <1>1. PICK s \in Seq(S!Msg) : s = sq[i]
    BY EndsTyped DEF S!TypeOK
  <1>2. \A n \in DOMAIN s : EndingOK(s[n])'
    BY <1>1, EndingsKept DEF ServerHalf, QueuedOK
  <1>3. ASSUME NEW r, sq'[i] = r, \A n \in DOMAIN r : EndingOK(r[n])'
        PROVE  EndingsOK(sq[i])'
    BY <1>3 DEF EndingsOK
  <1>4. CASE sq'[i] = <<>>
    <2>1. DOMAIN <<>> = {}
      OBVIOUS
    <2> QED BY <1>3, <1>4, <2>1
  <1>5. CASE sq[i] # <<>> /\ sq'[i] = Tail(sq[i])
    <2>1. \A n \in DOMAIN Tail(s) : EndingOK(Tail(s)[n])'
      BY <1>1, <1>2, <1>5, EndingsTail
    <2> QED BY <1>1, <1>3, <1>5, <2>1
  <1>6. ASSUME NEW t \in {"item", "end", "error"}, NEW b \in 0..MaxItems,
               sq'[i] = Append(sq[i], S!M(t, i, b)),
               t = "error" => handler[i] = "failing" /\ b = 0,
               t = "end" => /\ b = 0 /\ handler[i] = "streaming"
                            /\ \/ handler'[i] = "done"
                               \/ handler'[i] = "cancelled" /\ signal[i] = "fired"
        PROVE  EndingsOK(sq[i])'
    <2>1. PICK m \in S!Msg : m = S!M(t, i, b) /\ EndingOK(m)'
      BY <1>6, MessageQueued
    <2>2. \A n \in DOMAIN Append(s, m) : EndingOK(Append(s, m)[n])'
      BY <1>2, <2>1, EndingsAppended
    <2> QED BY <1>1, <1>3, <1>6, <2>1, <2>2
  <1>7. CASE sq'[i] = sq[i]
    BY <1>1, <1>2, <1>3, <1>7
  <1> QED BY <1>4, <1>5, <1>6, <1>7, SqChanges

-----------------------------------------------------------------------------
(* What the server reads, and what it has written. *)

\* A packet of the client tells what has become of its call.
LEMMA PacketRead ==
    ASSUME Ends, ReadsOK, c_read < Len(c2s)
    PROVE  LET p == c2s[c_read + 1] IN
           /\ p.id \in Calls /\ p.kind = kind[p.id]
           /\ phase[p.id] \notin {"unused", "sending"}
           /\ p.type = "cancel" => phase[p.id] = "dropped"
  <1>1. /\ c2s \in Seq(C!Packet) /\ tx \in Seq(C!Packet)
        /\ c_read + 1 \in DOMAIN c2s /\ c2s[c_read + 1].id \in Calls
    BY EndsTyped, Readable DEF C!TypeOK, C!Packet
  <1>2. c_read + 1 \in DOMAIN CP!Sent /\ CP!Sent[c_read + 1] = c2s[c_read + 1]
    <2>1. /\ c2s \o tx \in Seq(C!Packet) /\ Len(c2s \o tx) = Len(c2s) + Len(tx)
          /\ \A n \in 1..Len(c2s) : (c2s \o tx)[n] = c2s[n]
          /\ Len(c2s) \in Nat /\ Len(tx) \in Nat
      BY <1>1, ConcatProperties, LenProperties
    <2>2. c_read + 1 \in 1..Len(c2s) /\ c_read + 1 \in 1..Len(c2s \o tx)
      BY <1>1, <2>1, LenProperties DEF ReadsOK
    <2> QED BY <2>1, <2>2, LenProperties DEF CP!Sent
  <1> QED
    BY <1>1, <1>2
       DEF Ends, CP!PInv, CP!PacketsHaveCalls, CP!CancelIsLast, CP!Unsent

\* The server learns of a call from its REQUEST, and of its caller's death
\* from its CANCEL.
LEMMA ServerHandlers ==
    ASSUME Ends, ReadsOK, ServerHalf, ServerMove
    PROVE  HandlersOK'
  <1> SUFFICES ASSUME NEW i \in Calls PROVE HandlerOK(i)'
    BY DEF HandlersOK
  <1>1. HandlerOK(i) /\ phase' = phase /\ kind' = kind
    BY DEF ServerHalf, HandlersOK, ServerMove, ServerRead, ServerTask, ServerRun,
           ServerExit, ServerStep, cvars
  <1>2. /\ DOMAIN handler = Calls /\ DOMAIN signal = Calls /\ DOMAIN method = Calls
    BY EndsTyped DEF S!TypeOK
  <1>3. CASE ServerRead
    <2> DEFINE p == c2s[c_read + 1]
    <2>1. /\ p.id \in Calls /\ p.kind = kind[p.id]
          /\ phase[p.id] \notin {"unused", "sending"}
          /\ p.type = "cancel" => phase[p.id] = "dropped"
      BY <1>3, PacketRead DEF ServerRead
    <2> HIDE DEF p
    <2>2. CASE S!RecvRequest(p.id, p.kind)
      <3>1. /\ signal' = [signal EXCEPT ![p.id] = "armed"]
            /\ method' = [method EXCEPT ![p.id] = p.kind]
            /\ handler' = [handler EXCEPT ![p.id] = "spawned"]
            /\ srv' = srv
        BY <2>2 DEF S!RecvRequest
      <3> QED BY <1>1, <1>2, <2>1, <3>1 DEF HandlerOK, SP!Up
    <2>3. CASE S!RecvCancel(p.id) /\ p.type = "cancel"
      <3>1. /\ signal' = signal \/ signal' = [signal EXCEPT ![p.id] = "fired"]
            /\ method' = method /\ handler' = handler /\ srv' = srv
        BY <2>3 DEF S!RecvCancel
      <3> QED BY <1>1, <1>2, <2>1, <2>3, <3>1 DEF HandlerOK, SP!Up
    <2> QED BY <1>3, <2>2, <2>3 DEF ServerRead, ServerStep, p
  <1>4. CASE ServerTask
    <2>1. PICK j \in Calls : S!Task(j)
      BY <1>4 DEF ServerTask, ServerStep
    <2>2. UNCHANGED <<signal, method, srv>>
      BY <2>1
         DEF S!Task, S!StartHandler, S!ReturnUnary, S!SendReply, S!SendItem,
             S!FailStream, S!SendFailure, S!ReturnStream, S!CancelHandler,
             S!ForwardTake, S!ForwardSend, S!ForwardEnd, S!callVars
    <2>3. handler[j] = "none" => handler' = handler
      BY <2>1
         DEF S!Task, S!StartHandler, S!ReturnUnary, S!SendReply, S!SendItem,
             S!FailStream, S!SendFailure, S!ReturnStream, S!CancelHandler,
             S!ForwardTake, S!ForwardSend, S!ForwardEnd, S!Live
    <2>4. handler' = handler \/ \E h : handler' = [handler EXCEPT ![j] = h]
      BY <2>1
         DEF S!Task, S!StartHandler, S!ReturnUnary, S!SendReply, S!SendItem,
             S!FailStream, S!SendFailure, S!ReturnStream, S!CancelHandler,
             S!ForwardTake, S!ForwardSend, S!ForwardEnd
    <2>5. handler'[i] # "none" => handler[i] # "none"
      BY <1>2, <2>3, <2>4
    <2> QED BY <1>1, <2>2, <2>5 DEF HandlerOK, SP!Up
  <1>5. CASE ServerRun \/ ServerExit
    <2>1. UNCHANGED <<method, handler>>
      BY <1>5
         DEF ServerRun, ServerExit, ServerStep, S!Loops, S!Exit, S!RunStart,
             S!SendRefusal, S!TxLoop, S!RunExit, S!DropServer, S!callVars
    <2>2. SP!Up' => SP!Up /\ signal' = signal
      BY <1>5
         DEF ServerRun, ServerExit, ServerStep, S!Loops, S!Exit, S!RunStart,
             S!SendRefusal, S!TxLoop, S!RunExit, S!DropServer, S!callVars, SP!Up
    <2> QED BY <1>1, <2>1, <2>2 DEF HandlerOK
  <1> QED BY <1>3, <1>4, <1>5 DEF ServerMove

\* The message the server is about to write.
LEMMA NextWritten ==
    ASSUME Ends, ReadsOK, ServerHalf, srv = "running", outq # <<>>
    PROVE  Head(outq) \in S!Msg /\ WellWritten(Head(outq), Len(s2c) + 1)
  <1> DEFINE p == Len(s2c) + 1
  <1>1. /\ SP!TypeOK /\ SP!TasksOK /\ SP!OutOK /\ SP!Up /\ SP!Up = TRUE
        /\ \A i \in Calls : SP!QueueOK(i)
    BY DEF Ends, SP!IInv, SP!Up, SP!QueuesOK
  <1>2. PICK m \in S!Msg : m = Head(outq)
    BY EndsTyped, HeadTailProperties DEF S!TypeOK
  <1>3. PICK i \in Calls : i = m.id
    BY DEF S!Msg
  <1>4. /\ p \in DOMAIN SP!Out /\ SP!Out[p] = m /\ Len(s2c) \in Nat
        /\ \A n \in 1..Len(s2c) : SP!Out[n] = s2c[n]
    <2>1. s2c \in Seq(S!Msg) /\ outq \in Seq(S!Msg)
      BY EndsTyped DEF S!TypeOK
    <2>2. /\ Len(s2c \o outq) = Len(s2c) + Len(outq) /\ s2c \o outq \in Seq(S!Msg)
          /\ Len(s2c) \in Nat /\ Len(outq) \in Nat /\ Len(outq) >= 1
          /\ \A n \in 1..Len(s2c) : (s2c \o outq)[n] = s2c[n]
      BY <2>1, ConcatProperties, LenProperties, EmptySeq
    <2>3. p \in 1..Len(s2c \o outq) /\ (s2c \o outq)[p] = outq[1]
      <3>1. p - Len(s2c) = 1
        BY <2>2
      <3>2. p \in 1..(Len(s2c) + Len(outq)) /\ p > Len(s2c)
        BY <2>2
      <3> QED BY <2>1, <2>2, <3>1, <3>2, ConcatProperties
    <2>4. outq[1] = m
      BY <1>2, <2>1, HeadTailProperties
    <2> QED BY <2>2, <2>3, <2>4, LenProperties DEF SP!Out
  <1>5. SP!Accounted(m) /\ SP!TaskOK(i) /\ SP!InOrder(SP!Out)
    BY <1>1, <1>4 DEF SP!OutOK, SP!OutAccounted, SP!TasksOK
  <1>6. /\ items[i] \in Nat /\ Len(SP!Queue(i)) \in Nat
        /\ SP!Queue(i) = <<>> => Len(SP!Queue(i)) = 0 /\ ~SP!Ended(SP!Queue(i))
        /\ SP!Queue(i) # <<>> => Len(SP!Queue(i)) >= 1
    <2>1. SP!Queue(i) \in Seq(S!Msg)
      BY EndsTyped, ConcatProperties DEF S!TypeOK, SP!Queue
    <2>2. items[i] \in Nat
      BY CallTyped DEF ServerHalf
    <2> QED BY <2>1, <2>2, EmptySeq, LenProperties DEF SP!Ended
  <1>7. SP!Forwarded(i) <= items[i]
    <2>1. CASE SP!Ended(SP!Queue(i))
      <3>1. SP!Forwarded(i) = items[i] + 1 - Len(SP!Queue(i))
        BY <2>1 DEF SP!Forwarded
      <3> QED BY <1>6, <2>1, <3>1 DEF SP!Ended
    <2>2. CASE ~SP!Ended(SP!Queue(i))
      <3>1. SP!Forwarded(i) = items[i] + 0 - Len(SP!Queue(i))
        BY <2>2 DEF SP!Forwarded
      <3> QED BY <1>6, <3>1
    <2> QED BY <2>1, <2>2
  <1>8. SP!Forwarded(i) \in Nat
    BY <1>1 DEF SP!QueueOK
  <1>9. CASE m.type = "item"
    <2>1. fwd[i] # "none" /\ m.body \in 1..SP!Forwarded(i)
      BY <1>3, <1>5, <1>9 DEF SP!Accounted
    <2>2. handler[i] # "none"
      BY <1>5, <2>1 DEF SP!TaskOK
    <2>3. m.body \in 1..items[i]
      BY <1>6, <1>7, <1>8, <2>1
    <2> QED BY <1>2, <1>3, <1>9, <2>2, <2>3 DEF WellWritten
  <1>10. CASE m.type # "item"
    <2>1. SP!Replied(i) \/ SP!Drained(i)
      BY <1>3, <1>5, <1>10 DEF SP!Accounted, SP!Refused, ServerHalf, MadesOK, MadeOK
    <2>2. handler[i] # "none"
      BY <2>1 DEF SP!Replied, SP!Drained
    <2>3. items[i] = 0 \/ SP!Forwarded(i) = items[i]
      <3>1. CASE SP!Replied(i)
        BY <1>5, <3>1 DEF SP!Replied, SP!TaskOK
      <3>2. CASE SP!Drained(i)
        <4>1. SP!Queue(i) = <<>>
          BY <3>2 DEF SP!Drained
        <4>2. SP!Forwarded(i) = items[i] + 0 - 0
          BY <1>6, <4>1 DEF SP!Forwarded
        <4> QED BY <1>6, <4>2
      <3> QED BY <2>1, <3>1, <3>2
    <2>4. Whole(i, p)
      <3>1. CASE items[i] = 0
        BY <3>1 DEF Whole
      <3>2. CASE items[i] # 0
        <4>1. PICK n \in DOMAIN SP!Out : SP!Out[n] = SP!M("item", i, items[i])
          BY <1>1, <1>6, <2>3, <3>2 DEF SP!OutOK, SP!OutComplete
        <4>2. SP!Out[n].id = i /\ SP!Out[n].type = "item"
          BY <4>1 DEF SP!M
        <4>3. n \in Nat /\ DOMAIN SP!Out = 1..Len(SP!Out) /\ Len(SP!Out) \in Nat
              /\ n >= 1
          BY <1>1, SP!OutTyped, Constants
        <4>4. ~(n >= p)
          <5>1. n # p
            BY <1>4, <1>10, <4>2
          <5>2. ASSUME n > p PROVE FALSE
            <6>1. p \in 1..(n - 1)
              BY <1>4, <4>3, <5>2
            <6> QED BY <1>3, <1>4, <1>5, <1>10, <4>2, <6>1 DEF SP!InOrder
          <5> QED BY <1>4, <4>3, <5>1, <5>2
        <4>5. n \in 1..Len(s2c)
          BY <1>4, <4>3, <4>4
        <4>6. s2c[n] = S!M("item", i, items[i])
          BY <1>4, <4>1, <4>5 DEF S!M, SP!M
        <4>7. n \in 1..(p - 1)
          BY <1>4, <4>5
        <4> QED BY <4>6, <4>7 DEF Whole
      <3> QED BY <3>1, <3>2
    <2>5. EndingOK(m)
      <3>1. EndingsOK(outq)
        BY DEF ServerHalf, QueuedOK
      <3>2. outq \in Seq(S!Msg)
        BY EndsTyped DEF S!TypeOK
      <3>3. 1 \in DOMAIN outq /\ outq[1] = m
        BY <1>2, <3>2, HeadTailProperties, LenProperties, EmptySeq
      <3> QED BY <3>1, <3>3 DEF EndingsOK
    <2>6. Proper(m) \/ (m.type = "end" /\ Cut(i) /\ phase[i] = "dropped")
      BY <1>1, <1>3, <1>10, <2>5 DEF EndingOK
    <2> QED BY <1>2, <1>3, <1>10, <2>2, <2>4, <2>6 DEF WellWritten
  <1> QED BY <1>9, <1>10

\* What was written stays true.
LEMMA WrittenKept ==
    ASSUME Ends, ReadsOK, MadeTyped, MadesOK, ServerMove,
           [Next]_vars, NEW m \in S!Msg, NEW n \in 1..(Len(s2c) + 1), WellWritten(m, n)
    PROVE  WellWritten(m, n)'
  <1>1. PICK i \in Calls : i = m.id
    BY DEF S!Msg
  <1>2. /\ items'[i] \in Nat /\ items'[i] >= items[i] /\ items[i] \in Nat
        /\ handler[i] # "none" => handler'[i] # "none"
        /\ Complete(i) => /\ Complete(i)' /\ items'[i] = items[i]
                          /\ made'[i] = made[i]
        /\ Cut(i) => Cut(i)' /\ items'[i] = items[i]
    BY ServerKeeps, CallTyped
  <1>3. phase' = phase
    BY DEF ServerMove, ServerRead, ServerTask, ServerRun, ServerExit, ServerStep,
           cvars
  <1>4. ASSUME Whole(i, n), items'[i] = items[i] PROVE Whole(i, n)'
    <2>1. ASSUME NEW k \in 1..(n - 1), s2c[k] = S!M("item", i, items[i])
          PROVE  s2c'[k] = S!M("item", i, items'[i])
      <3>1. k \in DOMAIN s2c
        <4>1. Len(s2c) \in Nat /\ DOMAIN s2c = 1..Len(s2c)
          BY EndsTyped, LenProperties
        <4> QED BY <4>1
      <3> QED BY <1>4, <2>1, <3>1, Grows
    <2> QED BY <1>4, <2>1 DEF Whole, S!M
  <1>5. m.type = "item" /\ m.body \in 1..items[i] => m.body \in 1..items'[i]
    BY <1>2
  <1>6. C!Event(m)' = C!Event(m)
    BY DEF C!Event
  <1> QED BY <1>1, <1>2, <1>3, <1>4, <1>5, <1>6 DEF WellWritten, Proper

\* What the server writes is as it should be.
LEMMA ServerWrites ==
    ASSUME Ends, ReadsOK, ServerHalf, ServerMove, [Next]_vars
    PROVE  WrittenOK'
  <1>1. /\ s2c \in Seq(S!Msg) /\ Len(s2c) \in Nat /\ DOMAIN s2c = 1..Len(s2c)
    BY EndsTyped, LenProperties
  <1>2. ASSUME NEW n \in DOMAIN s2c
        PROVE  WellWritten(s2c[n], n)'
    <2>1. PICK m \in S!Msg : m = s2c[n] /\ WellWritten(m, n)
      BY <1>1, <1>2, ElementOfSeq DEF ServerHalf, WrittenOK
    <2>2. s2c'[n] = m
      BY <1>2, <2>1, Grows
    <2>3. WellWritten(m, n)'
      BY <1>1, <1>2, <2>1, WrittenKept DEF ServerHalf
    <2> QED BY <2>2, <2>3
  <1>3. CASE s2c' = s2c
    BY <1>2, <1>3 DEF WrittenOK
  <1>4. CASE s2c' # s2c
    <2>1. S!TxLoop
      BY <1>4
         DEF ServerMove, ServerRead, ServerTask, ServerRun, ServerExit,
             ServerStep, S!RecvRequest, S!RecvCancel, S!Loops, S!Exit,
             S!RunStart, S!SendRefusal, S!RunExit, S!DropServer, S!Task,
             S!StartHandler, S!ReturnUnary, S!SendReply, S!SendItem,
             S!FailStream, S!SendFailure, S!ReturnStream, S!CancelHandler,
             S!ForwardTake, S!ForwardSend, S!ForwardEnd
    <2>2. srv = "running" /\ outq # <<>> /\ s2c' = Append(s2c, Head(outq))
      BY <2>1 DEF S!TxLoop
    <2>3. PICK m \in S!Msg : m = Head(outq) /\ WellWritten(m, Len(s2c) + 1)
      BY <2>2, NextWritten
    <2>4. PICK l : l = Len(s2c) + 1
      OBVIOUS
    <2>5. WellWritten(m, l)'
      <3>1. l \in 1..(Len(s2c) + 1)
        BY <1>1, <2>4
      <3> QED BY <2>3, <2>4, <3>1, WrittenKept DEF ServerHalf
    <2>6. DOMAIN s2c' = DOMAIN s2c \cup {l} /\ s2c'[l] = m
      BY <1>1, <2>2, <2>3, <2>4, AppendProperties, LenProperties
    <2>7. WellWritten(s2c[l], l)'
      BY <2>5, <2>6
    <2> QED BY <1>2, <2>6, <2>7 DEF WrittenOK
  <1> QED BY <1>3, <1>4

\* So the server keeps its half.
LEMMA ServerServer ==
    ASSUME Ends, ReadsOK, ServerHalf, ServerMove, [Next]_vars
    PROVE  ServerHalf'
  <1>1. MadeTyped' /\ MadesOK'
    BY ServerMadeTyped, ServerKeeps DEF ServerHalf
  <1>2. HandlersOK'
    BY ServerHandlers
  <1>3. QueuedOK'
    BY NextOutq, NextHeld, NextSq DEF QueuedOK
  <1>4. WrittenOK'
    BY ServerWrites
  <1> QED BY <1>1, <1>2, <1>3, <1>4 DEF ServerHalf

-----------------------------------------------------------------------------
(* What the client does to the server's half. *)

ClientMove == ClientRead \/ ClientCall \/ ClientTask \/ ClientDrop \/ ClientRun
                \/ ClientExit

\* A call that has left for the server keeps its kind and does not start
\* anew, and a call that was dropped stays dropped.
LEMMA CallsGoOn ==
    ASSUME Ends, ReadsOK, ClientMove \/ UNCHANGED vars, NEW i \in Calls
    PROVE  /\ phase[i] \notin {"unused", "sending"} =>
                  phase'[i] \notin {"unused", "sending"} /\ kind'[i] = kind[i]
           /\ phase[i] = "dropped" => phase'[i] = "dropped"
           /\ phase[i] # "unused" => kind'[i] = kind[i]
           /\ run = "exited" => run' = "exited"
  <1>1. /\ DOMAIN phase = Calls /\ DOMAIN kind = Calls
        /\ phase[next_id] = "unused" \/ next_id \notin Calls
    BY EndsTyped DEF C!TypeOK, Ends, CP!IInv, CP!Fresh
  <1>2. C!Next \/ UNCHANGED cvars
    BY Readable
       DEF ClientMove, ClientRead, ClientCall, ClientTask, ClientDrop, ClientRun,
           ClientExit, ClientStep, C!Next, vars
  <1>3. ASSUME NEW k \in {"unary", "stream"}, C!Begin(k)
        PROVE  /\ phase[i] # "unused" => phase'[i] = phase[i] /\ kind'[i] = kind[i]
               /\ run' = run
    BY <1>1, <1>3 DEF C!Begin
  <1>4. CASE ~\E k \in {"unary", "stream"} : C!Begin(k)
    <2>1. kind' = kind
      BY <1>2, <1>4
         DEF C!Next, C!CallUnary, C!CallStream, C!Caller, C!Abandon, C!Loops,
             C!RunExit, C!Receive, C!SendRequest, C!SendFailed, C!UnaryResult,
             C!StreamRecv, C!CancelTask, C!DropSending, C!DropUnary,
             C!DropStream, C!RunStart, C!Deliver, C!TxLoop, C!callVars, cvars
    <2>2. \/ phase' = phase
          \/ \E j \in Calls : /\ phase[j] \in {"sending", "waiting", "open"}
                              /\ \E h \in {"waiting", "open", "done", "dropped",
                                           "panicked"} :
                                     phase' = [phase EXCEPT ![j] = h]
      BY <1>2, <1>4
         DEF C!Next, C!CallUnary, C!CallStream, C!Caller, C!Abandon, C!Loops,
             C!RunExit, C!Receive, C!SendRequest, C!SendFailed, C!UnaryResult,
             C!StreamRecv, C!CancelTask, C!DropSending, C!DropUnary,
             C!DropStream, C!RunStart, C!Deliver, C!TxLoop, cvars
    <2>3. run = "exited" => run' = "exited"
      BY <1>2, <1>4
         DEF C!Next, C!CallUnary, C!CallStream, C!Caller, C!Abandon, C!Loops,
             C!RunExit, C!Receive, C!SendRequest, C!SendFailed, C!UnaryResult,
             C!StreamRecv, C!CancelTask, C!DropSending, C!DropUnary,
             C!DropStream, C!RunStart, C!Deliver, C!TxLoop, cvars
    <2> QED BY <1>1, <2>1, <2>2, <2>3
  <1> QED BY <1>3, <1>4

\* The server's half holds whatever the client does.
LEMMA ServerClient ==
    ASSUME Ends, ReadsOK, ServerHalf, ClientMove \/ UNCHANGED vars
    PROVE  ServerHalf'
  <1>1. UNCHANGED <<svars, made>>
    BY DEF ClientMove, ClientRead, ClientCall, ClientTask, ClientDrop, ClientRun,
           ClientExit, ClientStep, vars
  <1>2. /\ MadeTyped' /\ MadesOK'
        /\ \A i \in Calls : /\ Complete(i) => Complete(i)'
                            /\ Cut(i) => Cut(i)'
    BY <1>1 DEF ServerHalf, MadeTyped, MadesOK, MadeOK, Complete, Cut, svars
  <1>3. HandlersOK'
    BY <1>1, CallsGoOn DEF ServerHalf, HandlersOK, HandlerOK, svars, SP!Up
  <1>4. ASSUME NEW m \in S!Msg
        PROVE  /\ Proper(m) => Proper(m)'
               /\ EndingOK(m) => EndingOK(m)'
               /\ \A n \in Nat : WellWritten(m, n) => WellWritten(m, n)'
    <2>1. m.id \in Calls
      BY DEF S!Msg
    <2>2. C!Event(m)' = C!Event(m) /\ SP!Up' = SP!Up
      BY <1>1 DEF C!Event, SP!Up, svars
    <2>3. Proper(m) => Proper(m)'
      BY <1>1, <1>2, <2>1, <2>2 DEF Proper, svars
    <2>4. EndingOK(m) => EndingOK(m)'
      BY <1>1, <1>2, <2>1, <2>2, <2>3, CallsGoOn DEF EndingOK
    <2>5. \A n \in Nat : Whole(m.id, n) => Whole(m.id, n)'
      BY <1>1 DEF Whole, S!M, svars
    <2> QED
      BY <1>1, <1>2, <2>1, <2>3, <2>4, <2>5, CallsGoOn DEF WellWritten, svars
  <1>5. ASSUME NEW q \in Seq(S!Msg), EndingsOK(q)
        PROVE  EndingsOK(q)'
    BY <1>4, <1>5, ElementOfSeq, LenProperties DEF EndingsOK
  <1>6. QueuedOK'
    <2>1. PICK o \in Seq(S!Msg) : o = outq /\ o = outq'
      BY <1>1, EndsTyped DEF S!TypeOK, svars
    <2>2. EndingsOK(outq)'
      BY <1>5, <2>1 DEF ServerHalf, QueuedOK
    <2>3. ASSUME NEW i \in Calls PROVE EndingsOK(held[i])' /\ EndingsOK(sq[i])'
      <3>1. PICK h \in Seq(S!Msg) : h = held[i] /\ h = held'[i]
        BY <1>1, EndsTyped DEF S!TypeOK, svars
      <3>2. PICK s \in Seq(S!Msg) : s = sq[i] /\ s = sq'[i]
        BY <1>1, EndsTyped DEF S!TypeOK, svars
      <3>3. EndingsOK(h) /\ EndingsOK(s)
        BY <3>1, <3>2 DEF ServerHalf, QueuedOK
      <3> QED BY <1>5, <3>1, <3>2, <3>3
    <2> QED BY <2>2, <2>3 DEF QueuedOK
  <1>7. WrittenOK'
    <2>1. s2c' = s2c /\ s2c \in Seq(S!Msg) /\ DOMAIN s2c = 1..Len(s2c)
      BY <1>1, EndsTyped, LenProperties DEF svars
    <2>2. ASSUME NEW n \in DOMAIN s2c PROVE WellWritten(s2c[n], n)'
      <3>1. PICK m \in S!Msg : m = s2c[n]
        BY <2>1, <2>2, ElementOfSeq
      <3>2. WellWritten(m, n) /\ n \in Nat
        BY <2>1, <2>2, <3>1 DEF ServerHalf, WrittenOK
      <3> QED BY <1>4, <2>1, <3>1, <3>2
    <2> QED BY <2>1, <2>2 DEF WrittenOK
  <1> QED BY <1>2, <1>3, <1>6, <1>7 DEF ServerHalf

-----------------------------------------------------------------------------
(***************************************************************************)
(* The client's half of the inductive invariant: what a caller was told    *)
(* and what is on its way to it in the client continue each other, and are *)
(* what the method has produced, or "down" after the exit of run().        *)
(***************************************************************************)
Reading(i) == phase[i] \in {"sending", "open"}

\* The event that is number n of a stream.
Due(i, v, n) ==
    \/ v = Item(n) /\ n <= items[i]
    \/ v = C!Down /\ run = "exited"
    \/ /\ v.type \in {"end", "error"} /\ Complete(i)
       /\ n = items[i] + 1 /\ made[i][n] = v

\* Events of a stream that have reached the client for it.
Count(i) == Len(got[i]) + Len(events[i]) + (IF rx.id = i THEN 1 ELSE 0)

ItemsOnly(q) == \A n \in DOMAIN q : q[n].type = "item"

\* What was read from the connection for call i is its items up to number k.
ReadOK(i, k) ==
    /\ \A n \in 1..s_read : s2c[n].id = i => s2c[n].type = "item" /\ s2c[n].body <= k
    /\ k = 0 \/ \E n \in 1..s_read : s2c[n] = S!M("item", i, k)

EventsOK(i) ==
    /\ \A n \in DOMAIN events[i] :
           /\ Due(i, events[i][n], Len(got[i]) + n)
           /\ n < Len(events[i]) => events[i][n].type = "item"
    /\ events[i] # <<>> => ~Ended(i)

InHandOK(i) == rx.id = i =>
    ~Ended(i) /\ ItemsOnly(events[i]) /\ Due(i, rx.event, Count(i))

PendingOK(i) == i \in pending =>
    /\ ~Ended(i) /\ ItemsOnly(events[i]) /\ ReadOK(i, Count(i))
    /\ rx.id = i => rx.event.type = "item"

OverOK(i) == i \notin pending /\ run # "exited" =>
    \/ Ended(i) \/ ~ItemsOnly(events[i])
    \/ rx.id = i /\ rx.event.type # "item"

ViewOK(i) == EventsOK(i) /\ InHandOK(i) /\ PendingOK(i) /\ OverOK(i)

StreamOK(i) == kind[i] = "stream" /\ Reading(i) => ViewOK(i)

ResultOK(i) ==
    /\ ~Ended(i) => result[i] = IF got[i] = <<>> THEN C!None ELSE Item(Len(got[i]))
    /\ phase[i] \in {"unused", "sending", "waiting"} => got[i] = <<>>
    /\ kind[i] = "unary" /\ resp[i] # C!None =>
         \/ resp[i] = C!Down /\ run = "exited"
         \/ /\ Complete(i) /\ items[i] = 0 /\ made[i][1] = resp[i]
            /\ resp[i].type \in {"ok", "error"}

StartOK(i) == phase[i] = "unused" =>
    events[i] = <<>> /\ resp[i] = C!None /\ i \notin pending /\ rx.id # i

GotTyped == got \in [Calls -> Seq(C!Value)]

CallerOK(i) == StreamOK(i) /\ ResultOK(i) /\ StartOK(i)

ClientHalf == GotTyped /\ \A i \in Calls : CallerOK(i)

-----------------------------------------------------------------------------
(* What callers are told. *)

\* Types of a call's part of the client.
LEMMA CallerTyped ==
    ASSUME Ends, GotTyped, NEW i \in Calls
    PROVE  /\ got[i] \in Seq(C!Value) /\ Len(got[i]) \in Nat
           /\ got[i] = <<>> <=> Len(got[i]) = 0
           /\ events[i] \in Seq(C!Value) /\ Len(events[i]) \in Nat
           /\ events[i] = <<>> <=> Len(events[i]) = 0
           /\ DOMAIN events[i] = 1..Len(events[i])
           /\ rx.id = i => Count(i) = Len(got[i]) + Len(events[i]) + 1
           /\ rx.id # i => Count(i) = Len(got[i]) + Len(events[i])
           /\ rx.event \in C!Value /\ Count(i) \in Nat
           /\ result[i] \in C!Value /\ resp[i] \in C!Value
  <1>1. got[i] \in Seq(C!Value) /\ events[i] \in Seq(C!Value)
    BY EndsTyped DEF GotTyped, C!TypeOK
  <1>2. rx.event \in C!Value /\ result[i] \in C!Value /\ resp[i] \in C!Value
    <2>1. /\ rx \in [id : 0..MaxCalls, event : C!Value]
          /\ result \in [Calls -> C!Value] /\ resp \in [Calls -> C!Value]
      BY EndsTyped DEF C!TypeOK
    <2> QED BY <2>1
  <1>3. /\ Len(got[i]) \in Nat /\ Len(events[i]) \in Nat
        /\ got[i] = <<>> <=> Len(got[i]) = 0
        /\ events[i] = <<>> <=> Len(events[i]) = 0
        /\ DOMAIN events[i] = 1..Len(events[i])
    BY <1>1, LenProperties, EmptySeq
  <1>4. /\ Count(i) \in Nat
        /\ rx.id = i => Count(i) = Len(got[i]) + Len(events[i]) + 1
        /\ rx.id # i => Count(i) = Len(got[i]) + Len(events[i])
    <2>1. PICK a \in Nat, b \in Nat : a = Len(got[i]) /\ b = Len(events[i])
      BY <1>3
    <2>2. CASE rx.id = i
      <3>1. Count(i) = a + b + 1
        BY <2>1, <2>2 DEF Count
      <3>2. a + b + 1 \in Nat
        OBVIOUS
      <3> QED BY <2>1, <2>2, <3>1, <3>2
    <2>3. CASE rx.id # i
      <3>1. Count(i) = a + b + 0
        BY <2>1, <2>3 DEF Count
      <3>2. a + b + 0 = a + b /\ a + b \in Nat
        OBVIOUS
      <3> QED BY <2>1, <2>3, <3>1, <3>2
    <2> QED BY <2>2, <2>3
  <1> QED BY <1>1, <1>2, <1>3, <1>4

\* The next event of a stream, and those behind it.
LEMMA NextEvent ==
    ASSUME NEW q \in Seq(C!Value), q # <<>>
    PROVE  /\ 1 \in DOMAIN q /\ Head(q) = q[1] /\ Head(q) \in C!Value
           /\ Tail(q) \in Seq(C!Value) /\ Len(q) \in Nat
           /\ Len(Tail(q)) + 1 = Len(q) /\ Len(Tail(q)) \in Nat
           /\ DOMAIN q = 1..Len(q) /\ DOMAIN Tail(q) = 1..Len(Tail(q))
           /\ \A n \in DOMAIN Tail(q) : n + 1 \in DOMAIN q /\ Tail(q)[n] = q[n + 1]
  <1>1. Len(q) \in Nat \ {0} /\ DOMAIN q = 1..Len(q)
    BY LenProperties, EmptySeq
  <1>2. /\ Head(q) = q[1] /\ Head(q) \in C!Value
        /\ Tail(q) \in Seq(C!Value) /\ Len(Tail(q)) = Len(q) - 1
        /\ \A n \in 1..Len(Tail(q)) : Tail(q)[n] = q[n + 1]
    BY HeadTailProperties
  <1>3. DOMAIN Tail(q) = 1..Len(Tail(q))
    BY <1>2, LenProperties
  <1> QED BY <1>1, <1>2, <1>3

\* A caller whose await did not return is told nothing.
LEMMA ToldNothing ==
    ASSUME GotTyped, NEW j \in Calls,
           result'[j] = result[j] \/ (Ended(j) /\ result'[j] = C!Closed),
           got' = [i \in Calls |-> got[i] \o Told(i)]
    PROVE  got'[j] = got[j]
  <1>1. got[j] \in Seq(C!Value) /\ Told(j) = <<>>
    BY DEF GotTyped, Told
  <1>2. got'[j] = got[j] \o <<>>
    BY <1>1
  <1> QED BY <1>1, <1>2, ConcatEmptySeq

\* One whose await returned something is told it.
LEMMA ToldOne ==
    ASSUME GotTyped, NEW j \in Calls, NEW v \in C!Value, result'[j] = v,
           v # result[j], ~Ended(j),
           got' = [i \in Calls |-> got[i] \o Told(i)]
    PROVE  got'[j] = Append(got[j], v)
  <1>1. got[j] \in Seq(C!Value) /\ Told(j) = <<v>>
    BY DEF GotTyped, Told
  <1>2. got'[j] = got[j] \o <<v>>
    BY <1>1
  <1> QED BY <1>1, <1>2, AppendIsConcat

\* An outcome that is not an item is the last one.
LEMMA GotOne ==
    ASSUME GotTyped, NEW j \in Calls, NEW v \in C!Value,
           got'[j] = Append(got[j], v)
    PROVE  /\ Len(got'[j]) = Len(got[j]) + 1 /\ got'[j] # <<>>
           /\ Ended(j)' <=> v.type # "item"
  <1>1. got[j] \in Seq(C!Value)
    BY DEF GotTyped
  <1>2. /\ Len(got'[j]) = Len(got[j]) + 1 /\ got'[j] # <<>>
        /\ got'[j][Len(got'[j])] = v
    BY <1>1, AppendProperties, LenProperties, EmptySeq
  <1> QED BY <1>2 DEF Ended

-----------------------------------------------------------------------------
(* A step of the client, as the caller of one call sees it. *)

Same(j) ==
    /\ phase'[j] = phase[j] /\ kind'[j] = kind[j] /\ result'[j] = result[j]
    /\ resp'[j] = resp[j] /\ events'[j] = events[j] /\ got'[j] = got[j]
    /\ j \in pending' <=> j \in pending
    /\ rx'.id = j <=> rx.id = j
    /\ rx.id = j => rx'.event = rx.event

Begins(i) ==
    /\ phase[i] = "unused" /\ phase'[i] \in {"sending", "panicked"}
    /\ resp'[i] = resp[i] /\ events'[i] = events[i] /\ got'[i] = got[i]
    /\ result'[i] = result[i] /\ rx' = rx
    /\ phase'[i] = "sending" => i \in pending'

Departs(i) ==
    /\ phase[i] = "sending"
    /\ \/ phase'[i] = "waiting"
       \/ phase'[i] = "open" /\ kind[i] = "stream"
    /\ kind'[i] = kind[i] /\ result'[i] = result[i]
    /\ resp'[i] = resp[i] /\ events'[i] = events[i] /\ got'[i] = got[i]
    /\ i \in pending' <=> i \in pending
    /\ rx' = rx

Gone(i) ==
    /\ phase[i] \notin {"unused"} /\ phase'[i] \in {"dropped", "panicked"}
    /\ kind'[i] = kind[i] /\ result'[i] = result[i] /\ resp'[i] = resp[i]
    /\ got'[i] = got[i]

FailsToSend(i) ==
    /\ phase[i] = "sending" /\ phase'[i] = "done" /\ run = "exited"
    /\ kind'[i] = kind[i] /\ resp'[i] = resp[i]
    /\ result'[i] = C!Down /\ got'[i] = Append(got[i], C!Down)

Answered(i) ==
    /\ phase[i] = "waiting" /\ phase'[i] = "done" /\ resp[i] # C!None
    /\ kind[i] = "unary" /\ kind'[i] = kind[i] /\ resp'[i] = resp[i]
    /\ result'[i] = resp[i] /\ got'[i] = Append(got[i], resp[i])

\* recv() returns an event.
Takes(i) ==
    /\ phase[i] = "open" /\ phase'[i] = "open"
    /\ kind[i] = "stream" /\ kind'[i] = kind[i] /\ resp'[i] = resp[i]
    /\ events[i] # <<>> /\ events'[i] = Tail(events[i])
    /\ result'[i] = C!RecvValue(Head(events[i]))
    /\ ~Ended(i) /\ got'[i] = Append(got[i], C!RecvValue(Head(events[i])))
    /\ i \in pending' <=> i \in pending
    /\ rx' = rx

\* recv() finds no sender.
TakesNone(i) ==
    /\ phase[i] = "open" /\ phase'[i] = "open"
    /\ kind[i] = "stream" /\ kind'[i] = kind[i] /\ resp'[i] = resp[i]
    /\ events[i] = <<>> /\ events'[i] = <<>>
    /\ result'[i] = C!Closed
    /\ IF Ended(i) THEN got'[i] = got[i] ELSE got'[i] = Append(got[i], C!Closed)
    /\ i \notin pending /\ i \notin pending'
    /\ rx.id # i /\ rx' = rx

Delivers(i) ==
    /\ rx.id = i /\ rx'.id # i
    /\ phase'[i] = phase[i] /\ kind'[i] = kind[i] /\ result'[i] = result[i]
    /\ resp'[i] = resp[i] /\ got'[i] = got[i]
    /\ i \in pending' <=> i \in pending
    /\ IF Reading(i) THEN events'[i] = Append(events[i], rx.event)
                     ELSE events'[i] = events[i]

\* What a step of the client on its own does to one call.
Acts(i) == \/ Begins(i) \/ Departs(i) \/ Gone(i) \/ FailsToSend(i) \/ Answered(i)
           \/ Takes(i) \/ TakesNone(i) \/ Delivers(i) \/ Same(i)

\* A step that is about one call leaves the others alone.
LEMMA OneCaller ==
    ASSUME Ends, GotTyped, NEW i \in Calls,
           phase' = phase \/ \E h : phase' = [phase EXCEPT ![i] = h],
           kind' = kind \/ \E h : kind' = [kind EXCEPT ![i] = h],
           result' = result \/ \E h : result' = [result EXCEPT ![i] = h],
           resp' = resp \/ \E h : resp' = [resp EXCEPT ![i] = h],
           events' = events \/ \E h : events' = [events EXCEPT ![i] = h],
           \/ pending' = pending \/ pending' = pending \ {i}
           \/ pending' = pending \cup {i},
           rx' = rx \/ (rx.id \in {0, i} /\ rx'.id \in {0, i}),
           got' = [j \in Calls |-> got[j] \o Told(j)]
    PROVE  \A j \in Calls \ {i} : Same(j)
  <1> SUFFICES ASSUME NEW j \in Calls, j # i PROVE Same(j)
    OBVIOUS
  <1>1. /\ phase \in [Calls -> {"unused", "sending", "waiting", "open", "done",
                                "dropped", "panicked"}]
        /\ kind \in [Calls -> {"unary", "stream"}]
        /\ result \in [Calls -> C!Value] /\ resp \in [Calls -> C!Value]
        /\ events \in [Calls -> Seq(C!Value)]
    BY EndsTyped DEF C!TypeOK
  <1>2. phase'[j] = phase[j] /\ kind'[j] = kind[j]
    BY <1>1
  <1>3. result'[j] = result[j] /\ resp'[j] = resp[j]
    BY <1>1
  <1>4. events'[j] = events[j]
    BY <1>1
  <1>5. got'[j] = got[j]
    BY <1>3, ToldNothing
  <1>6. j # 0
    BY Constants
  <1>7. /\ rx'.id = j <=> rx.id = j
        /\ rx.id = j => rx'.event = rx.event
    BY <1>6
  <1> QED BY <1>2, <1>3, <1>4, <1>5, <1>7 DEF Same

\* A call begins.
LEMMA CallMoves ==
    ASSUME Ends, GotTyped, ClientCall
    PROVE  \E i \in Calls : Begins(i) /\ \A j \in Calls \ {i} : Same(j)
  <1>1. PICK k \in {"unary", "stream"} : C!Begin(k)
    BY DEF ClientCall, ClientStep, C!CallUnary, C!CallStream
  <1>2. PICK i \in Calls : i = next_id
    BY <1>1 DEF C!Begin
  <1>3. got' = [j \in Calls |-> got[j] \o Told(j)]
    BY DEF ClientCall, ClientStep
  <1>4. UNCHANGED <<result, resp, events, rx>>
    BY <1>1 DEF C!Begin
  <1>5. /\ phase[i] = "unused" /\ DOMAIN phase = Calls
    BY <1>2, EndsTyped DEF Ends, CP!IInv, CP!Fresh, C!TypeOK
  <1>6. \/ /\ phase' = [phase EXCEPT ![i] = "sending"]
           /\ pending' = pending \cup {i}
        \/ /\ phase' = [phase EXCEPT ![i] = "panicked"] /\ pending' = pending
    BY <1>1, <1>2 DEF C!Begin
  <1>7. \A j \in Calls \ {i} : Same(j)
    <2>1. kind' = [kind EXCEPT ![i] = k]
      BY <1>1, <1>2 DEF C!Begin
    <2> QED BY <1>3, <1>4, <1>6, <2>1, OneCaller
  <1>8. got'[i] = got[i]
    BY <1>3, <1>4, ToldNothing
  <1>9. Begins(i)
    BY <1>4, <1>5, <1>6, <1>8 DEF Begins
  <1> QED BY <1>7, <1>9

\* What a caller's future, or its cancel task, does.
LEMMA CallerMoves ==
    ASSUME Ends, ClientHalf, NEW i \in Calls, C!Caller(i),
           got' = [j \in Calls |-> got[j] \o Told(j)]
    PROVE  Acts(i) /\ \A j \in Calls \ {i} : Same(j)
  <1>0. CallerOK(i) /\ GotTyped
    BY DEF ClientHalf
  <1>1. /\ DOMAIN phase = Calls /\ DOMAIN result = Calls /\ DOMAIN events = Calls
        /\ kind[i] \in {"unary", "stream"}
    BY EndsTyped DEF C!TypeOK
  <1>2. result'[i] = result[i] => got'[i] = got[i]
    BY <1>0, ToldNothing
  <1>3. /\ phase[i] = "waiting" => kind[i] = "unary"
        /\ phase[i] = "open" => kind[i] = "stream"
        /\ cancel[i] = "signalled" => phase[i] = "dropped"
    BY DEF Ends, CP!IInv, CP!KindsMatch, CP!TasksFollowDrops
  <1>4. CASE C!SendRequest(i)
    <2>1. /\ phase[i] = "sending"
          /\ \/ phase' = [phase EXCEPT ![i] = "waiting"]
             \/ phase' = [phase EXCEPT ![i] = "open"] /\ kind[i] = "stream"
          /\ UNCHANGED <<kind, result, resp, events, pending, rx>>
      BY <1>4 DEF C!SendRequest, C!callVars
    <2>2. Departs(i)
      BY <1>1, <1>2, <2>1 DEF Departs
    <2> QED BY <1>0, <2>1, <2>2, OneCaller DEF Acts
  <1>5. CASE C!SendFailed(i)
    <2>1. /\ phase[i] = "sending" /\ run = "exited"
          /\ phase' = [phase EXCEPT ![i] = "done"]
          /\ result' = [result EXCEPT ![i] = C!Down]
          /\ pending' = pending \ {i}
          /\ UNCHANGED <<kind, resp, events, rx>>
      BY <1>5 DEF C!SendFailed, C!Forget, C!callVars
    <2>2. got[i] = <<>> /\ ~Ended(i) /\ result[i] = C!None
      BY <1>0, <2>1 DEF CallerOK, ResultOK, Ended
    <2>3. C!Down # C!None
      BY DEF C!Down, C!None, C!Plain
    <2>4. got'[i] = Append(got[i], C!Down)
      BY <1>0, <1>1, <2>1, <2>2, <2>3, ToldOne, OutcomesTyped
    <2>5. FailsToSend(i)
      BY <1>1, <2>1, <2>4 DEF FailsToSend
    <2> QED BY <1>0, <2>1, <2>5, OneCaller DEF Acts
  <1>6. CASE C!UnaryResult(i)
    <2>1. /\ phase[i] = "waiting" /\ resp[i] # C!None
          /\ phase' = [phase EXCEPT ![i] = "done"]
          /\ result' = [result EXCEPT ![i] = resp[i]]
          /\ UNCHANGED <<kind, resp, events, pending, rx>>
      BY <1>6 DEF C!UnaryResult, C!callVars
    <2>2. got[i] = <<>> /\ ~Ended(i) /\ result[i] = C!None
      BY <1>0, <2>1 DEF CallerOK, ResultOK, Ended
    <2>3. got'[i] = Append(got[i], resp[i])
      BY <1>0, <1>1, <2>1, <2>2, ToldOne, CallerTyped
    <2>4. Answered(i)
      BY <1>1, <1>3, <2>1, <2>3 DEF Answered
    <2> QED BY <1>0, <2>1, <2>4, OneCaller DEF Acts
  <1>7. CASE C!StreamRecv(i) /\ events[i] # <<>>
    <2>1. /\ phase[i] = "open"
          /\ result' = [result EXCEPT ![i] = C!RecvValue(Head(events[i]))]
          /\ events' = [events EXCEPT ![i] = Tail(events[i])]
          /\ UNCHANGED <<kind, phase, resp, pending, rx>>
      BY <1>7 DEF C!StreamRecv, C!callVars
    <2>2. StreamOK(i) /\ ResultOK(i) /\ Reading(i) /\ kind[i] = "stream"
      BY <1>0, <1>3, <2>1 DEF CallerOK, Reading
    <2>3. EventsOK(i) /\ ~Ended(i)
      BY <1>7, <2>2 DEF StreamOK, ViewOK, EventsOK
    <2>4. PICK v \in C!Value : v = Head(events[i]) /\ Due(i, v, Len(got[i]) + 1)
      <3>1. /\ events[i] \in Seq(C!Value) /\ 1 \in DOMAIN events[i]
            /\ Head(events[i]) = events[i][1] /\ Head(events[i]) \in C!Value
        <4>1. PICK q \in Seq(C!Value) : q = events[i]
          BY <1>0, CallerTyped
        <4> QED BY <1>7, <4>1, NextEvent
      <3> QED BY <2>3, <3>1 DEF EventsOK
    <2>5. C!RecvValue(v) \in C!Value
      BY OutcomesTyped DEF C!RecvValue
    <2>6. C!RecvValue(v) # result[i]
      <3>1. result[i] = C!None \/ result[i] = Item(Len(got[i]))
        BY <2>2, <2>3 DEF ResultOK
      <3>2. Len(got[i]) \in Nat
        BY <1>0, CallerTyped
      <3>3. CASE v = Item(Len(got[i]) + 1)
        <4>1. C!RecvValue(v) = v /\ v.type = "item" /\ v.body = Len(got[i]) + 1
          BY <3>3 DEF C!RecvValue, Item
        <4>2. v # C!None
          BY <4>1 DEF C!None, C!Plain
        <4>3. v # Item(Len(got[i]))
          BY <3>2, <4>1 DEF Item
        <4> QED BY <3>1, <4>1, <4>2, <4>3
      <3>4. CASE v.type # "item"
        <4>1. v.type \in {"down", "end", "error"}
          BY <2>4, <3>4 DEF Due, Item, C!Down, C!Plain
        <4>2. C!RecvValue(v).type \in {"down", "closed", "error"}
          BY <4>1 DEF C!RecvValue, C!Closed, C!Plain
        <4>3. /\ C!None.type = "none" /\ Item(Len(got[i])).type = "item"
          BY DEF C!None, C!Plain, Item
        <4> QED BY <3>1, <4>2, <4>3
      <3>5. v.type = "item" => v = Item(Len(got[i]) + 1)
        BY <2>4 DEF Due, C!Down, C!Plain
      <3> QED BY <3>3, <3>4, <3>5
    <2>7. got'[i] = Append(got[i], C!RecvValue(v))
      BY <1>0, <1>1, <2>1, <2>3, <2>4, <2>5, <2>6, ToldOne
    <2>8. Takes(i)
      BY <1>1, <1>7, <2>1, <2>2, <2>3, <2>4, <2>7 DEF Takes
    <2> QED BY <1>0, <2>1, <2>8, OneCaller DEF Acts
  <1>8. CASE C!StreamRecv(i) /\ events[i] = <<>>
    <2>1. /\ phase[i] = "open" /\ C!SenderGone(i)
          /\ result' = [result EXCEPT ![i] = C!Closed]
          /\ UNCHANGED <<kind, phase, resp, events, pending, rx>>
      BY <1>8 DEF C!StreamRecv, C!callVars
    <2>2. ASSUME ~Ended(i) PROVE got'[i] = Append(got[i], C!Closed)
      <3>1. result[i] = C!None \/ result[i] = Item(Len(got[i]))
        BY <1>0, <2>2 DEF CallerOK, ResultOK
      <3>2. result[i] # C!Closed
        BY <3>1 DEF C!None, C!Closed, C!Plain, Item
      <3> QED BY <1>0, <1>1, <2>1, <2>2, <3>2, ToldOne, OutcomesTyped
    <2>3. ASSUME Ended(i) PROVE got'[i] = got[i]
      BY <1>0, <1>1, <2>1, <2>3, ToldNothing
    <2>4. TakesNone(i)
      BY <1>1, <1>3, <1>8, <2>1, <2>2, <2>3 DEF TakesNone, C!SenderGone
    <2> QED BY <1>0, <2>1, <2>4, OneCaller DEF Acts
  <1>9. CASE C!CancelTask(i)
    <2>1. /\ phase[i] = "dropped"
          /\ UNCHANGED <<kind, phase, result, resp, events, rx>>
          /\ pending' = pending \/ pending' = pending \ {i}
      BY <1>3, <1>9 DEF C!CancelTask, C!Forget, C!callVars
    <2>2. Gone(i)
      BY <1>2, <2>1 DEF Gone
    <2> QED BY <1>0, <2>1, <2>2, OneCaller DEF Acts
  <1> QED BY <1>4, <1>5, <1>6, <1>7, <1>8, <1>9 DEF C!Caller

\* What the application does to a call.
LEMMA DropMoves ==
    ASSUME Ends, ClientHalf, NEW i \in Calls, C!Abandon(i),
           got' = [j \in Calls |-> got[j] \o Told(j)]
    PROVE  Acts(i) /\ \A j \in Calls \ {i} : Same(j)
  <1>1. DOMAIN phase = Calls /\ GotTyped
    BY EndsTyped DEF C!TypeOK, ClientHalf
  <1>2. /\ phase[i] # "unused"
        /\ \E h \in {"dropped", "panicked"} : phase' = [phase EXCEPT ![i] = h]
        /\ pending' = pending \/ pending' = pending \ {i}
        /\ events' = events \/ events' = [events EXCEPT ![i] = <<>>]
        /\ UNCHANGED <<kind, result, resp, rx>>
    BY DEF C!Abandon, C!DropSending, C!DropUnary, C!DropStream, C!Forget,
           C!callVars
  <1>3. got'[i] = got[i]
    BY <1>1, <1>2, ToldNothing
  <1>4. Gone(i)
    BY <1>1, <1>2, <1>3 DEF Gone
  <1> QED BY <1>1, <1>2, <1>4, OneCaller DEF Acts

\* What the loops of run() do on their own.
LEMMA LoopMoves ==
    ASSUME Ends, ClientHalf, C!Loops, got' = [j \in Calls |-> got[j] \o Told(j)]
    PROVE  \/ \A j \in Calls : Same(j)
           \/ \E i \in Calls : Acts(i) /\ \A j \in Calls \ {i} : Same(j)
  <1>1. GotTyped
    BY DEF ClientHalf
  <1>2. CASE C!RunStart \/ C!TxLoop
    <2>1. UNCHANGED <<kind, phase, result, resp, events, pending, rx>>
      BY <1>2 DEF C!RunStart, C!TxLoop, C!callVars
    <2> QED BY <1>1, <2>1, ToldNothing DEF Same
  <1>3. CASE C!Deliver
    <2>1. PICK i \in Calls : i = rx.id
      <3>1. rx.id \in 0..MaxCalls /\ rx.id # 0
        BY <1>3, EndsTyped DEF C!Deliver, C!Borrowed, C!TypeOK
      <3> QED BY <3>1, Constants
    <2>2. /\ events' = events \/ \E h : events' = [events EXCEPT ![i] = h]
          /\ IF Reading(i)
               THEN events' = [events EXCEPT ![i] = Append(events[i], rx.event)]
               ELSE events' = events
          /\ UNCHANGED <<kind, phase, result, resp, pending>>
          /\ rx'.id = 0
      BY <1>3, <2>1
         DEF C!Deliver, C!HasReceiver, C!Idle, C!callVars, Reading
    <2>3. got'[i] = got[i]
      BY <1>1, <2>2, ToldNothing
    <2>4. i # 0 /\ DOMAIN events = Calls
      BY Constants, EndsTyped DEF C!TypeOK
    <2>5. Delivers(i)
      BY <2>1, <2>2, <2>3, <2>4 DEF Delivers
    <2>6. \A j \in Calls \ {i} : Same(j)
      BY <1>1, <2>1, <2>2, OneCaller
    <2> QED BY <2>5, <2>6 DEF Acts
  <1> QED BY <1>2, <1>3 DEF C!Loops

-----------------------------------------------------------------------------
(* How the client's half is kept. *)

\* The method of every call and the connection only go on.
Onward ==
    /\ \A j \in Calls :
         /\ items'[j] \in Nat /\ items'[j] >= items[j]
         /\ Complete(j) => /\ Complete(j)' /\ items'[j] = items[j]
                           /\ made'[j] = made[j]
    /\ \A n \in 1..s_read : s2c'[n] = s2c[n]
    /\ run = "exited" => run' = "exited"

\* The client reads nothing, or a message for another call.
Skips(j) == \/ s_read' = s_read
            \/ s_read' = s_read + 1 /\ s2c'[s_read + 1].id # j

\* An event that was due is due.
LEMMA DueKept ==
    ASSUME Ends, MadeTyped, Onward, NEW i \in Calls, NEW v, NEW n \in Nat,
           Due(i, v, n)
    PROVE  Due(i, v, n)'
  <1>1. items[i] \in Nat
    BY CallTyped
  <1>2. /\ items'[i] \in Nat /\ items'[i] >= items[i]
        /\ Complete(i) => /\ Complete(i)' /\ items'[i] = items[i]
                          /\ made'[i] = made[i]
        /\ run = "exited" => run' = "exited"
    BY DEF Onward
  <1>3. CASE v = Item(n) /\ n <= items[i]
    <2>1. n <= items'[i]
      BY <1>1, <1>2, <1>3
    <2> QED BY <1>3, <2>1 DEF Due, Item
  <1>4. CASE v = C!Down /\ run = "exited"
    BY <1>2, <1>4 DEF Due, C!Down, C!Plain
  <1>5. CASE /\ v.type \in {"end", "error"} /\ Complete(i)
             /\ n = items[i] + 1 /\ made[i][n] = v
    BY <1>2, <1>5 DEF Due
  <1> QED BY <1>3, <1>4, <1>5 DEF Due

\* What was read of a call stays what was read of it.
LEMMA ReadKept ==
    ASSUME Ends, ReadsOK, Onward, NEW i \in Calls, NEW k \in Nat, Skips(i),
           ReadOK(i, k)
    PROVE  ReadOK(i, k)'
  <1>1. s_read \in Nat
    BY EndsTyped DEF ReadsOK
  <1>2. s_read' \in Nat /\ \A n \in 1..s_read' : n \in 1..s_read \/ n = s_read + 1
    BY <1>1 DEF Skips
  <1>3. \A n \in 1..s_read : n \in 1..s_read' /\ s2c'[n] = s2c[n]
    BY <1>1 DEF Onward, Skips
  <1>4. ASSUME NEW n \in 1..s_read', s2c'[n].id = i
        PROVE  s2c'[n].type = "item" /\ s2c'[n].body <= k
    <2>1. n \in 1..s_read
      BY <1>1, <1>2, <1>4 DEF Skips
    <2> QED BY <1>3, <1>4, <2>1 DEF ReadOK
  <1>5. k = 0 \/ \E n \in 1..s_read' : s2c'[n] = S!M("item", i, k)
    BY <1>3 DEF ReadOK
  <1> QED BY <1>4, <1>5 DEF ReadOK, S!M

\* A view that nothing changes is kept.
LEMMA ViewKept ==
    ASSUME Ends, ReadsOK, MadeTyped, GotTyped, Onward, NEW i \in Calls,
           i \in pending => Skips(i),
           run' = "exited" => run = "exited",
           got'[i] = got[i], events'[i] = events[i],
           i \in pending' <=> i \in pending,
           rx'.id = i <=> rx.id = i, rx.id = i => rx'.event = rx.event,
           ViewOK(i)
    PROVE  ViewOK(i)'
  <1>1. /\ Len(got[i]) \in Nat /\ Len(events[i]) \in Nat /\ Count(i) \in Nat
        /\ DOMAIN events[i] = 1..Len(events[i])
    BY CallerTyped
  <1>2. (Ended(i)' <=> Ended(i)) /\ Count(i)' = Count(i)
    BY DEF Ended, Count
  <1>3. EventsOK(i)'
    <2>1. ASSUME NEW n \in DOMAIN events[i]
          PROVE  Due(i, events[i][n], Len(got[i]) + n)'
      <3>0. Len(got[i]) + n \in Nat
        BY <1>1
      <3>1. PICK l \in Nat : l = Len(got[i]) + n
        BY <3>0
      <3>v. PICK v : v = events[i][n]
        OBVIOUS
      <3>2. Due(i, v, l)
        BY <3>1, <3>v DEF ViewOK, EventsOK
      <3>3. Due(i, v, l)'
        BY <3>2, DueKept
      <3> QED BY <3>1, <3>v, <3>3
    <2> QED BY <1>2, <2>1 DEF ViewOK, EventsOK
  <1>4. InHandOK(i)'
    <2>1. ASSUME rx.id = i PROVE Due(i, rx.event, Count(i))'
      <3>1. PICK l \in Nat : l = Count(i)
        BY <1>1
      <3>v. PICK v : v = rx.event
        OBVIOUS
      <3>2. Due(i, v, l)
        BY <2>1, <3>1, <3>v DEF ViewOK, InHandOK
      <3>3. Due(i, v, l)'
        BY <3>2, DueKept
      <3> QED BY <1>2, <2>1, <3>1, <3>v, <3>3
    <2> QED BY <1>2, <2>1 DEF ViewOK, InHandOK, ItemsOnly
  <1>5. PendingOK(i)'
    <2>1. ASSUME i \in pending PROVE ReadOK(i, Count(i))'
      <3>1. PICK k \in Nat : k = Count(i)
        BY <1>1
      <3>2. ReadOK(i, k)
        BY <2>1, <3>1 DEF ViewOK, PendingOK
      <3>3. ReadOK(i, k)'
        BY <2>1, <3>2, ReadKept
      <3> QED BY <1>2, <3>1, <3>3
    <2> QED BY <1>2, <2>1 DEF ViewOK, PendingOK, ItemsOnly
  <1>6. OverOK(i)'
    <2>1. run = "exited" => run' = "exited"
      BY DEF Onward
    <2> QED BY <1>2, <2>1 DEF ViewOK, OverOK, ItemsOnly
  <1> QED BY <1>3, <1>4, <1>5, <1>6 DEF ViewOK

\* What was answered to a unary call stays true.
LEMMA AnswerKept ==
    ASSUME Onward, NEW i \in Calls, resp'[i] = resp[i], kind'[i] = kind[i],
           got'[i] = got[i], result'[i] = result[i], ResultOK(i),
           phase'[i] \in {"unused", "sending", "waiting"} => got[i] = <<>>
    PROVE  ResultOK(i)'
  <1>1. Ended(i)' <=> Ended(i)
    BY DEF Ended
  <1>2. C!None' = C!None /\ C!Down' = C!Down
    BY DEF C!None, C!Down, C!Plain
  <1>3. kind[i] = "unary" /\ resp[i] # C!None =>
         \/ resp[i] = C!Down /\ run' = "exited"
         \/ /\ Complete(i)' /\ items'[i] = 0 /\ made'[i][1] = resp[i]
            /\ resp[i].type \in {"ok", "error"}
    BY DEF ResultOK, Onward
  <1> QED BY <1>1, <1>2, <1>3 DEF ResultOK, Item

\* A call that a step is not about.
LEMMA CallerSame ==
    ASSUME Ends, ReadsOK, MadeTyped, GotTyped, Onward, NEW i \in Calls,
           kind[i] = "stream" /\ i \in pending => Skips(i),
           run' = "exited" => run = "exited", Same(i), CallerOK(i)
    PROVE  CallerOK(i)'
  <1>1. ResultOK(i)'
    BY AnswerKept DEF CallerOK, Same, ResultOK
  <1>2. StartOK(i)'
    BY DEF CallerOK, StartOK, Same, C!None, C!Plain
  <1>3. StreamOK(i)'
    BY ViewKept DEF CallerOK, StreamOK, Same, Reading
  <1> QED BY <1>1, <1>2, <1>3 DEF CallerOK

\* Nothing was read of a call that has not left for the server.
LEMMA NothingRead ==
    ASSUME Ends, ReadsOK, ServerHalf, NEW i \in Calls,
           phase[i] \in {"unused", "sending"}
    PROVE  \A n \in 1..s_read : s2c[n].id # i
  <1>1. ASSUME NEW n \in 1..s_read, s2c[n].id = i PROVE FALSE
    <2>1. n \in DOMAIN s2c
      BY EndsTyped, LenProperties DEF ReadsOK
    <2>2. handler[i] # "none"
      BY <1>1, <2>1 DEF ServerHalf, WrittenOK, WellWritten
    <2> QED BY <2>2 DEF ServerHalf, HandlersOK, HandlerOK
  <1> QED BY <1>1

\* A new call has nothing to be told yet.
LEMMA KeptBegins ==
    ASSUME Ends, ReadsOK, ServerHalf, ClientHalf, Onward, s_read' = s_read,
           NEW i \in Calls, Begins(i)
    PROVE  CallerOK(i)'
  <1>1. GotTyped /\ ResultOK(i) /\ StartOK(i) /\ phase[i] = "unused"
    BY DEF ClientHalf, CallerOK, Begins
  <1>2. /\ got[i] = <<>> /\ events[i] = <<>> /\ resp[i] = C!None /\ rx.id # i
        /\ got'[i] = <<>> /\ events'[i] = <<>> /\ resp'[i] = C!None /\ rx'.id # i
        /\ result'[i] = result[i] /\ phase'[i] \in {"sending", "panicked"}
        /\ phase'[i] = "sending" => i \in pending'
    BY <1>1 DEF ResultOK, StartOK, Begins
  <1>3. ~Ended(i) /\ ~Ended(i)'
    BY <1>2 DEF Ended
  <1>4. C!None' = C!None
    BY DEF C!None, C!Plain
  <1>5. ResultOK(i)'
    BY <1>1, <1>2, <1>3, <1>4 DEF ResultOK
  <1>6. StartOK(i)'
    BY <1>2 DEF StartOK
  <1>7. ASSUME phase'[i] = "sending" PROVE ViewOK(i)'
    <2>1. Count(i)' = 0 /\ DOMAIN events'[i] = {} /\ ItemsOnly(events[i])'
      <3>1. Count(i)' = Len(got'[i]) + Len(events'[i]) + 0
        BY <1>2 DEF Count
      <3>2. Len(<<>>) = 0 /\ DOMAIN <<>> = {}
        BY EmptySeq
      <3>3. Count(i)' = 0 + 0 + 0
        BY <1>2, <3>1, <3>2
      <3> QED BY <1>2, <3>2, <3>3 DEF ItemsOnly
    <2>2. ReadOK(i, 0)'
      <3>1. \A n \in 1..s_read : s2c'[n].id # i
        BY <1>1, NothingRead DEF Onward
      <3> QED BY <3>1 DEF ReadOK
    <2>3. EventsOK(i)' /\ InHandOK(i)'
      BY <1>2, <2>1 DEF EventsOK, InHandOK
    <2>4. PendingOK(i)'
      BY <1>2, <1>3, <2>1, <2>2 DEF PendingOK
    <2>5. OverOK(i)'
      BY <1>2, <1>7 DEF OverOK
    <2> QED BY <2>3, <2>4, <2>5 DEF ViewOK
  <1>8. StreamOK(i)'
    BY <1>2, <1>7 DEF StreamOK, Reading
  <1> QED BY <1>5, <1>6, <1>8 DEF CallerOK

\* A REQUEST that leaves changes nothing of what its caller was told.
LEMMA KeptDeparts ==
    ASSUME Ends, ReadsOK, ServerHalf, ClientHalf, Onward, s_read' = s_read,
           run' = "exited" => run = "exited", NEW i \in Calls, Departs(i)
    PROVE  CallerOK(i)'
  <1>1. GotTyped /\ MadeTyped /\ ResultOK(i) /\ StreamOK(i)
    BY DEF ClientHalf, CallerOK, ServerHalf
  <1>2. ResultOK(i)'
    BY <1>1, AnswerKept DEF ResultOK, Departs
  <1>3. StartOK(i)'
    BY DEF Departs, StartOK
  <1>4. StreamOK(i)'
    BY <1>1, ViewKept DEF StreamOK, Departs, Reading, Skips
  <1> QED BY <1>2, <1>3, <1>4 DEF CallerOK

\* A call that was dropped, or panicked, has nothing to be told.
LEMMA KeptGone ==
    ASSUME ClientHalf, Onward, NEW i \in Calls, Gone(i)
    PROVE  CallerOK(i)'
  <1>1. ResultOK(i)'
    BY AnswerKept DEF ClientHalf, CallerOK, ResultOK, Gone
  <1>2. StartOK(i)' /\ StreamOK(i)'
    BY DEF Gone, StartOK, StreamOK, Reading
  <1> QED BY <1>1, <1>2 DEF CallerOK

\* A call that fails, or is answered, is over.
LEMMA KeptEnds ==
    ASSUME Ends, ClientHalf, Onward, NEW i \in Calls,
           FailsToSend(i) \/ Answered(i)
    PROVE  CallerOK(i)'
  <1>1. GotTyped /\ ResultOK(i)
    BY DEF ClientHalf, CallerOK
  <1>2. StartOK(i)' /\ StreamOK(i)' /\ phase'[i] = "done"
    BY DEF FailsToSend, Answered, StartOK, StreamOK, Reading
  <1>3. Ended(i)'
    <2>1. CASE FailsToSend(i)
      <3>1. C!Down \in C!Value /\ C!Down.type # "item"
        BY OutcomesTyped DEF C!Down, C!Plain
      <3> QED BY <1>1, <2>1, <3>1, GotOne DEF FailsToSend
    <2>2. CASE Answered(i)
      <3>1. resp[i] \in C!Value /\ resp[i].type # "item"
        <4>1. resp[i] \in C!Value
          BY <1>1, CallerTyped
        <4>2. resp[i] = C!Down \/ resp[i].type \in {"ok", "error"}
          BY <1>1, <2>2 DEF ResultOK, Answered
        <4> QED BY <4>1, <4>2 DEF C!Down, C!Plain
      <3> QED BY <1>1, <2>2, <3>1, GotOne DEF Answered
    <2> QED BY <2>1, <2>2
  <1>4. kind'[i] = "unary" /\ resp'[i] # C!None =>
         \/ resp'[i] = C!Down /\ run' = "exited"
         \/ /\ Complete(i)' /\ items'[i] = 0 /\ made'[i][1] = resp'[i]
            /\ resp'[i].type \in {"ok", "error"}
    BY <1>1 DEF FailsToSend, Answered, ResultOK, Onward
  <1>5. C!None' = C!None /\ C!Down' = C!Down
    BY DEF C!None, C!Down, C!Plain
  <1>6. ResultOK(i)'
    BY <1>2, <1>3, <1>4, <1>5 DEF ResultOK
  <1> QED BY <1>2, <1>6 DEF CallerOK

\* The next event of a stream is what its method produced next, or tells that
\* the connection is gone.
LEMMA NextDue ==
    ASSUME Ends, ClientHalf, NEW i \in Calls, phase[i] = "open",
           kind[i] = "stream", events[i] # <<>>
    PROVE  LET v == Head(events[i]) IN
           /\ v \in C!Value /\ Due(i, v, Len(got[i]) + 1) /\ ~Ended(i)
           /\ v.type = "item" => v = Item(Len(got[i]) + 1)
           /\ v.type # "item" => /\ v.type \in {"down", "end", "error"}
                                 /\ Len(events[i]) = 1 /\ ~ItemsOnly(events[i])
  <1>1. PICK q \in Seq(C!Value) : q = events[i]
    BY CallerTyped DEF ClientHalf
  <1>2. /\ 1 \in DOMAIN q /\ Head(q) = q[1] /\ Head(q) \in C!Value
        /\ Len(q) \in Nat /\ DOMAIN q = 1..Len(q)
    BY <1>1, NextEvent
  <1>3. EventsOK(i)
    BY DEF ClientHalf, CallerOK, StreamOK, ViewOK, Reading
  <1>4. /\ Due(i, q[1], Len(got[i]) + 1) /\ ~Ended(i)
        /\ 1 < Len(q) => q[1].type = "item"
    BY <1>1, <1>2, <1>3 DEF EventsOK
  <1>5. q[1].type = "item" => q[1] = Item(Len(got[i]) + 1)
    BY <1>4 DEF Due, C!Down, C!Plain
  <1>6. q[1].type # "item" => q[1].type \in {"down", "end", "error"}
    BY <1>4 DEF Due, Item, C!Down, C!Plain
  <1>7. q[1].type # "item" => Len(q) = 1 /\ ~ItemsOnly(q)
    BY <1>2, <1>4 DEF ItemsOnly
  <1> QED BY <1>1, <1>2, <1>4, <1>5, <1>6, <1>7

\* recv() returns an item: the view moves on by one.
LEMMA KeptTakesItem ==
    ASSUME Ends, ReadsOK, ServerHalf, ClientHalf, Onward, s_read' = s_read,
           run' = "exited" <=> run = "exited", NEW i \in Calls, Takes(i),
           Head(events[i]).type = "item"
    PROVE  CallerOK(i)'
  <1>1. /\ GotTyped /\ MadeTyped /\ ViewOK(i) /\ ResultOK(i) /\ phase[i] = "open"
        /\ kind[i] = "stream" /\ events[i] # <<>>
    BY DEF ClientHalf, CallerOK, ServerHalf, StreamOK, Reading, Takes
  <1>2. PICK q \in Seq(C!Value), g \in Nat : q = events[i] /\ g = Len(got[i])
    BY <1>1, CallerTyped
  <1>3. PICK v \in C!Value : /\ v = Head(q) /\ v = Item(g + 1) /\ v.type = "item"
                             /\ ~Ended(i)
    BY <1>1, <1>2, NextDue
  <1>4. /\ got'[i] = Append(got[i], v) /\ result'[i] = v /\ events'[i] = Tail(q)
        /\ i \in pending' <=> i \in pending
        /\ rx' = rx
    BY <1>2, <1>3 DEF Takes, C!RecvValue
  <1>5. Len(got'[i]) = g + 1 /\ got'[i] # <<>> /\ ~Ended(i)'
    BY <1>1, <1>2, <1>3, <1>4, GotOne
  <1>6. /\ Len(Tail(q)) + 1 = Len(q) /\ Len(Tail(q)) \in Nat /\ Len(q) \in Nat
        /\ DOMAIN q = 1..Len(q) /\ DOMAIN Tail(q) = 1..Len(Tail(q))
        /\ \A n \in DOMAIN Tail(q) : n + 1 \in DOMAIN q /\ Tail(q)[n] = q[n + 1]
        /\ 1 \in DOMAIN q /\ q[1] = v
    BY <1>1, <1>2, <1>3, NextEvent
  <1>7. ResultOK(i)'
    <2>1. result'[i] = Item(Len(got'[i]))
      BY <1>3, <1>4, <1>5
    <2>2. phase'[i] = "open" /\ kind'[i] = "stream"
      BY DEF Takes
    <2> QED BY <1>5, <2>1, <2>2 DEF ResultOK, Item
  <1>8. StartOK(i)'
    BY DEF StartOK, Takes
  <1>9. EventsOK(i)'
    <2>1. ASSUME NEW n \in DOMAIN Tail(q)
          PROVE  /\ Due(i, Tail(q)[n], Len(got[i]) + n)'
                 /\ n < Len(Tail(q)) => Tail(q)[n].type = "item"
      <3>1. PICK l \in Nat : l = g + (n + 1)
        BY <1>6
      <3>2. PICK e : e = q[n + 1]
        OBVIOUS
      <3>3. Due(i, e, l)
        BY <1>1, <1>2, <1>6, <2>1, <3>1, <3>2 DEF ViewOK, EventsOK
      <3>4. Due(i, e, l)'
        BY <1>1, <3>3, DueKept
      <3>5. Len(got'[i]) + n = l /\ Tail(q)[n] = e
        BY <1>5, <1>6, <2>1, <3>1, <3>2
      <3>6. n < Len(Tail(q)) => n + 1 < Len(q)
        BY <1>6, <2>1
      <3>7. n < Len(Tail(q)) => e.type = "item"
        BY <1>1, <1>2, <1>6, <2>1, <3>2, <3>6 DEF ViewOK, EventsOK
      <3> QED BY <3>4, <3>5, <3>7
    <2> QED BY <1>4, <1>5, <2>1 DEF EventsOK
  <1>10. ItemsOnly(events[i])' <=> ItemsOnly(events[i])
    <2>1. ItemsOnly(events[i]) <=> \A n \in 1..Len(q) : q[n].type = "item"
      BY <1>2, <1>6 DEF ItemsOnly
    <2>2. ItemsOnly(events[i])' <=> \A n \in 1..Len(Tail(q)) : Tail(q)[n].type = "item"
      BY <1>4, <1>6 DEF ItemsOnly
    <2>3. ASSUME \A n \in 1..Len(Tail(q)) : Tail(q)[n].type = "item",
                 NEW n \in 1..Len(q)
          PROVE  q[n].type = "item"
      <3>1. CASE n = 1
        BY <1>3, <1>6, <3>1
      <3>2. CASE n # 1
        <4>1. PICK k \in 1..Len(Tail(q)) : n = k + 1
          <5>1. n - 1 \in 1..Len(Tail(q)) /\ n = (n - 1) + 1
            BY <1>6, <2>3, <3>2
          <5> QED BY <5>1
        <4> QED BY <1>6, <2>3, <4>1
      <3> QED BY <3>1, <3>2
    <2> QED BY <1>6, <2>1, <2>2, <2>3
  <1>11. Count(i)' = Count(i)
    <2>1. PICK t \in Nat : t = Len(Tail(q)) /\ Len(q) = t + 1
      BY <1>6
    <2>2. CASE rx.id = i
      <3>1. Count(i) = g + (t + 1) + 1
        BY <1>2, <2>1, <2>2 DEF Count
      <3>2. Count(i)' = (g + 1) + t + 1
        BY <1>4, <1>5, <2>1, <2>2 DEF Count
      <3>3. g + (t + 1) + 1 = (g + 1) + t + 1
        OBVIOUS
      <3> QED BY <3>1, <3>2, <3>3
    <2>3. CASE rx.id # i
      <3>1. Count(i) = g + (t + 1) + 0
        BY <1>2, <2>1, <2>3 DEF Count
      <3>2. Count(i)' = (g + 1) + t + 0
        BY <1>4, <1>5, <2>1, <2>3 DEF Count
      <3>3. g + (t + 1) + 0 = (g + 1) + t + 0
        OBVIOUS
      <3> QED BY <3>1, <3>2, <3>3
    <2> QED BY <2>2, <2>3
  <1>12. PICK k \in Nat : k = Count(i)
    BY <1>1, CallerTyped
  <1>13. InHandOK(i)'
    <2>1. ASSUME rx.id = i PROVE Due(i, rx.event, k)'
      <3>1. PICK e : e = rx.event
        OBVIOUS
      <3>2. Due(i, e, k)
        BY <1>1, <1>12, <2>1, <3>1 DEF ViewOK, InHandOK
      <3>3. Due(i, e, k)'
        BY <1>1, <3>2, DueKept
      <3> QED BY <1>4, <3>1, <3>3
    <2> QED BY <1>1, <1>4, <1>5, <1>10, <1>11, <1>12, <2>1 DEF ViewOK, InHandOK
  <1>14. PendingOK(i)'
    <2>1. ASSUME i \in pending PROVE ReadOK(i, k)'
      <3>1. ReadOK(i, k)
        BY <1>1, <1>12, <2>1 DEF ViewOK, PendingOK
      <3> QED BY <3>1, ReadKept DEF Skips
    <2> QED BY <1>1, <1>4, <1>5, <1>10, <1>11, <1>12, <2>1 DEF ViewOK, PendingOK
  <1>15. OverOK(i)'
    BY <1>1, <1>3, <1>4, <1>10 DEF ViewOK, OverOK
  <1>16. StreamOK(i)'
    BY <1>9, <1>13, <1>14, <1>15 DEF StreamOK, ViewOK
  <1> QED BY <1>7, <1>8, <1>16 DEF CallerOK

\* recv() returns the ending, or that there is nothing left: the call is over.
LEMMA KeptTakesEnd ==
    ASSUME Ends, ReadsOK, ClientHalf, run' = "exited" <=> run = "exited",
           NEW i \in Calls,
           TakesNone(i) \/ (Takes(i) /\ Head(events[i]).type # "item")
    PROVE  CallerOK(i)'
  <1>1. /\ GotTyped /\ ViewOK(i) /\ phase[i] = "open" /\ kind[i] = "stream"
        /\ phase'[i] = "open" /\ kind'[i] = "stream" /\ rx' = rx
        /\ i \in pending' <=> i \in pending
    BY DEF ClientHalf, CallerOK, StreamOK, Reading, Takes, TakesNone
  <1>2. Ended(i)' /\ events'[i] = <<>> /\ i \notin pending /\ rx.id # i
    <2>1. CASE TakesNone(i)
      <3>1. C!Closed \in C!Value /\ C!Closed.type # "item"
        BY OutcomesTyped DEF C!Closed, C!Plain
      <3>2. Ended(i)'
        <4>1. CASE Ended(i)
          BY <2>1, <4>1 DEF TakesNone, Ended
        <4>2. CASE ~Ended(i)
          BY <1>1, <2>1, <3>1, <4>2, GotOne DEF TakesNone
        <4> QED BY <4>1, <4>2
      <3> QED BY <2>1, <3>2 DEF TakesNone
    <2>2. CASE Takes(i) /\ Head(events[i]).type # "item"
      <3>1. PICK q \in Seq(C!Value) : q = events[i] /\ q # <<>>
        BY <1>1, <2>2, CallerTyped DEF Takes
      <3>2. PICK v \in C!Value : /\ v = Head(q) /\ v.type \in {"down", "end", "error"}
                                 /\ Len(q) = 1 /\ ~ItemsOnly(q)
        BY <1>1, <2>2, <3>1, NextDue
      <3>3. C!RecvValue(v) \in C!Value /\ C!RecvValue(v).type # "item"
        BY <3>2, OutcomesTyped DEF C!RecvValue, C!Closed, C!Plain
      <3>4. got'[i] = Append(got[i], C!RecvValue(v)) /\ events'[i] = Tail(q)
        BY <2>2, <3>1, <3>2 DEF Takes
      <3>5. Ended(i)'
        BY <1>1, <3>3, <3>4, GotOne
      <3>6. Tail(q) = <<>>
        <4>1. Tail(q) \in Seq(C!Value) /\ Len(Tail(q)) + 1 = 1 /\ Len(Tail(q)) \in Nat
          BY <3>1, <3>2, NextEvent
        <4>2. Len(Tail(q)) = 0
          BY <4>1
        <4> QED BY <4>1, <4>2, EmptySeq
      <3>7. i \notin pending /\ rx.id # i
        BY <1>1, <3>1, <3>2 DEF ViewOK, PendingOK, InHandOK
      <3> QED BY <3>4, <3>5, <3>6, <3>7
    <2> QED BY <2>1, <2>2
  <1>3. ResultOK(i)'
    BY <1>1, <1>2 DEF ResultOK
  <1>4. StartOK(i)'
    BY <1>1 DEF StartOK
  <1>5. EventsOK(i)'
    <2>1. DOMAIN <<>> = {}
      OBVIOUS
    <2> QED BY <1>2, <2>1 DEF EventsOK
  <1>6. InHandOK(i)' /\ PendingOK(i)' /\ OverOK(i)'
    BY <1>1, <1>2 DEF InHandOK, PendingOK, OverOK
  <1> QED BY <1>3, <1>4, <1>5, <1>6 DEF CallerOK, StreamOK, ViewOK

\* The receive loop hands an event to its stream.
LEMMA KeptDelivers ==
    ASSUME Ends, ReadsOK, ServerHalf, ClientHalf, Onward, s_read' = s_read,
           run' = "exited" <=> run = "exited", NEW i \in Calls, Delivers(i)
    PROVE  CallerOK(i)'
  <1>1. /\ GotTyped /\ MadeTyped /\ CallerOK(i)
        /\ phase'[i] = phase[i] /\ kind'[i] = kind[i] /\ result'[i] = result[i]
        /\ resp'[i] = resp[i] /\ got'[i] = got[i] /\ rx.id = i /\ rx'.id # i
        /\ i \in pending' <=> i \in pending
    BY DEF ClientHalf, ServerHalf, Delivers
  <1>2. ResultOK(i)'
    BY <1>1, AnswerKept DEF CallerOK, ResultOK
  <1>3. StartOK(i)'
    BY <1>1 DEF CallerOK, StartOK
  <1>4. ASSUME kind[i] = "stream", Reading(i)
        PROVE  ViewOK(i)'
    <2>1. ViewOK(i)
      BY <1>1, <1>4 DEF CallerOK, StreamOK
    <2>2. PICK q \in Seq(C!Value), g \in Nat, e \in C!Value :
              q = events[i] /\ g = Len(got[i]) /\ e = rx.event
      BY <1>1, CallerTyped
    <2>3. /\ Len(q) \in Nat /\ DOMAIN q = 1..Len(q)
          /\ DOMAIN Append(q, e) = 1..(Len(q) + 1) /\ Len(Append(q, e)) = Len(q) + 1
          /\ Append(q, e)[Len(q) + 1] = e
          /\ \A n \in 1..Len(q) : Append(q, e)[n] = q[n]
      BY AppendProperties, LenProperties
    <2>4. PICK l \in Nat : l = Len(q)
      BY <2>3
    <2>5. events'[i] = Append(q, e)
      BY <1>4, <2>2 DEF Delivers
    <2>6. /\ ~Ended(i) /\ ItemsOnly(q) /\ Due(i, e, g + (l + 1))
          /\ (Ended(i)' <=> Ended(i))
      <3>1. ~Ended(i) /\ ItemsOnly(q) /\ Due(i, e, Count(i))
        BY <1>1, <2>1, <2>2 DEF ViewOK, InHandOK
      <3>2. Count(i) = g + (l + 1)
        <4>1. Count(i) = g + l + 1
          BY <1>1, <2>2, <2>4 DEF Count
        <4>2. g + l + 1 = g + (l + 1)
          OBVIOUS
        <4> QED BY <4>1, <4>2
      <3>3. Ended(i)' <=> Ended(i)
        BY <1>1 DEF Ended
      <3> QED BY <3>1, <3>2, <3>3
    <2>7. EventsOK(i)'
      <3>1. ASSUME NEW n \in 1..(l + 1)
            PROVE  /\ Due(i, Append(q, e)[n], Len(got[i]) + n)'
                   /\ n < l + 1 => Append(q, e)[n].type = "item"
        <4>1. PICK k \in Nat : k = g + n
          OBVIOUS
        <4>2. PICK v : v = Append(q, e)[n]
          OBVIOUS
        <4>3. Due(i, v, k)
          <5>1. CASE n = l + 1
            BY <2>3, <2>4, <2>6, <4>1, <4>2, <5>1
          <5>2. CASE n # l + 1
            <6>1. n \in DOMAIN q /\ v = q[n]
              BY <2>3, <2>4, <4>2, <5>2
            <6>2. Due(i, q[n], Len(got[i]) + n)
              BY <2>1, <2>2, <6>1 DEF ViewOK, EventsOK
            <6> QED BY <2>2, <4>1, <6>1, <6>2
          <5> QED BY <5>1, <5>2
        <4>4. Due(i, v, k)'
          BY <1>1, <4>3, DueKept
        <4>5. n < l + 1 => n \in DOMAIN q /\ Append(q, e)[n] = q[n]
          BY <2>3, <2>4
        <4> QED BY <1>1, <2>2, <2>6, <4>1, <4>2, <4>4, <4>5 DEF ItemsOnly
      <3> QED BY <1>1, <2>3, <2>4, <2>5, <2>6, <3>1 DEF EventsOK
    <2>8. InHandOK(i)'
      BY <1>1 DEF InHandOK
    <2>9. ItemsOnly(events[i])' <=> e.type = "item"
      <3>1. ItemsOnly(events[i])' <=>
                \A n \in 1..(l + 1) : Append(q, e)[n].type = "item"
        BY <2>3, <2>4, <2>5 DEF ItemsOnly
      <3>2. \A n \in 1..l : Append(q, e)[n].type = "item"
        BY <2>3, <2>4, <2>6 DEF ItemsOnly
      <3>3. Append(q, e)[l + 1] = e /\ l + 1 \in 1..(l + 1)
        BY <2>3, <2>4
      <3>4. \A n \in 1..(l + 1) : n \in 1..l \/ n = l + 1
        OBVIOUS
      <3> QED BY <3>1, <3>2, <3>3, <3>4
    <2>10. PendingOK(i)'
      <3>1. ASSUME i \in pending PROVE ReadOK(i, Count(i))'
        <4>1. PICK k \in Nat : k = Count(i)
          BY <1>1, CallerTyped
        <4>2. Count(i)' = k
          <5>1. k = g + l + 1
            BY <1>1, <2>2, <2>4, <4>1 DEF Count
          <5>2. Count(i)' = g + (l + 1) + 0
            BY <1>1, <2>2, <2>3, <2>4, <2>5 DEF Count
          <5>3. g + l + 1 = g + (l + 1) + 0
            OBVIOUS
          <5> QED BY <5>1, <5>2, <5>3
        <4>3. ReadOK(i, k)
          BY <2>1, <3>1, <4>1 DEF ViewOK, PendingOK
        <4>4. ReadOK(i, k)'
          BY <4>3, ReadKept DEF Skips
        <4> QED BY <4>2, <4>4
      <3>2. i \in pending => e.type = "item"
        BY <1>1, <2>1, <2>2 DEF ViewOK, PendingOK
      <3> QED BY <1>1, <2>6, <2>9, <3>1, <3>2 DEF PendingOK
    <2>11. OverOK(i)'
      BY <1>1, <2>1, <2>2, <2>6, <2>9 DEF ViewOK, OverOK
    <2> QED BY <2>7, <2>8, <2>10, <2>11 DEF ViewOK
  <1>5. StreamOK(i)'
    BY <1>1, <1>4 DEF StreamOK, Reading
  <1> QED BY <1>2, <1>3, <1>5 DEF CallerOK

\* Whatever a step of the client on its own does to a call.
LEMMA KeptActs ==
    ASSUME Ends, ReadsOK, ServerHalf, ClientHalf, Onward, s_read' = s_read,
           run' = "exited" <=> run = "exited", NEW i \in Calls, Acts(i)
    PROVE  CallerOK(i)'
  <1>1. CASE Begins(i)
    BY <1>1, KeptBegins
  <1>2. CASE Departs(i)
    BY <1>2, KeptDeparts
  <1>3. CASE Gone(i)
    BY <1>3, KeptGone
  <1>4. CASE FailsToSend(i) \/ Answered(i)
    BY <1>4, KeptEnds
  <1>5. CASE Takes(i) /\ Head(events[i]).type = "item"
    BY <1>5, KeptTakesItem
  <1>6. CASE TakesNone(i) \/ (Takes(i) /\ Head(events[i]).type # "item")
    BY <1>6, KeptTakesEnd
  <1>7. CASE Delivers(i)
    BY <1>7, KeptDelivers
  <1>8. CASE Same(i)
    BY <1>8, CallerSame DEF ServerHalf, ClientHalf, Skips
  <1> QED BY <1>1, <1>2, <1>3, <1>4, <1>5, <1>6, <1>7, <1>8 DEF Acts

-----------------------------------------------------------------------------
(* The client reads a message. *)

\* What the next message says of its call.
LEMMA MessageRead ==
    ASSUME Ends, ReadsOK, ServerHalf, s_read < Len(s2c),
           NEW m, m = s2c[s_read + 1]
    PROVE  /\ s_read \in Nat /\ m \in C!ServerMsg /\ m.id \in Calls
           /\ WellWritten(m, s_read + 1)
           /\ \A n \in 1..s_read : WellWritten(s2c[n], n) /\ s2c[n] \in C!ServerMsg
           /\ phase[m.id] \notin {"unused", "sending"}
           /\ kind[m.id] = "unary" => /\ m.type \in {"response", "error"}
                                      /\ items[m.id] = 0
           /\ kind[m.id] = "stream" => m.type \in {"item", "end", "error"}
           /\ \A k \in 1..s_read :
                  s2c[k].id = m.id => (m.type = "item" => s2c[k].body < m.body)
           /\ m.type = "item" /\ m.body # 1 =>
                  \E k \in 1..s_read : s2c[k] = S!M("item", m.id, m.body - 1)
  <1>1. /\ s_read \in Nat /\ s_read + 1 \in DOMAIN s2c /\ m \in C!ServerMsg
        /\ m.id \in Calls /\ s_read + 1 - 1 = s_read
    BY Readable, EndsTyped DEF ReadsOK, C!ServerMsg
  <1>2. \A n \in 1..s_read : n \in DOMAIN s2c /\ s2c[n] \in C!ServerMsg
    BY EndsTyped, LenProperties, ElementOfSeq DEF ReadsOK
  <1>3. WellWritten(m, s_read + 1) /\ \A n \in 1..s_read : WellWritten(s2c[n], n)
    BY <1>1, <1>2 DEF ServerHalf, WrittenOK
  <1>4. /\ handler[m.id] # "none" /\ method[m.id] = kind[m.id]
        /\ phase[m.id] \notin {"unused", "sending"}
    BY <1>1, <1>3 DEF WellWritten, ServerHalf, HandlersOK, HandlerOK
  <1>5. SP!InOrder(s2c)
    BY Constants, SP!WrittenInOrder DEF Ends, SP!CallsEndOnce
  <1>6. /\ m.type \in IF method[m.id] = "unary" THEN {"response", "error"}
                                                ELSE {"item", "end", "error"}
        /\ \A k \in 1..s_read : s2c[k].id = m.id =>
               (m.type = "item" => s2c[k].body < m.body)
        /\ m.type = "item" /\ m.body # 1 =>
               \E k \in 1..s_read : s2c[k] = SP!M("item", m.id, m.body - 1)
    <2>1. PICK n \in DOMAIN s2c : n = s_read + 1 /\ m = s2c[n] /\ n - 1 = s_read
      BY <1>1
    <2>2. /\ m.type \in IF method[m.id] = "unary" THEN {"response", "error"}
                                                  ELSE {"item", "end", "error"}
          /\ \A k \in 1..(n - 1) : s2c[k].id = m.id =>
                 (m.type = "item" => s2c[k].body < m.body)
          /\ m.type = "item" /\ m.body # 1 =>
                 \E k \in 1..(n - 1) : s2c[k] = SP!M("item", m.id, m.body - 1)
      BY <1>5, <2>1 DEF SP!InOrder
    <2> QED BY <2>1, <2>2
  <1>7. kind[m.id] = "unary" => items[m.id] = 0
    BY <1>1, <1>4 DEF Ends, SP!IInv, SP!TasksOK, SP!TaskOK
  <1> QED BY <1>1, <1>2, <1>3, <1>4, <1>6, <1>7 DEF S!M, SP!M

\* The answer to a unary call is what its method returned.
LEMMA AnswerRead ==
    ASSUME Ends, ReadsOK, ServerHalf, s_read < Len(s2c),
           NEW m, m = s2c[s_read + 1], kind[m.id] = "unary"
    PROVE  /\ Complete(m.id) /\ items[m.id] = 0 /\ made[m.id][1] = C!Event(m)
           /\ C!Event(m).type \in {"ok", "error"}
  <1>1. /\ m.type \in {"response", "error"} /\ items[m.id] = 0
        /\ WellWritten(m, s_read + 1)
    BY MessageRead
  <1>2. Proper(m)
    BY <1>1 DEF WellWritten
  <1> QED BY <1>1, <1>2 DEF Proper, C!Event

\* The next message of a stream is its next event.
LEMMA EventRead ==
    ASSUME Ends, ReadsOK, ServerHalf, s_read < Len(s2c),
           NEW m, m = s2c[s_read + 1], kind[m.id] = "stream", Reading(m.id),
           NEW c \in Nat, ReadOK(m.id, c)
    PROVE  /\ Due(m.id, C!Event(m), c + 1)
           /\ m.type = "item" => m.body = c + 1
           /\ C!Event(m).type = m.type
  <1> DEFINE i == m.id
  <1>1. /\ i \in Calls /\ m.type \in {"item", "end", "error"} /\ m.body \in Nat
        /\ WellWritten(m, s_read + 1) /\ items[i] \in Nat /\ s_read \in Nat
    <2>1. /\ i \in Calls /\ m.type \in {"item", "end", "error"}
          /\ m \in C!ServerMsg /\ WellWritten(m, s_read + 1) /\ s_read \in Nat
      BY MessageRead
    <2>2. m.body \in Nat
      BY <2>1, RpcAssumption DEF C!ServerMsg
    <2>3. items[i] \in Nat
      BY <2>1, CallTyped DEF ServerHalf
    <2> QED BY <2>1, <2>2, <2>3
  <1>2. C!Event(m) = [type |-> m.type, body |-> m.body]
    BY <1>1 DEF C!Event
  <1>3. c = 0 \/ \E n \in 1..s_read : s2c[n] = S!M("item", i, c)
    BY DEF ReadOK
  <1>4. CASE m.type = "item"
    <2>1. m.body \in 1..items[i]
      BY <1>1, <1>4 DEF WellWritten
    <2>2. m.body > c
      <3>1. CASE c = 0
        BY <1>1, <2>1, <3>1
      <3>2. ASSUME NEW n \in 1..s_read, s2c[n] = S!M("item", i, c)
            PROVE  m.body > c
        <4>1. s2c[n].id = i /\ s2c[n].body = c
          BY <3>2 DEF S!M
        <4>2. s2c[n].body < m.body
          BY <1>4, <4>1, MessageRead
        <4> QED BY <1>1, <4>1, <4>2
      <3> QED BY <1>3, <3>1, <3>2
    <2>3. m.body = 1 \/ m.body - 1 <= c
      <3>1. ASSUME m.body # 1 PROVE m.body - 1 <= c
        <4>1. PICK k \in 1..s_read : s2c[k] = S!M("item", i, m.body - 1)
          BY <1>4, <3>1, MessageRead
        <4>2. s2c[k].id = i /\ s2c[k].body = m.body - 1
          BY <4>1 DEF S!M
        <4> QED BY <4>2 DEF ReadOK
      <3> QED BY <3>1
    <2>4. m.body = c + 1
      BY <1>1, <2>1, <2>2, <2>3
    <2> QED BY <1>1, <1>2, <1>4, <2>1, <2>4 DEF Due, Item
  <1>5. CASE m.type # "item"
    <2>1. Proper(m) /\ Whole(i, s_read + 1)
      BY <1>1, <1>5 DEF WellWritten, Reading
    <2>2. items[i] <= c
      <3>1. ASSUME items[i] # 0 PROVE items[i] <= c
        <4>1. PICK k \in 1..s_read : s2c[k] = S!M("item", i, items[i])
          BY <1>1, <2>1, <3>1 DEF Whole
        <4>2. s2c[k].id = i /\ s2c[k].body = items[i]
          BY <4>1 DEF S!M
        <4> QED BY <4>2 DEF ReadOK
      <3> QED BY <3>1
    <2>3. c <= items[i]
      <3>1. ASSUME c # 0 PROVE c <= items[i]
        <4>1. PICK n \in 1..s_read : s2c[n] = S!M("item", i, c)
          BY <1>3, <3>1
        <4>2. WellWritten(s2c[n], n)
          BY MessageRead
        <4> QED BY <4>1, <4>2 DEF WellWritten, S!M
      <3> QED BY <1>1, <3>1
    <2>4. c = items[i]
      BY <1>1, <2>2, <2>3
    <2> QED BY <1>1, <1>2, <1>5, <2>1, <2>4 DEF Due, Proper
  <1> QED BY <1>4, <1>5

\* A unary call is answered.
LEMMA KeptAnswered ==
    ASSUME Ends, ReadsOK, ServerHalf, ClientHalf, Onward, s_read < Len(s2c),
           NEW m, m = s2c[s_read + 1], C!ForUnary(m),
           resp' = [resp EXCEPT ![m.id] = C!Event(m)],
           UNCHANGED <<phase, kind, result, items, made>>, got'[m.id] = got[m.id]
    PROVE  CallerOK(m.id)'
  <1> DEFINE i == m.id
  <1>1. /\ i \in Calls /\ phase[i] # "unused" /\ kind[i] = "unary"
    BY MessageRead DEF C!ForUnary
  <1>2. resp'[i] = C!Event(m)
    BY <1>1, EndsTyped DEF C!TypeOK
  <1>3. /\ Complete(i) /\ items[i] = 0 /\ made[i][1] = C!Event(m)
        /\ C!Event(m).type \in {"ok", "error"}
    BY <1>1, AnswerRead
  <1>4. ResultOK(i)
    BY <1>1 DEF ClientHalf, CallerOK
  <1>5. ResultOK(i)'
    <2>1. Ended(i)' <=> Ended(i)
      BY DEF Ended
    <2>2. Complete(i)'
      BY <1>3 DEF Complete
    <2>3. C!None' = C!None
      BY DEF C!None, C!Plain
    <2> QED BY <1>1, <1>2, <1>3, <1>4, <2>1, <2>2, <2>3 DEF ResultOK, Item
  <1>6. StreamOK(i)' /\ StartOK(i)'
    BY <1>1 DEF StreamOK, StartOK
  <1> QED BY <1>5, <1>6 DEF CallerOK

\* An event of a stream is read.
LEMMA KeptHanded ==
    ASSUME Ends, ReadsOK, ServerHalf, ClientHalf, Onward, s_read < Len(s2c),
           s_read' = s_read + 1, NEW m, m = s2c[s_read + 1], C!ForStream(m),
           rx.id = 0, rx' = [id |-> m.id, event |-> C!Event(m)],
           pending' = IF m.type = "item" THEN pending ELSE pending \ {m.id},
           UNCHANGED <<phase, kind, result, resp, events, run, items, made, s2c>>,
           got'[m.id] = got[m.id]
    PROVE  CallerOK(m.id)'
  <1> DEFINE i == m.id
  <1>1. /\ i \in Calls /\ kind[i] = "stream" /\ i \in pending
        /\ phase[i] \notin {"unused", "sending"} /\ s_read \in Nat
        /\ GotTyped /\ MadeTyped /\ CallerOK(i) /\ rx.id # i /\ rx'.id = i
    BY MessageRead, Constants DEF C!ForStream, ClientHalf, ServerHalf
  <1>2. ResultOK(i)'
    BY <1>1, AnswerKept DEF CallerOK, ResultOK
  <1>3. StartOK(i)'
    BY <1>1 DEF StartOK
  <1>4. ASSUME Reading(i) PROVE ViewOK(i)'
    <2>1. ViewOK(i)
      BY <1>1, <1>4 DEF CallerOK, StreamOK
    <2>2. PICK c \in Nat, g \in Nat, l \in Nat :
              /\ c = Count(i) /\ g = Len(got[i]) /\ l = Len(events[i]) /\ c = g + l
      <3>1. /\ Len(got[i]) \in Nat /\ Len(events[i]) \in Nat /\ Count(i) \in Nat
            /\ Count(i) = Len(got[i]) + Len(events[i])
        BY <1>1, CallerTyped
      <3> QED BY <3>1
    <2>3. PICK e : e = C!Event(m)
      OBVIOUS
    <2>4. /\ ~Ended(i) /\ ItemsOnly(events[i]) /\ ReadOK(i, c)
      BY <1>1, <2>1, <2>2 DEF ViewOK, PendingOK
    <2>5. /\ Due(i, e, c + 1) /\ e.type = m.type
          /\ m.type = "item" => m.body = c + 1
      BY <1>1, <1>4, <2>3, <2>4, EventRead
    <2>6. (Ended(i)' <=> Ended(i)) /\ Count(i)' = c + 1
      <3>1. Count(i)' = g + l + 1
        BY <1>1, <2>2 DEF Count
      <3> QED BY <2>2, <3>1 DEF Ended
    <2>7. EventsOK(i)'
      <3>1. ASSUME NEW n \in DOMAIN events[i]
            PROVE  Due(i, events[i][n], Len(got[i]) + n)'
        <4>1. Len(got[i]) + n \in Nat
          <5>1. Len(events[i]) \in Nat /\ DOMAIN events[i] = 1..Len(events[i])
            BY <1>1, CallerTyped
          <5>2. n \in Nat
            BY <3>1, <5>1
          <5> QED BY <2>2, <5>2
        <4>2. PICK k \in Nat : k = Len(got[i]) + n
          BY <4>1
        <4>3. PICK v : v = events[i][n]
          OBVIOUS
        <4>4. Due(i, v, k)
          BY <2>1, <4>2, <4>3 DEF ViewOK, EventsOK
        <4>5. Due(i, v, k)'
          BY <1>1, <4>4, DueKept
        <4> QED BY <4>2, <4>3, <4>5
      <3> QED BY <1>1, <2>1, <2>6, <3>1 DEF ViewOK, EventsOK
    <2>8. InHandOK(i)'
      <3>1. PICK k \in Nat : k = c + 1
        OBVIOUS
      <3>2. Due(i, e, k)
        BY <2>5, <3>1
      <3>3. Due(i, e, k)'
        BY <1>1, <3>2, DueKept
      <3> QED BY <1>1, <2>3, <2>4, <2>6, <3>1, <3>3 DEF InHandOK, ItemsOnly
    <2>9. PendingOK(i)'
      <3>1. ASSUME i \in pending' PROVE ReadOK(i, c + 1)'
        <4>1. m.type = "item"
          BY <1>1, <3>1
        <4>2. /\ m.body = c + 1 /\ m = [type |-> "item", id |-> i, body |-> c + 1]
          BY <2>5, <4>1, MessageRead DEF C!ServerMsg
        <4>3. \A n \in 1..(s_read + 1) : n \in 1..s_read \/ n = s_read + 1
          BY <1>1
        <4>4. ASSUME NEW n \in 1..(s_read + 1), s2c[n].id = i
              PROVE  s2c[n].type = "item" /\ s2c[n].body <= c + 1
          <5>1. CASE n \in 1..s_read
            <6>1. PICK b : b = s2c[n].body
              OBVIOUS
            <6>2. s2c[n].type = "item" /\ b <= c
              BY <2>4, <4>4, <5>1, <6>1 DEF ReadOK
            <6>3. s2c[n] \in C!ServerMsg
              BY <5>1, MessageRead
            <6>4. b \in Nat
              BY <6>1, <6>2, <6>3, RpcAssumption DEF C!ServerMsg
            <6> QED BY <6>1, <6>2, <6>4
          <5>2. CASE n = s_read + 1
            BY <4>1, <4>2, <5>2
          <5> QED BY <4>3, <5>1, <5>2
        <4>5. s_read + 1 \in 1..(s_read + 1)
          BY <1>1
        <4> QED BY <4>2, <4>4, <4>5 DEF ReadOK, S!M
      <3>2. i \in pending' => e.type = "item"
        BY <1>1, <2>5
      <3> QED BY <1>1, <2>3, <2>4, <2>6, <3>1, <3>2 DEF PendingOK, ItemsOnly
    <2>10. OverOK(i)'
      <3>1. i \notin pending' => e.type # "item"
        BY <1>1, <2>5
      <3> QED BY <1>1, <2>3, <3>1 DEF OverOK
    <2> QED BY <2>7, <2>8, <2>9, <2>10 DEF ViewOK
  <1>5. StreamOK(i)'
    BY <1>4 DEF StreamOK, Reading
  <1> QED BY <1>2, <1>3, <1>5 DEF CallerOK

\* A message that does not fit its call changes nothing.
LEMMA KeptIgnored ==
    ASSUME Ends, ReadsOK, ServerHalf, ClientHalf, Onward, s_read < Len(s2c),
           NEW m, m = s2c[s_read + 1], ~C!ForUnary(m), ~C!ForStream(m),
           UNCHANGED <<phase, kind, result, resp, events, pending, rx, run>>,
           got'[m.id] = got[m.id]
    PROVE  CallerOK(m.id)'
  <1>1. m.id \in Calls /\ kind[m.id] = "stream" => m.id \notin pending
    BY MessageRead DEF C!ForStream
  <1>2. m.id \in Calls /\ CallerOK(m.id) /\ GotTyped /\ MadeTyped
    BY MessageRead DEF ClientHalf, ServerHalf
  <1>3. Same(m.id)
    BY DEF Same
  <1> QED BY <1>1, <1>2, <1>3, CallerSame

\* A step of the client changes nothing of the server's.
LEMMA ClientOnward ==
    ASSUME Ends, ReadsOK, ServerHalf, ClientMove
    PROVE  Onward
  <1>1. UNCHANGED <<svars, made>>
    BY DEF ClientMove, ClientRead, ClientCall, ClientTask, ClientDrop, ClientRun,
           ClientExit, ClientStep
  <1>2. \A j \in Calls : items[j] \in Nat
    BY CallTyped DEF ServerHalf
  <1>3. run = "exited" => run' = "exited"
    <2>1. ASSUME NEW i \in Calls PROVE run = "exited" => run' = "exited"
      BY <2>1, CallsGoOn
    <2>2. CASE Calls = {}
      <3>1. C!Next
        BY Readable
           DEF ClientMove, ClientRead, ClientCall, ClientTask, ClientDrop,
               ClientRun, ClientExit, ClientStep, C!Next
      <3> QED
        BY <3>1
           DEF C!Next, C!CallUnary, C!CallStream, C!Begin, C!Caller, C!Abandon,
               C!Loops, C!RunExit, C!Receive, C!SendRequest, C!SendFailed,
               C!UnaryResult, C!StreamRecv, C!CancelTask, C!DropSending,
               C!DropUnary, C!DropStream, C!RunStart, C!Deliver, C!TxLoop
    <2> QED BY <2>1, <2>2
  <1> QED BY <1>1, <1>2, <1>3 DEF Onward, svars, Complete

\* The client reads a message.
LEMMA KeptRead ==
    ASSUME Ends, ReadsOK, ServerHalf, ClientHalf, ClientRead
    PROVE  \A j \in Calls : CallerOK(j)'
  <1>1. PICK m : /\ m = s2c[s_read + 1] /\ s_read < Len(s2c) /\ s_read' = s_read + 1
                 /\ C!Receive(m)
    BY DEF ClientRead, ClientStep
  <1>2. /\ got' = [j \in Calls |-> got[j] \o Told(j)]
        /\ UNCHANGED <<svars, made>>
    BY DEF ClientRead, ClientStep
  <1>3. /\ rx.id = 0
        /\ UNCHANGED <<phase, kind, result, events, run>>
        /\ \/ /\ C!ForUnary(m) /\ pending' = pending \ {m.id}
              /\ resp' = [resp EXCEPT ![m.id] = C!Event(m)] /\ UNCHANGED rx
           \/ /\ C!ForStream(m) /\ rx' = [id |-> m.id, event |-> C!Event(m)]
              /\ pending' = IF m.type = "item" THEN pending ELSE pending \ {m.id}
              /\ UNCHANGED resp
           \/ ~C!ForUnary(m) /\ ~C!ForStream(m) /\ UNCHANGED <<pending, resp, rx>>
    BY <1>1 DEF C!Receive, C!Borrowed, C!Forget, C!callVars
  <1>4. Onward /\ GotTyped /\ MadeTyped /\ m.id \in Calls
    BY <1>1, ClientOnward, MessageRead DEF ClientMove, ClientHalf, ServerHalf
  <1>5. \A j \in Calls : got'[j] = got[j]
    BY <1>2, <1>3, <1>4, ToldNothing
  <1>6. UNCHANGED <<items, made, s2c>>
    BY <1>2 DEF svars
  <1>7. CallerOK(m.id)'
    <2>1. CASE C!ForUnary(m)
      BY <1>1, <1>3, <1>4, <1>5, <1>6, <2>1, KeptAnswered DEF C!ForStream, C!ForUnary
    <2>2. CASE C!ForStream(m)
      BY <1>1, <1>3, <1>4, <1>5, <1>6, <2>2, KeptHanded DEF C!ForStream, C!ForUnary
    <2>3. CASE ~C!ForUnary(m) /\ ~C!ForStream(m)
      BY <1>1, <1>3, <1>4, <1>5, <2>3, KeptIgnored
    <2> QED BY <2>1, <2>2, <2>3
  <1>8. ASSUME NEW j \in Calls \ {m.id} PROVE CallerOK(j)'
    <2>1. j # 0 /\ j \in Calls
      BY Constants
    <2>2. resp'[j] = resp[j]
      BY <1>3, EndsTyped DEF C!TypeOK
    <2>3. Same(j)
      BY <1>3, <1>5, <2>1, <2>2 DEF Same
    <2>4. Skips(j)
      BY <1>1, <1>6 DEF Skips
    <2>5. CallerOK(j)
      BY DEF ClientHalf
    <2> QED BY <1>3, <1>4, <2>1, <2>3, <2>4, <2>5, CallerSame
  <1> QED BY <1>7, <1>8

\* run() of the client ends.
LEMMA KeptExit ==
    ASSUME Ends, ReadsOK, ServerHalf, ClientHalf, ClientExit, NEW i \in Calls
    PROVE  CallerOK(i)'
  <1>1. /\ run = "running" /\ run' = "exited" /\ pending' = {}
        /\ rx' = C!Idle /\ UNCHANGED <<phase, kind, result>>
        /\ resp' = [j \in Calls |-> IF j \in pending /\ kind[j] = "unary"
                                      THEN C!Down ELSE resp[j]]
        /\ events' = [j \in Calls |-> C!Drained(j)]
        /\ got' = [j \in Calls |-> got[j] \o Told(j)]
        /\ UNCHANGED <<svars, made, s_read>>
    BY DEF ClientExit, ClientStep, C!RunExit, C!callVars
  <1>2. Onward /\ GotTyped /\ MadeTyped /\ CallerOK(i)
    BY ClientOnward DEF ClientMove, ClientHalf, ServerHalf
  <1>3. got'[i] = got[i] /\ (Ended(i)' <=> Ended(i)) /\ rx'.id # i
    <2>1. got'[i] = got[i]
      BY <1>1, <1>2, ToldNothing
    <2>2. rx'.id # i
      <3>1. rx'.id = 0
        BY <1>1 DEF C!Idle
      <3> QED BY <3>1, Constants
    <2> QED BY <1>1, <2>1, <2>2 DEF Ended
  <1>4. ResultOK(i)'
    <2>1. resp'[i] = resp[i] \/ resp'[i] = C!Down
      BY <1>1
    <2>2. CASE resp'[i] = resp[i]
      BY <1>1, <1>2, <1>3, <2>2, AnswerKept DEF CallerOK, ResultOK
    <2>3. CASE resp'[i] = C!Down
      <3>1. C!None' = C!None /\ C!Down' = C!Down
        BY DEF C!None, C!Down, C!Plain
      <3>2. ResultOK(i)
        BY <1>2 DEF CallerOK
      <3> QED BY <1>1, <1>3, <2>3, <3>1, <3>2 DEF ResultOK, Item
    <2> QED BY <2>1, <2>2, <2>3
  <1>5. StartOK(i)'
    <2>1. ASSUME phase[i] = "unused"
          PROVE  events'[i] = <<>> /\ resp'[i] = C!None
      BY <1>1, <1>2, <2>1 DEF CallerOK, StartOK, C!Drained
    <2> QED BY <1>1, <1>3, <2>1 DEF StartOK, C!None, C!Plain
  <1>6. ASSUME kind[i] = "stream", Reading(i)
        PROVE  EventsOK(i)'
    <2>1. EventsOK(i) /\ PendingOK(i)
      BY <1>2, <1>6 DEF CallerOK, StreamOK, ViewOK
    <2>2. PICK q \in Seq(C!Value), g \in Nat, l \in Nat :
              q = events[i] /\ g = Len(got[i]) /\ l = Len(q) /\ DOMAIN q = 1..l
      BY <1>2, CallerTyped
    <2>3. ASSUME NEW n \in DOMAIN q PROVE Due(i, q[n], g + n)'
      <3>1. g + n \in Nat
        BY <2>2
      <3>2. PICK k \in Nat : k = g + n
        BY <3>1
      <3>3. PICK v : v = q[n]
        OBVIOUS
      <3>4. Due(i, v, k)
        BY <2>1, <2>2, <3>2, <3>3 DEF EventsOK
      <3>5. Due(i, v, k)'
        BY <1>2, <3>4, DueKept
      <3> QED BY <3>2, <3>3, <3>5
    <2>4. CASE events'[i] = q
      BY <1>3, <2>1, <2>2, <2>3, <2>4 DEF EventsOK
    <2>5. CASE i \in pending /\ events'[i] = Append(q, C!Down)
      <3>1. ItemsOnly(q) /\ ~Ended(i)
        BY <2>1, <2>2, <2>5 DEF PendingOK
      <3>2. /\ DOMAIN Append(q, C!Down) = 1..(l + 1)
            /\ Len(Append(q, C!Down)) = l + 1
            /\ Append(q, C!Down)[l + 1] = C!Down
            /\ \A n \in 1..l : Append(q, C!Down)[n] = q[n]
        BY <2>2, AppendProperties, LenProperties, OutcomesTyped
      <3>3. ASSUME NEW n \in 1..(l + 1)
            PROVE  /\ Due(i, Append(q, C!Down)[n], Len(got[i]) + n)'
                   /\ n < l + 1 => Append(q, C!Down)[n].type = "item"
        <4>1. CASE n = l + 1
          <5>1. PICK v : v = Append(q, C!Down)[n]
            OBVIOUS
          <5>2. v = C!Down
            BY <3>2, <4>1, <5>1
          <5>3. Due(i, v, g + n)'
            BY <1>1, <5>2 DEF Due, C!Down, C!Plain
          <5>4. Due(i, Append(q, C!Down)[n], Len(got[i]) + n)'
            BY <1>3, <2>2, <5>1, <5>3
          <5>5. ~(n < l + 1)
            BY <4>1
          <5> QED BY <5>4, <5>5
        <4>2. CASE n # l + 1
          <5>1. n \in DOMAIN q /\ Append(q, C!Down)[n] = q[n]
            BY <2>2, <3>2, <4>2
          <5>2. PICK v : v = q[n]
            OBVIOUS
          <5>3. Due(i, v, g + n)'
            BY <2>3, <5>1, <5>2
          <5> QED BY <1>3, <2>2, <3>1, <5>1, <5>2, <5>3 DEF ItemsOnly
        <4> QED BY <4>1, <4>2
      <3> QED BY <1>3, <2>5, <3>1, <3>2, <3>3 DEF EventsOK
    <2> QED BY <1>1, <2>2, <2>4, <2>5 DEF C!Drained
  <1>7. StreamOK(i)'
    <2>1. Reading(i)' <=> Reading(i)
      BY <1>1 DEF Reading
    <2> QED
      BY <1>1, <1>3, <1>6, <2>1 DEF StreamOK, ViewOK, InHandOK, PendingOK, OverOK
  <1> QED BY <1>4, <1>5, <1>7 DEF CallerOK

\* A step of the server only goes on.
LEMMA ServerOnward ==
    ASSUME Ends, ReadsOK, ServerHalf, ServerMove, [Next]_vars
    PROVE  Onward
  <1>1. UNCHANGED <<cvars, s_read>>
    BY DEF ServerMove, ServerRead, ServerTask, ServerRun, ServerExit, ServerStep
  <1>2. \A n \in 1..s_read : s2c'[n] = s2c[n]
    <2>1. \A n \in 1..s_read : n \in DOMAIN s2c
      BY EndsTyped, LenProperties DEF ReadsOK
    <2> QED BY <2>1, Grows
  <1> QED BY <1>1, <1>2, ServerKeeps DEF Onward, cvars, ServerHalf

\* What a caller was told stays so as the server moves.
LEMMA KeptServer ==
    ASSUME Ends, ReadsOK, ServerHalf, ClientHalf, ServerMove, [Next]_vars,
           NEW i \in Calls
    PROVE  CallerOK(i)'
  <1>1. UNCHANGED <<cvars, s_read, got>>
    BY DEF ServerMove, ServerRead, ServerTask, ServerRun, ServerExit, ServerStep
  <1>2. Same(i) /\ Skips(i) /\ (run' = "exited" => run = "exited")
    BY <1>1 DEF Same, Skips, cvars
  <1> QED BY <1>2, ServerOnward, CallerSame DEF ServerHalf, ClientHalf

\* And as the client does something of its own.
LEMMA KeptClient ==
    ASSUME Ends, ReadsOK, ServerHalf, ClientHalf,
           ClientCall \/ ClientTask \/ ClientDrop \/ ClientRun, NEW j \in Calls
    PROVE  CallerOK(j)'
  <1>1. /\ s_read' = s_read /\ Onward
        /\ got' = [k \in Calls |-> got[k] \o Told(k)]
    BY ClientOnward
       DEF ClientMove, ClientCall, ClientTask, ClientDrop, ClientRun, ClientStep
  <1>2. run' = "exited" <=> run = "exited"
    BY DEF ClientCall, ClientTask, ClientDrop, ClientRun, ClientStep,
           C!CallUnary, C!CallStream, C!Begin, C!Caller, C!Abandon, C!Loops,
           C!SendRequest, C!SendFailed, C!UnaryResult, C!StreamRecv,
           C!CancelTask, C!DropSending, C!DropUnary, C!DropStream, C!RunStart,
           C!Deliver, C!TxLoop
  <1>3. \/ \A k \in Calls : Same(k)
        \/ \E i \in Calls : Acts(i) /\ \A k \in Calls \ {i} : Same(k)
    <2>1. CASE ClientCall
      BY <2>1, CallMoves DEF ClientHalf, Acts
    <2>2. CASE ClientTask
      BY <1>1, <2>2, CallerMoves DEF ClientTask, ClientStep
    <2>3. CASE ClientDrop
      BY <1>1, <2>3, DropMoves DEF ClientDrop, ClientStep
    <2>4. CASE ClientRun
      BY <1>1, <2>4, LoopMoves DEF ClientRun, ClientStep
    <2> QED BY <2>1, <2>2, <2>3, <2>4
  <1>4. Acts(j)
    BY <1>3 DEF Acts
  <1> QED BY <1>1, <1>2, <1>4, KeptActs

\* What callers are told stays typed.
LEMMA NextGot ==
    ASSUME Ends, ReadsOK, GotTyped, [Next]_vars
    PROVE  GotTyped'
  <1>1. result' \in [Calls -> C!Value]
    BY NextEnds, SameClient DEF Ends, CP!IInv, CP!TypeOK, C!Value, CP!Value
  <1>2. CASE got' = [j \in Calls |-> got[j] \o Told(j)]
    <2>1. ASSUME NEW j \in Calls PROVE got[j] \o Told(j) \in Seq(C!Value)
      <3>1. Told(j) = <<>> \/ Told(j) = <<result'[j]>>
        BY DEF Told
      <3>2. result'[j] \in C!Value /\ got[j] \in Seq(C!Value)
        BY <1>1 DEF GotTyped
      <3>3. Told(j) \in Seq(C!Value)
        <4>1. PICK v \in C!Value : v = result'[j]
          BY <3>2
        <4>2. <<v>> \in Seq(C!Value) /\ <<>> \in Seq(C!Value)
          OBVIOUS
        <4> QED BY <3>1, <4>1, <4>2
      <3> QED BY <3>2, <3>3, ConcatProperties
    <2>2. got' \in [Calls -> Seq(C!Value)]
      BY <1>2, <2>1
    <2> QED BY <2>2 DEF GotTyped, C!Value
  <1>3. CASE got' = got
    BY <1>3 DEF GotTyped, C!Value
  <1> QED
    BY <1>2, <1>3
       DEF Next, vars, ServerRead, ServerTask, ServerRun, ServerExit, ServerStep,
           ClientRead, ClientCall, ClientTask, ClientDrop, ClientRun, ClientExit,
           ClientStep

-----------------------------------------------------------------------------
(* The inductive invariant, and the contract. *)

IInv == Ends /\ ReadsOK /\ ServerHalf /\ ClientHalf

\* Two fresh ends satisfy it.
LEMMA InitIInv == Init => IInv
  <1> SUFFICES ASSUME Init PROVE IInv
    OBVIOUS
  <1>1. Ends
    BY SameServer, SameClient, Constants, SP!InitIInv, CP!InitIInv, CP!InitPInv
       DEF Init, Ends
  <1>2. ReadsOK
    BY <1>1, EndsTyped DEF Init, ReadsOK
  <1>3. MadeTyped /\ GotTyped
    BY EmptySeq DEF Init, MadeTyped, GotTyped
  <1>4. ServerHalf
    <2>1. ASSUME NEW i \in Calls PROVE MadeOK(i) /\ HandlerOK(i)
      BY DEF Init, S!Init, MadeOK, HandlerOK
    <2>2. QueuedOK
      BY DEF Init, S!Init, QueuedOK, EndingsOK
    <2>3. WrittenOK
      BY DEF Init, S!Init, WrittenOK
    <2> QED BY <1>3, <2>1, <2>2, <2>3 DEF ServerHalf, MadesOK, HandlersOK
  <1>5. ASSUME NEW i \in Calls PROVE CallerOK(i)
    <2>1. /\ got[i] = <<>> /\ events[i] = <<>> /\ resp[i] = C!None
          /\ result[i] = C!None /\ phase[i] = "unused" /\ i \notin pending
          /\ rx.id = 0
      BY DEF Init, C!Init, C!Idle
    <2>2. rx.id # i /\ ~Ended(i)
      BY <2>1, Constants DEF Ended
    <2> QED BY <2>1, <2>2 DEF CallerOK, StreamOK, ResultOK, StartOK, Reading
  <1> QED BY <1>1, <1>2, <1>3, <1>4, <1>5 DEF IInv, ClientHalf

\* Every step keeps it.
LEMMA NextIInv == IInv /\ [Next]_vars => IInv'
  <1> SUFFICES ASSUME IInv, [Next]_vars PROVE IInv'
    OBVIOUS
  <1>0. Ends /\ ReadsOK /\ ServerHalf /\ ClientHalf /\ GotTyped
    BY DEF IInv, ClientHalf
  <1>1. Ends' /\ ReadsOK' /\ GotTyped'
    BY <1>0, NextEnds, NextReads, NextGot
  <1>2. CASE ServerMove
    <2>1. ServerHalf'
      BY <1>0, <1>2, ServerServer
    <2>2. \A j \in Calls : CallerOK(j)'
      BY <1>0, <1>2, KeptServer
    <2> QED BY <1>1, <2>1, <2>2 DEF IInv, ClientHalf
  <1>3. CASE ClientMove
    <2>1. ServerHalf'
      BY <1>0, <1>3, ServerClient
    <2>2. \A j \in Calls : CallerOK(j)'
      BY <1>0, <1>3, KeptRead, KeptClient, KeptExit DEF ClientMove
    <2> QED BY <1>1, <2>1, <2>2 DEF IInv, ClientHalf
  <1>4. CASE UNCHANGED vars
    <2>1. Onward
      <3>1. \A j \in Calls : items[j] \in Nat
        BY <1>0, CallTyped DEF ServerHalf
      <3> QED BY <1>4, <3>1 DEF Onward, vars, svars, cvars, Complete
    <2>2. ASSUME NEW j \in Calls PROVE CallerOK(j)'
      <3>1. Same(j) /\ Skips(j) /\ (run' = "exited" => run = "exited")
        BY <1>4 DEF Same, Skips, vars, cvars
      <3> QED BY <1>0, <2>1, <3>1, CallerSame DEF ServerHalf, ClientHalf
    <2>3. ServerHalf'
      BY <1>0, <1>4, ServerClient
    <2> QED BY <1>1, <2>2, <2>3 DEF IInv, ClientHalf
  <1> QED BY <1>2, <1>3, <1>4 DEF Next, ServerMove, ClientMove

-----------------------------------------------------------------------------
(* Every step is a step of the contract, or none. *)

\* The connection of the caller is as it was.
SameUp == run' = "exited" <=> run = "exited"

\* A caller is told the next outcome of its method.
LEMMA GetStep ==
    ASSUME NEW i \in Calls, NEW v, SameUp, made' = made, ~Ended(i),
           Len(got[i]) < Len(made[i]), v = Contract!Seen(made[i][Len(got[i]) + 1]),
           got' = [got EXCEPT ![i] = Append(got[i], v)]
    PROVE  Contract!Next
  <1>1. Contract!Get(i)
    BY DEF SameUp, Contract!Get, Contract!Over, Ended
  <1> QED BY <1>1 DEF Contract!Next

\* A caller is told that the connection is gone.
LEMMA FailStep ==
    ASSUME NEW i \in Calls, NEW v \in {C!Down, C!Closed}, run = "exited",
           run' = "exited", made' = made, ~Ended(i),
           got' = [got EXCEPT ![i] = Append(got[i], v)]
    PROVE  Contract!Next
  <1>1. Contract!Fail(i)
    BY DEF Contract!Fail, Contract!Over, Ended
  <1> QED BY <1>1 DEF Contract!Next

\* Callers that are told nothing, and methods that produce nothing.
LEMMA StutterStep ==
    ASSUME SameUp, made' = made, got' = got
    PROVE  UNCHANGED Contract!vars
  BY DEF SameUp, Contract!vars

\* A caller is told what its method returned, or that its client is down.
LEMMA AnsweredStep ==
    ASSUME Ends, ServerHalf, ClientHalf, SameUp, made' = made,
           NEW i \in Calls, Answered(i),
           got' = [got EXCEPT ![i] = Append(got[i], resp[i])]
    PROVE  Contract!Next
  <1>1. ResultOK(i)
    BY DEF ClientHalf, CallerOK
  <1>2. got[i] = <<>> /\ ~Ended(i) /\ Len(got[i]) = 0
    BY <1>1 DEF ResultOK, Answered, Ended
  <1>3. CASE resp[i] = C!Down /\ run = "exited"
    BY <1>2, <1>3, FailStep DEF SameUp
  <1>4. CASE /\ Complete(i) /\ items[i] = 0 /\ made[i][1] = resp[i]
             /\ resp[i].type \in {"ok", "error"}
    <2>1. Len(made[i]) = 1
      BY <1>4 DEF Complete
    <2>2. Contract!Seen(made[i][1]) = resp[i]
      BY <1>4 DEF Contract!Seen
    <2>3. Len(got[i]) + 1 = 1 /\ Len(got[i]) < Len(made[i])
      BY <1>2, <2>1
    <2> QED BY <1>2, <2>2, <2>3, GetStep
  <1> QED BY <1>1, <1>3, <1>4 DEF ResultOK, Answered

\* recv() tells the next item, the end, or that its client is down.
LEMMA TakesStep ==
    ASSUME Ends, ServerHalf, ClientHalf, SameUp, made' = made,
           NEW i \in Calls, Takes(i),
           got' = [got EXCEPT ![i] = Append(got[i], C!RecvValue(Head(events[i])))]
    PROVE  Contract!Next
  <1>1. PICK v : v = Head(events[i])
    OBVIOUS
  <1>2. Due(i, v, Len(got[i]) + 1) /\ ~Ended(i)
    BY <1>1, NextDue DEF Takes
  <1>3. PICK g \in Nat : g = Len(got[i])
    BY CallerTyped DEF ClientHalf
  <1>4. /\ MadeOK(i) /\ items[i] \in Nat /\ Len(made[i]) \in Nat
    BY CallTyped DEF ServerHalf, MadesOK
  <1>5. C!RecvValue(v) = Contract!Seen(v)
    BY DEF C!RecvValue, Contract!Seen
  <1>6. CASE v = Item(g + 1) /\ g + 1 <= items[i]
    <2>1. made[i][g + 1] = v
      <3>1. PICK n \in Nat : n = g + 1 /\ n \in 1..items[i]
        BY <1>4, <1>6
      <3> QED BY <1>4, <1>6, <3>1 DEF MadeOK
    <2>2. Len(made[i]) = items[i] \/ Len(made[i]) = items[i] + 1
      BY <1>4 DEF MadeOK, Complete
    <2>3. g < Len(made[i])
      BY <1>4, <1>6, <2>2
    <2> QED BY <1>1, <1>2, <1>3, <1>5, <2>1, <2>3, GetStep
  <1>7. CASE v = C!Down /\ run = "exited"
    <2>1. C!RecvValue(v) = C!Down
      BY <1>7 DEF C!RecvValue, C!Down, C!Plain
    <2> QED BY <1>1, <1>2, <1>7, <2>1, FailStep DEF SameUp
  <1>8. CASE Complete(i) /\ g + 1 = items[i] + 1 /\ made[i][g + 1] = v
    <2>1. g < Len(made[i])
      BY <1>4, <1>8 DEF Complete
    <2> QED BY <1>1, <1>2, <1>3, <1>5, <1>8, <2>1, GetStep
  <1> QED BY <1>2, <1>3, <1>6, <1>7, <1>8 DEF Due

\* recv() finds no sender: the end was told before, or the client is down.
LEMMA NoneStep ==
    ASSUME Ends, ServerHalf, ClientHalf, SameUp, made' = made,
           NEW i \in Calls, TakesNone(i),
           IF Ended(i) THEN got' = got
                       ELSE got' = [got EXCEPT ![i] = Append(got[i], C!Closed)]
    PROVE  Contract!Next \/ UNCHANGED Contract!vars
  <1>1. OverOK(i) /\ events[i] = <<>>
    BY DEF ClientHalf, CallerOK, StreamOK, ViewOK, Reading, TakesNone
  <1>2. ItemsOnly(events[i])
    BY <1>1 DEF ItemsOnly
  <1>3. ~Ended(i) => run = "exited"
    BY <1>1, <1>2 DEF OverOK, TakesNone
  <1>4. CASE Ended(i)
    BY <1>4, StutterStep
  <1>5. CASE ~Ended(i)
    BY <1>3, <1>5, FailStep DEF SameUp
  <1> QED BY <1>4, <1>5

\* A step of the client on its own.
LEMMA ClientRefines ==
    ASSUME Ends, ReadsOK, ServerHalf, ClientHalf,
           ClientCall \/ ClientTask \/ ClientDrop \/ ClientRun
    PROVE  Contract!Next \/ UNCHANGED Contract!vars
  <1>1. /\ made' = made /\ got' = [k \in Calls |-> got[k] \o Told(k)]
        /\ \A k \in Calls : got[k] \in Seq(C!Value) /\ DOMAIN got = Calls
    BY DEF ClientCall, ClientTask, ClientDrop, ClientRun, ClientStep, ClientHalf,
           GotTyped
  <1>2. SameUp
    BY DEF SameUp, ClientCall, ClientTask, ClientDrop, ClientRun, ClientStep,
           C!CallUnary, C!CallStream, C!Begin, C!Caller, C!Abandon, C!Loops,
           C!SendRequest, C!SendFailed, C!UnaryResult, C!StreamRecv,
           C!CancelTask, C!DropSending, C!DropUnary, C!DropStream, C!RunStart,
           C!Deliver, C!TxLoop
  <1>3. \/ \A k \in Calls : Same(k)
        \/ \E i \in Calls : Acts(i) /\ \A k \in Calls \ {i} : Same(k)
    <2>1. CASE ClientCall
      BY <2>1, CallMoves DEF ClientHalf, Acts
    <2>2. CASE ClientTask
      BY <1>1, <2>2, CallerMoves DEF ClientTask, ClientStep
    <2>3. CASE ClientDrop
      BY <1>1, <2>3, DropMoves DEF ClientDrop, ClientStep
    <2>4. CASE ClientRun
      BY <1>1, <2>4, LoopMoves DEF ClientRun, ClientStep
    <2> QED BY <2>1, <2>2, <2>3, <2>4
  <1>4. ASSUME \A k \in Calls : got'[k] = got[k]
        PROVE  UNCHANGED Contract!vars
    <2>1. got' = got
      BY <1>1, <1>4 DEF ClientHalf, GotTyped
    <2> QED BY <1>1, <1>2, <2>1, StutterStep
  <1>5. ASSUME NEW i \in Calls, Acts(i), \A k \in Calls \ {i} : Same(k)
        PROVE  Contract!Next \/ UNCHANGED Contract!vars
    <2>1. ASSUME NEW v, got'[i] = Append(got[i], v)
          PROVE  got' = [got EXCEPT ![i] = Append(got[i], v)]
      BY <1>1, <1>5, <2>1 DEF Same, ClientHalf, GotTyped
    <2>2. CASE got'[i] = got[i]
      BY <1>4, <1>5, <2>2 DEF Same
    <2>3. CASE FailsToSend(i)
      <3>1. ~Ended(i)
        BY <2>3 DEF FailsToSend, ClientHalf, CallerOK, ResultOK, Ended
      <3> QED BY <1>1, <1>2, <2>1, <2>3, <3>1, FailStep DEF FailsToSend, SameUp
    <2>4. CASE Answered(i)
      BY <1>1, <1>2, <2>1, <2>4, AnsweredStep DEF Answered
    <2>5. CASE Takes(i)
      BY <1>1, <1>2, <2>1, <2>5, TakesStep DEF Takes
    <2>6. CASE TakesNone(i) /\ ~Ended(i)
      BY <1>1, <1>2, <2>1, <2>6, NoneStep DEF TakesNone
    <2> QED
      BY <1>5, <2>2, <2>3, <2>4, <2>5, <2>6
         DEF Acts, Begins, Departs, Gone, TakesNone, Delivers, Same
  <1>6. CASE \A k \in Calls : Same(k)
    BY <1>4, <1>6 DEF Same
  <1> QED BY <1>3, <1>5, <1>6

\* A method produces an outcome after items only.
LEMMA ProduceStep ==
    ASSUME ServerHalf, Ends, NEW i \in Calls, NEW v \in C!Value, SameUp, got' = got,
           v.type \in {"ok", "item", "end", "error"},
           handler[i] \in {"spawned", "working", "streaming"},
           made' = [made EXCEPT ![i] = Append(made[i], v)]
    PROVE  Contract!Next
  <1>1. /\ MadeOK(i) /\ items[i] \in Nat /\ Len(made[i]) \in Nat
        /\ made[i] \in Seq(C!Value)
    BY CallTyped DEF ServerHalf, MadesOK
  <1>2. Len(made[i]) = items[i] /\ \A n \in 1..items[i] : made[i][n] = Item(n)
    BY <1>1 DEF MadeOK
  <1>3. ~Contract!Over(made[i])
    <2>1. ASSUME made[i] # <<>> PROVE made[i][Len(made[i])].type = "item"
      <3>1. Len(made[i]) \in 1..items[i]
        BY <1>1, <1>2, <2>1, EmptySeq
      <3>2. PICK n \in 1..items[i] : n = Len(made[i])
        BY <3>1
      <3>3. Item(n).type = "item"
        BY DEF Item
      <3> QED BY <1>2, <3>2, <3>3
    <2> QED BY <2>1 DEF Contract!Over
  <1>4. Contract!Produce(i, v)
    BY <1>3 DEF SameUp, Contract!Produce
  <1> QED BY <1>4 DEF Contract!Next

\* A step of the server.
LEMMA ServerRefines ==
    ASSUME Ends, ReadsOK, ServerHalf, ServerMove
    PROVE  Contract!Next \/ UNCHANGED Contract!vars
  <1>1. /\ got' = got /\ SameUp
        /\ made' = [k \in Calls |-> made[k] \o Produced(k)]
        /\ DOMAIN made = Calls /\ MadeTyped
    BY DEF ServerMove, ServerRead, ServerTask, ServerRun, ServerExit, ServerStep,
           cvars, SameUp, ServerHalf, MadeTyped
  <1>2. ASSUME \A k \in Calls : made'[k] = made[k]
        PROVE  UNCHANGED Contract!vars
    <2>1. made' = made
      <3>1. made' = [k \in Calls |-> made'[k]]
        BY <1>1
      <3>2. made = [k \in Calls |-> made[k]]
        BY <1>1 DEF MadeTyped
      <3> QED BY <1>2, <3>1, <3>2, Zenon
    <2> QED BY <1>1, <2>1, StutterStep
  <1>3. CASE \A k \in Calls : Quiet(k)
    BY <1>2, <1>3 DEF Quiet
  <1>4. ASSUME NEW i \in Calls, Moves(i), \A k \in Calls \ {i} : Quiet(k)
        PROVE  Contract!Next \/ UNCHANGED Contract!vars
    <2>1. ASSUME NEW v, made'[i] = Append(made[i], v)
          PROVE  made' = [made EXCEPT ![i] = Append(made[i], v)]
      BY <1>1, <1>4, <2>1 DEF Quiet
    <2>2. CASE made'[i] = made[i]
      BY <1>2, <1>4, <2>2 DEF Quiet
    <2>3. CASE Yields(i)
      <3>1. PICK v \in C!Value : v = Item(items'[i])
        BY <2>3, OutcomesTyped DEF Yields
      <3>2. v.type = "item" /\ made'[i] = Append(made[i], v)
        BY <2>3, <3>1 DEF Item, Yields
      <3> QED BY <1>1, <2>1, <2>3, <3>2, ProduceStep DEF Yields
    <2>4. ASSUME NEW v \in Finals, Finishes(i, v) PROVE Contract!Next
      BY <1>1, <2>1, <2>4, ProduceStep DEF Finishes, Finals
    <2> QED
      BY <1>4, <2>2, <2>3, <2>4 DEF Moves, Quiet, Starts, Passes, Stops
  <1> QED BY <1>3, <1>4, ServerMoves DEF ServerHalf, ServerMove

\* The connection carries a message to the client, or breaks.
LEMMA ReadRefines ==
    ASSUME ClientHalf, ClientRead \/ ClientExit
    PROVE  Contract!Next \/ UNCHANGED Contract!vars
  <1>1. /\ made' = made /\ got' = [k \in Calls |-> got[k] \o Told(k)]
        /\ result' = result
        /\ run = "running" /\ run' \in {"running", "exited"}
    BY DEF ClientRead, ClientExit, ClientStep, C!Receive, C!RunExit
  <1>2. got' = got
    <2>1. DOMAIN got = Calls /\ GotTyped
      BY DEF ClientHalf, GotTyped
    <2>2. \A k \in Calls : got'[k] = got[k]
      BY <1>1, <2>1, ToldNothing
    <2>3. got' = [k \in Calls |-> got'[k]]
      BY <1>1
    <2>4. got = [k \in Calls |-> got[k]]
      BY <2>1 DEF GotTyped
    <2> QED BY <2>2, <2>3, <2>4, Zenon
  <1>3. CASE run' = "running"
    BY <1>1, <1>2, <1>3, StutterStep DEF SameUp
  <1>4. CASE run' = "exited"
    BY <1>1, <1>2, <1>4 DEF Contract!Next, Contract!Break
  <1> QED BY <1>1, <1>3, <1>4

\* What both ends keep, whatever is dropped, cancelled or lost: a caller has
\* the outcomes of its method in their order, and every message on its way
\* is what the method produced.
THEOREM Inductive == Spec => []IInv
  BY InitIInv, NextIInv, PTL DEF Spec

\* Every variable of the two ends and of what runs between them keeps its
\* type, and queues their bounds.
THEOREM Typed == Spec => []TypeOK
  <1>1. IInv /\ faults \in FaultSets => TypeOK
    BY EndsTyped DEF IInv, ReadsOK, ServerHalf, ClientHalf, MadeTyped, GotTyped, TypeOK
  <1>2. Init => faults \in FaultSets
    BY DEF Init
  <1>3. [Next]_vars /\ faults \in FaultSets => (faults \in FaultSets)'
    <2>1. Next => UNCHANGED faults
      BY DEF Next, ServerRead, ServerTask, ServerRun, ServerExit, ServerStep, ClientRead,
             ClientTask, ClientRun, ClientCall, ClientDrop, ClientExit, ClientStep
    <2> QED BY <2>1 DEF vars
  <1> QED BY <1>1, <1>2, <1>3, Inductive, PTL DEF Spec

\* Callers get what the service methods of their calls produced, in order,
\* each once and none skipped, and are told the end of a stream only when
\* its method returned and every item was read, or the connection is gone.
THEOREM CallsAreHonest == Spec => ImplementsContract
  <1>1. Init => Contract!Init
    BY DEF Init, C!Init, Contract!Init
  <1>2. IInv /\ [Next]_vars => [Contract!Next]_(Contract!vars)
    <2> SUFFICES ASSUME IInv, [Next]_vars
                 PROVE  Contract!Next \/ UNCHANGED Contract!vars
      OBVIOUS
    <2>1. Ends /\ ReadsOK /\ ServerHalf /\ ClientHalf
      BY DEF IInv
    <2>2. CASE ServerMove
      BY <2>1, <2>2, ServerRefines
    <2>3. CASE ClientCall \/ ClientTask \/ ClientDrop \/ ClientRun
      BY <2>1, <2>3, ClientRefines
    <2>4. CASE ClientRead \/ ClientExit
      BY <2>1, <2>4, ReadRefines
    <2>5. CASE UNCHANGED vars
      BY <2>5, StutterStep DEF vars, cvars, SameUp
    <2> QED BY <2>2, <2>3, <2>4, <2>5 DEF Next, ServerMove
  <1> QED
    BY <1>1, <1>2, Inductive, PTL DEF Spec, ImplementsContract, Contract!Spec
=============================================================================

---------------------------- MODULE GoRpcProofs ----------------------------
(***************************************************************************)
(* Theorems about GoRpc, for every number of calls and of items, every     *)
(* capacity that holds a stream and every set of faults.                   *)
(***************************************************************************)
EXTENDS GoRpc, SequenceTheorems, TLAPS

\* The theorems about the two ends.
SP == INSTANCE GoServerProofs
CP == INSTANCE GoClientProofs

USE DEF MaxCalls, Calls, S!Calls, SP!Calls, S!Kinds, SP!Kinds, C!Ids, CP!Ids,
        C!Kinds, CP!Kinds

-----------------------------------------------------------------------------
(* The inductive invariant: the two ends. *)

\* The invariants of the two ends.
Ends == SP!IInv /\ CP!IInv

\* Nobody has read more than was written, and what was written are packets.
ReadsOK ==
    /\ c2s \in Seq([type : {"request", "cancel"}, id : Calls])
    /\ c_read \in 0..Len(c2s) /\ s_read \in 0..Len(s2c)

\* Only calls that were asked for are served, as what they are.
AskedOK ==
    /\ refusing = 0
    /\ \A n \in DOMAIN c2s : c2s[n].type = "request" => c2s[n].id \in asked
    /\ \A i \in Calls :
           /\ handler[i] # "none" => i \in asked /\ method[i] = kind[i]
           /\ handler[i] # "refused"
           /\ i \in asked => phase[i] \notin {"unused", "failed"}

-----------------------------------------------------------------------------
(* The server half: what a service method has produced, and its messages. *)

Item(n) == [type |-> "item", body |-> n]

\* The outcome that a last message stands for.
Final(t) == C!Plain(IF t = "response" THEN "ok" ELSE t)

Returned(i) == handler[i] \in {"replying", "done"}

Replies(k) == IF k = "unary" THEN {"response", "error"} ELSE {"end", "error"}

\* The items in order, and the last outcome of a method that has returned.
MadeOK(i) ==
    /\ handler[i] \in {"none", "spawned", "working"} \/ kind[i] = "unary" =>
           items[i] = 0
    /\ handler[i] = "streaming" => kind[i] = "stream"
    /\ handler[i] = "working" => kind[i] = "unary"
    /\ Len(made[i]) = IF Returned(i) THEN items[i] + 1 ELSE items[i]
    /\ \A n \in 1..items[i] : made[i][n] = Item(n)
    /\ Returned(i) => /\ reply[i] \in Replies(kind[i])
                      /\ made[i][items[i] + 1] = Final(reply[i])

\* An item has the one before it in front of it, the last message the last
\* item.
WellWritten(m, n) ==
    /\ m.type = "item" =>
           /\ m.body # 0
           /\ m.body # 1 =>
                  \E k \in 1..(n - 1) : s2c[k] = S!M("item", m.id, m.body - 1)
    /\ m.type # "item" =>
           /\ m.body = 0
           /\ handler[m.id] = "done" /\ m.type = reply[m.id]
           /\ items[m.id] # 0 =>
                  \E k \in 1..(n - 1) : s2c[k] = S!M("item", m.id, items[m.id])

LastItemWritten(i) ==
    items[i] # 0 => \E k \in DOMAIN s2c : s2c[k] = S!M("item", i, items[i])

MadeTyped == made \in [Calls -> Seq(Outcomes)]

ServerHalf ==
    /\ MadeTyped
    /\ \A i \in Calls : MadeOK(i) /\ LastItemWritten(i)
    /\ \A n \in DOMAIN s2c : WellWritten(s2c[n], n)

-----------------------------------------------------------------------------
(* The client half: what a caller was told, and what it is about to be. *)

\* A caller may be told v as the k-th outcome of call i.
Due(i, v, k) ==
    \/ k \in 1..Len(made[i]) /\ v = Contract!Seen(made[i][k])
    \/ recvErr /\ v = C!Down

ItemsOnly(q) == \A n \in DOMAIN q : q[n].type = "item"

InHand(i) == loop = "handling" /\ hand.id = i

\* Outcomes of call i that have passed its lookup.
Count(i) == Len(got[i]) + Len(events[i]) + (IF InHand(i) THEN 1 ELSE 0)

\* The client has read the first c items of call i, and no more.
ReadOK(i, c) ==
    /\ \A n \in 1..s_read : s2c[n].id = i /\ s2c[n].type = "item" => s2c[n].body <= c
    /\ c # 0 => \E n \in 1..s_read : s2c[n] = S!M("item", i, c)

\* A queue holds the outcomes of call i after the first g, items but for the
\* last one.
DueFrom(i, q, g) ==
    \A n \in DOMAIN q : /\ Due(i, q[n], g + n)
                        /\ n < Len(q) => q[n].type = "item"

EventsOK(i) ==
    /\ kind[i] = "unary" => events[i] = <<>>
    /\ DueFrom(i, events[i], Len(got[i]))
    /\ events[i] # <<>> => ~Contract!Over(got[i]) \/ phase[i] = "done"

AnswersOK(i) ==
    /\ \A n \in DOMAIN resp[i] : Due(i, resp[i][n], 1)
    /\ \A n \in DOMAIN errc[i] : Due(i, errc[i][n], 1)

InHandOK(i) ==
    InHand(i) =>
        IF kind[i] = "unary" THEN Due(i, C!Outcome(hand), 1)
        ELSE /\ Due(i, C!Outcome(hand), Count(i))
             /\ ItemsOnly(events[i]) /\ ~Contract!Over(got[i])

\* The queue of a stream that has not ended can take what comes.
OpenOK(i) ==
    i \in pending /\ kind[i] = "stream" /\ loop # "exited" =>
        /\ loop = "failing" => i \notin over
        /\ i \notin over => /\ ItemsOnly(events[i]) /\ ~Contract!Over(got[i])
                            /\ loop # "failing" => ReadOK(i, Count(i))

\* What the caller was last told.
ResultOK(i) ==
    /\ phase[i] \in {"unused", "sending", "failed", "waiting"} => got[i] = <<>>
    /\ phase[i] = "unused" => events[i] = <<>>
    /\ result[i] = IF got[i] = <<>> THEN C!None ELSE got[i][Len(got[i])]
    /\ result[i].type = "item" => result[i].body = Len(got[i])
    /\ result[i] = C!Down => recvErr \/ phase[i] = "done"
    /\ ctx[i] = "live"

View(i) ==
    /\ EventsOK(i) /\ AnswersOK(i) /\ InHandOK(i) /\ OpenOK(i) /\ ResultOK(i)

\* What the client takes for the end of a call was read, and it fails after
\* its connection only.
OverOK ==
    /\ loop = "failing" => recvErr
    /\ \A i \in over : \E n \in 1..s_read : s2c[n].id = i /\ s2c[n].type # "item"

GotTyped == got \in [Calls -> Seq(C!Value)]

\* Only calls that have begun are in the map.
Begun == \A i \in pending : phase[i] # "unused"

ClientHalf == GotTyped /\ OverOK /\ Begun /\ \A i \in Calls : View(i)

IInv == Ends /\ ReadsOK /\ AskedOK /\ ServerHalf /\ ClientHalf

-----------------------------------------------------------------------------
(* The two ends. *)

\* What the theorems about the two ends assume of the constants holds here.
LEMMA Constants ==
    /\ MaxCalls \in Nat /\ MaxItems \in Nat /\ StreamCap \in Nat
    /\ SP!GoServerAssumption /\ CP!GoClientAssumption
  <1>1. Len(Script) \in Nat
    BY GoRpcAssumption, LenProperties
  <1> QED BY <1>1, GoRpcAssumption
             DEF SP!GoServerAssumption, CP!GoClientAssumption

\* The server of the composition is the one the theorems are about.
LEMMA SameServer ==
    /\ S!Init <=> SP!Init
    /\ S!Next <=> SP!Next
    /\ S!TypeOK <=> SP!TypeOK
    /\ S!Msg = SP!Msg
  <1>1. S!Init <=> SP!Init
    BY DEF S!Init, SP!Init
  <1>2. (S!TypeOK <=> SP!TypeOK) /\ S!Msg = SP!Msg
    BY DEF S!TypeOK, SP!TypeOK, S!Msg, SP!Msg
  <1>3. \A i \in Calls : S!Task(i) <=> SP!Task(i)
    BY DEF S!Task, SP!Task, S!StartHandler, SP!StartHandler, S!Return,
           SP!Return, S!SendReply, SP!SendReply, S!SendItem, SP!SendItem,
           S!M, SP!M
  <1>4. S!Peer <=> SP!Peer
    BY DEF S!Peer, SP!Peer, S!RecvBadRequest, SP!RecvBadRequest, S!RecvCancel,
           SP!RecvCancel, S!RecvRequest, SP!RecvRequest, S!Receiving,
           SP!Receiving
  <1>5. /\ S!SendRefusal <=> SP!SendRefusal
        /\ S!RunCtxDone <=> SP!RunCtxDone
        /\ S!Exit <=> SP!Exit
    BY DEF S!SendRefusal, SP!SendRefusal, S!RunCtxDone, SP!RunCtxDone, S!Exit,
           SP!Exit, S!Receiving, SP!Receiving, S!M, SP!M
  <1> QED
    BY <1>1, <1>2, <1>3, <1>4, <1>5 DEF S!Next, SP!Next

\* So is the client.
LEMMA SameClient ==
    /\ C!Init <=> CP!Init
    /\ C!Next <=> CP!Next
    /\ C!TypeOK <=> CP!TypeOK
    /\ C!ServerMsg = CP!ServerMsg
  <1> USE DEF C!callVars, CP!callVars, C!chanVars, CP!chanVars, C!loopVars,
              CP!loopVars, C!wireVars, CP!wireVars, C!Plain, CP!Plain, C!None,
              CP!None, C!Closed, CP!Closed, C!Down, CP!Down, C!Idle, CP!Idle
  <1>1. C!Init <=> CP!Init
    BY DEF C!Init, CP!Init
  <1>2. C!ServerMsg = CP!ServerMsg /\ (C!TypeOK <=> CP!TypeOK)
    BY DEF C!TypeOK, CP!TypeOK, C!Value, CP!Value, C!ServerMsg, CP!ServerMsg
  <1>3. C!Calling <=> CP!Calling
    BY DEF C!Calling, CP!Calling, C!CheckErr, CP!CheckErr, C!Register,
           CP!Register
  <1>4. \A i \in Calls : C!Caller(i) <=> CP!Caller(i)
    BY DEF C!Caller, CP!Caller, C!WriteRequest, CP!WriteRequest, C!SendRequest,
           CP!SendRequest, C!SendFailed, CP!SendFailed, C!UnaryDone,
           CP!UnaryDone, C!UnaryResponse, CP!UnaryResponse, C!UnaryError,
           CP!UnaryError, C!RecvDone, CP!RecvDone, C!RecvItem, CP!RecvItem,
           C!SendCancel, CP!SendCancel, C!Leave, CP!Leave
  <1>5. \A i \in Calls : C!Abandon(i) <=> CP!Abandon(i)
    BY DEF C!Abandon, CP!Abandon, C!CancelStream, CP!CancelStream, C!CtxDone,
           CP!CtxDone
  <1>6. C!Run <=> CP!Run
    BY DEF C!Run, CP!Run, C!RunStart, CP!RunStart, C!Handle, CP!Handle,
           C!Unlist, CP!Unlist, C!NotifyAll, CP!NotifyAll, C!Offer, CP!Offer,
           C!Outcome, CP!Outcome, C!Handled, CP!Handled
  <1>7. C!Fail <=> CP!Fail
    BY DEF C!Fail, CP!Fail
  <1>8. \A m \in C!ServerMsg : C!Fits(m) /\ C!Receive(m) <=> CP!Fits(m) /\ CP!Receive(m)
    BY DEF C!Receive, CP!Receive, C!Fits, CP!Fits
  <1> QED
    BY <1>1, <1>2, <1>3, <1>4, <1>5, <1>6, <1>7, <1>8 DEF C!Next, CP!Next

\* Types of the two ends, seen from here.
LEMMA EndsTyped ==
    ASSUME Ends
    PROVE  /\ S!TypeOK /\ C!TypeOK
           /\ s2c \in Seq(S!Msg) /\ S!Msg = C!ServerMsg
           /\ Len(s2c) \in Nat /\ DOMAIN s2c = 1..Len(s2c)
           /\ \A n \in DOMAIN s2c : s2c[n] \in S!Msg
  <1>1. S!TypeOK /\ C!TypeOK
    BY SameServer, SameClient DEF Ends, SP!IInv, CP!IInv
  <1>2. S!Msg = C!ServerMsg
    BY DEF S!Msg, C!ServerMsg
  <1>3. s2c \in Seq(S!Msg)
    BY <1>1 DEF S!TypeOK
  <1> QED BY <1>1, <1>2, <1>3, LenProperties, ElementOfSeq

-----------------------------------------------------------------------------
(* Steps of the server. *)

\* A step of the server, as the method of one call sees it.
Quiet(j) == /\ handler'[j] = handler[j] /\ items'[j] = items[j]
            /\ reply'[j] = reply[j] /\ method'[j] = method[j]
            /\ made'[j] = made[j]

Starts(j) == /\ \/ /\ handler[j] = "none" /\ handler'[j] = "spawned"
                   /\ j \in asked /\ method'[j] = kind[j]
                \/ /\ handler[j] = "spawned" /\ method'[j] = method[j]
                   /\ handler'[j] = IF method[j] = "unary" THEN "working"
                                                           ELSE "streaming"
             /\ items'[j] = items[j] /\ made'[j] = made[j]
             /\ s2c' = s2c

Yields(j) == /\ handler[j] = "streaming" /\ handler'[j] = "streaming"
             /\ method'[j] = method[j]
             /\ items'[j] = items[j] + 1 /\ items'[j] \in 1..MaxItems
             /\ made'[j] = Append(made[j], Item(items'[j]))
             /\ s2c' = Append(s2c, S!M("item", j, items'[j]))

Finishes(j) == /\ handler[j] \in {"spawned", "working", "streaming"}
               /\ handler'[j] = "replying" /\ method'[j] = method[j]
               /\ reply'[j] = "error" \/ reply'[j] =
                      IF handler[j] = "working" THEN "response" ELSE "end"
               /\ handler[j] = "spawned" => reply'[j] = "error"
               /\ items'[j] = items[j]
               /\ made'[j] = Append(made[j], Final(reply'[j]))
               /\ s2c' = s2c

Passes(j) == /\ handler[j] = "replying" /\ handler'[j] = "done"
             /\ reply'[j] = reply[j] /\ method'[j] = method[j]
             /\ items'[j] = items[j] /\ made'[j] = made[j]
             /\ s2c' \in {s2c, Append(s2c, S!M(reply[j], j, 0))}

Moves(j) == Starts(j) \/ Yields(j) \/ Finishes(j) \/ Passes(j)

\* Outcomes are what Outcomes says.
LEMMA OutcomesTyped ==
    /\ \A t \in {"response", "end", "error"} : Final(t) \in Outcomes
    /\ \A n \in 1..MaxItems : Item(n) \in Outcomes
  BY Constants DEF Final, C!Plain, Item, Outcomes

\* The cases of Produced.
LEMMA ProducedCases ==
    ASSUME NEW j \in Calls
    PROVE  /\ items'[j] # items[j] => Produced(j) = <<Item(items'[j])>>
           /\ items'[j] = items[j] =>
                /\ handler'[j] = handler[j] => Produced(j) = <<>>
                /\ handler'[j] # handler[j] =>
                     /\ handler'[j] = "replying" => Produced(j) = <<Final(reply'[j])>>
                     /\ handler'[j] # "replying" => Produced(j) = <<>>
  <1>1. Produced(j) =
          IF items'[j] # items[j] THEN <<Item(items'[j])>>
          ELSE IF handler'[j] = "replying" /\ handler[j] # "replying"
            THEN <<Final(reply'[j])>> ELSE <<>>
    BY DEF Produced, Item, Final
  <1> QED BY <1>1

\* What a step produces for a call is appended to what its method made.
LEMMA MadeBy ==
    ASSUME MadeTyped, NEW j \in Calls,
           made' = [i \in Calls |-> made[i] \o Produced(i)]
    PROVE  /\ Produced(j) = <<>> => made'[j] = made[j]
           /\ \A v \in Outcomes : Produced(j) = <<v>> => made'[j] = Append(made[j], v)
  <1>1. made[j] \in Seq(Outcomes) /\ made'[j] = made[j] \o Produced(j)
    BY DEF MadeTyped
  <1>2. Produced(j) = <<>> => made'[j] = made[j]
    BY <1>1, ConcatEmptySeq
  <1>3. ASSUME NEW v \in Outcomes, Produced(j) = <<v>>
        PROVE  made'[j] = Append(made[j], v)
    BY <1>1, <1>3, AppendIsConcat
  <1> QED BY <1>2, <1>3

\* A call whose goroutine does not move produces nothing.
LEMMA QuietCall ==
    ASSUME MadeTyped, NEW j \in Calls, handler'[j] = handler[j],
           items'[j] = items[j], reply'[j] = reply[j], method'[j] = method[j],
           made' = [i \in Calls |-> made[i] \o Produced(i)]
    PROVE  Quiet(j)
  BY ProducedCases, MadeBy DEF Quiet

\* A step of the server moves the goroutine of one call at most.
LEMMA ServerMoves ==
    ASSUME Ends, ReadsOK, AskedOK, MadeTyped,
           ServerRead \/ ServerTask \/ ServerExit
    PROVE  \/ s2c' = s2c /\ \A j \in Calls : Quiet(j)
           \/ \E i \in Calls : Moves(i) /\ \A j \in Calls \ {i} : Quiet(j)
  <1>1. made' = [i \in Calls |-> made[i] \o Produced(i)]
    BY DEF ServerRead, ServerTask, ServerExit, ServerStep
  <1>2. /\ DOMAIN handler = Calls /\ DOMAIN items = Calls /\ DOMAIN reply = Calls
        /\ DOMAIN method = Calls
        /\ \A i \in Calls : items[i] \in 0..MaxItems
    BY EndsTyped DEF S!TypeOK
  <1>3. ASSUME NEW i \in Calls, NEW h, handler' = [handler EXCEPT ![i] = h],
               items' = items, h # handler[i],
               \/ reply' = reply /\ method' = method
               \/ \E r : reply' = [reply EXCEPT ![i] = r] /\ method' = method
               \/ \E k : method' = [method EXCEPT ![i] = k] /\ reply' = reply
        PROVE  /\ \A j \in Calls \ {i} : Quiet(j)
               /\ handler'[i] = h /\ items'[i] = items[i]
               /\ h # "replying" => made'[i] = made[i]
               /\ h = "replying" /\ Final(reply'[i]) \in Outcomes =>
                      made'[i] = Append(made[i], Final(reply'[i]))
    <2>1. handler'[i] = h /\ items'[i] = items[i]
      BY <1>2, <1>3
    <2>2. ASSUME NEW j \in Calls \ {i} PROVE Quiet(j)
      BY <1>1, <1>2, <1>3, QuietCall
    <2>3. IF h = "replying" THEN Produced(i) = <<Final(reply'[i])>>
                            ELSE Produced(i) = <<>>
      BY <1>3, <2>1, ProducedCases
    <2> QED BY <1>1, <2>1, <2>2, <2>3, MadeBy
  <1>4. CASE ServerRead
    <2>1. PICK i \in Calls, n \in DOMAIN c2s :
              \/ /\ c2s[n].type = "request" /\ c2s[n].id = i
                 /\ S!RecvRequest(i, kind[i])
              \/ S!RecvCancel(i)
      <3>1. c_read + 1 \in 1..Len(c2s) /\ DOMAIN c2s = 1..Len(c2s)
        BY <1>4, LenProperties DEF ServerRead, ReadsOK
      <3>2. c2s[c_read + 1] \in [type : {"request", "cancel"}, id : Calls]
        BY <3>1, ElementOfSeq DEF ReadsOK
      <3>3. c2s[c_read + 1].id \in Calls
        BY <3>2
      <3> QED BY <1>4, <3>1, <3>3 DEF ServerRead, ServerStep
    <2>2. CASE c2s[n].type = "request" /\ c2s[n].id = i /\ S!RecvRequest(i, kind[i])
      <3>1. /\ handler[i] = "none" /\ handler' = [handler EXCEPT ![i] = "spawned"]
            /\ method' = [method EXCEPT ![i] = kind[i]]
            /\ UNCHANGED <<items, reply, s2c>>
        BY <2>2 DEF S!RecvRequest
      <3>2. /\ \A j \in Calls \ {i} : Quiet(j)
            /\ handler'[i] = "spawned" /\ items'[i] = items[i]
            /\ made'[i] = made[i]
        BY <1>3, <3>1
      <3>3. i \in asked
        BY <2>2 DEF AskedOK
      <3>4. Starts(i)
        BY <1>2, <3>1, <3>2, <3>3 DEF Starts
      <3> QED BY <3>1, <3>2, <3>4 DEF Moves
    <2>3. CASE S!RecvCancel(i)
      <3>1. UNCHANGED <<handler, items, reply, method, s2c>>
        BY <2>3 DEF S!RecvCancel
      <3> QED BY <1>1, <3>1, QuietCall
    <2> QED BY <2>1, <2>2, <2>3
  <1>5. CASE ServerExit
    BY <1>1, <1>5, QuietCall DEF ServerExit, ServerStep, S!Exit
  <1>6. ASSUME NEW i \in Calls, S!Task(i)
        PROVE  Moves(i) /\ \A j \in Calls \ {i} : Quiet(j)
    <2>1. CASE S!StartHandler(i)
      <3>1. PICK h \in {"replying", "working", "streaming"} :
                /\ handler[i] = "spawned" /\ handler' = [handler EXCEPT ![i] = h]
                /\ UNCHANGED <<items, method, s2c>>
                /\ h = "replying" => reply' = [reply EXCEPT ![i] = "error"]
                /\ h # "replying" =>
                       reply' = reply /\ h = IF method[i] = "unary" THEN "working"
                                                                    ELSE "streaming"
        BY <2>1 DEF S!StartHandler
      <3>2. /\ \A j \in Calls \ {i} : Quiet(j)
            /\ handler'[i] = h /\ items'[i] = items[i]
            /\ h # "replying" => made'[i] = made[i]
            /\ h = "replying" /\ Final(reply'[i]) \in Outcomes =>
                   made'[i] = Append(made[i], Final(reply'[i]))
        BY <1>3, <3>1
      <3>3. CASE h = "replying"
        <4>1. reply'[i] = "error"
          BY <1>2, <3>1, <3>3
        <4> QED BY <3>1, <3>2, <3>3, <4>1, OutcomesTyped DEF Moves, Finishes
      <3>4. CASE h # "replying"
        BY <3>1, <3>2, <3>4 DEF Moves, Starts
      <3> QED BY <3>3, <3>4
    <2>2. CASE S!Return(i)
      <3>1. PICK r \in {"error", "response", "end"} :
                /\ handler[i] \in {"working", "streaming"}
                /\ r \in {"error", IF handler[i] = "working" THEN "response" ELSE "end"}
                /\ handler' = [handler EXCEPT ![i] = "replying"]
                /\ reply' = [reply EXCEPT ![i] = r]
                /\ UNCHANGED <<items, method, s2c>>
        BY <2>2 DEF S!Return
      <3>2. /\ \A j \in Calls \ {i} : Quiet(j)
            /\ handler'[i] = "replying" /\ items'[i] = items[i]
            /\ Final(reply'[i]) \in Outcomes =>
                   made'[i] = Append(made[i], Final(reply'[i]))
        BY <1>3, <3>1
      <3>3. reply'[i] = r
        BY <1>2, <3>1
      <3> QED BY <3>1, <3>2, <3>3, OutcomesTyped DEF Moves, Finishes
    <2>3. CASE S!SendReply(i)
      <3>1. /\ handler[i] = "replying" /\ handler' = [handler EXCEPT ![i] = "done"]
            /\ UNCHANGED <<items, method, reply>>
            /\ s2c' \in {s2c, Append(s2c, S!M(reply[i], i, 0))}
        BY <2>3 DEF S!SendReply
      <3>2. /\ \A j \in Calls \ {i} : Quiet(j)
            /\ handler'[i] = "done" /\ items'[i] = items[i] /\ made'[i] = made[i]
        BY <1>3, <3>1
      <3> QED BY <3>1, <3>2 DEF Moves, Passes
    <2>4. CASE S!SendItem(i)
      <3>1. /\ handler[i] = "streaming" /\ items[i] < MaxItems
            /\ items' = [items EXCEPT ![i] = @ + 1]
            /\ UNCHANGED <<handler, reply, method>>
            /\ s2c' = Append(s2c, S!M("item", i, items[i] + 1))
        BY <2>4 DEF S!SendItem
      <3>2. /\ items'[i] = items[i] + 1 /\ items'[i] \in 1..MaxItems
            /\ items'[i] # items[i]
        BY <1>2, <3>1, Constants
      <3>3. \A j \in Calls \ {i} : Quiet(j)
        BY <1>1, <1>2, <3>1, QuietCall
      <3>4. made'[i] = Append(made[i], Item(items'[i]))
        BY <1>1, <3>2, ProducedCases, MadeBy, OutcomesTyped
      <3> QED BY <3>1, <3>2, <3>3, <3>4 DEF Moves, Yields
    <2> QED BY <1>6, <2>1, <2>2, <2>3, <2>4 DEF S!Task
  <1>7. CASE ServerTask
    BY <1>6, <1>7 DEF ServerTask, ServerStep
  <1> QED BY <1>4, <1>5, <1>7

-----------------------------------------------------------------------------
(* Steps of the client, as the server sees them. *)

ClientSteps ==
    ClientRead \/ ClientCall \/ ClientTask \/ ClientDrop \/ ClientRun \/ ClientFail

\* The actions of the client that make up its steps.
LEMMA ClientActs ==
    ASSUME Ends, ClientSteps
    PROVE  /\ UNCHANGED <<svars, c_read, made>> /\ Wrote
           /\ got' = [i \in Calls |-> got[i] \o Told(i)]
           /\ \/ /\ s_read < Len(s2c) /\ s_read' = s_read + 1
                 /\ C!Receive(s2c[s_read + 1])
              \/ /\ s_read' = s_read
                 /\ \/ \E k \in {"unary", "stream"} : C!CheckErr(k) \/ C!Register(k)
                    \/ \E i \in Calls : C!Caller(i) \/ C!CancelStream(i)
                    \/ C!Run \/ C!Fail
  <1>1. /\ UNCHANGED <<svars, c_read, made>> /\ Wrote
        /\ got' = [i \in Calls |-> got[i] \o Told(i)]
    BY DEF ClientSteps, ClientRead, ClientCall, ClientTask, ClientDrop, ClientRun,
           ClientFail, ClientStep
  <1>2. CASE ClientRead
    BY <1>1, <1>2 DEF ClientRead, ClientStep
  <1>3. CASE ClientCall
    <2> DEFINE n == next_id + entering["unary"] + entering["stream"]
    <2>1. CASE n <= MaxCalls /\ C!CheckErr(Script[n])
      <3>1. n \in 1..Len(Script)
        BY <2>1, EndsTyped, Constants DEF C!TypeOK
      <3>2. Script[n] \in {"unary", "stream"}
        BY <3>1, ElementOfSeq, GoRpcAssumption
      <3> QED BY <1>1, <1>3, <2>1, <3>2 DEF ClientCall
    <2>2. CASE \E k \in C!Kinds : C!Register(k)
      BY <1>1, <1>3, <2>2 DEF ClientCall
    <2> QED BY <1>3, <2>1, <2>2 DEF ClientCall, ClientStep
  <1>4. CASE ClientTask \/ ClientDrop \/ ClientRun \/ ClientFail
    BY <1>1, <1>4 DEF ClientTask, ClientDrop, ClientRun, ClientFail, ClientStep
  <1> QED BY <1>2, <1>3, <1>4 DEF ClientSteps

\* Calls that were asked for stay what they are, and are not asked for before
\* they have an id.
LEMMA Asks ==
    ASSUME Ends, AskedOK, ClientSteps
    PROVE  /\ asked \subseteq asked' /\ asked' \subseteq Calls
           /\ \A i \in Calls :
                  /\ kind'[i] = kind[i] \/ (i \notin asked' /\ phase[i] = "unused")
                  /\ i \in asked' => phase'[i] \notin {"unused", "failed"}
  <1>0. C!TypeOK
    BY EndsTyped
  <1>1. \A i \in Calls : i \in asked => phase[i] \notin {"unused", "failed"}
    BY DEF AskedOK
  <1>2. CASE UNCHANGED <<asked, kind, phase>>
    BY <1>0, <1>1, <1>2 DEF C!TypeOK
  <1>3. ASSUME NEW k \in {"unary", "stream"}, C!Register(k)
        PROVE  /\ asked' = asked
               /\ \A i \in Calls :
                      /\ kind'[i] = kind[i] \/ (i \notin asked' /\ phase[i] = "unused")
                      /\ i \in asked' => phase'[i] \notin {"unused", "failed"}
    <2>1. next_id \in Calls =>
              next_id \notin asked /\ phase[next_id] = "unused"
      BY <1>0 DEF C!TypeOK, Ends, CP!IInv, CP!Fresh
    <2> QED BY <1>0, <1>1, <1>3, <2>1 DEF C!Register, C!TypeOK, C!wireVars
  <1>4. ASSUME NEW i \in Calls, C!Caller(i) \/ C!CancelStream(i),
               ~UNCHANGED <<asked, kind, phase>>
        PROVE  /\ kind' = kind /\ asked \subseteq asked' /\ asked' \subseteq asked \cup {i}
               /\ \A j \in Calls : j # i => phase'[j] = phase[j]
               /\ phase'[i] \notin {"unused", "failed"} \/ i \notin asked'
    <2> USE DEF C!callVars, C!wireVars
    <2>1. DOMAIN phase = Calls
      BY <1>0 DEF C!TypeOK
    <2>2. CASE C!WriteRequest(i)
      BY <2>1, <2>2 DEF C!WriteRequest
    <2>3. CASE C!SendRequest(i)
      BY <2>1, <2>3 DEF C!SendRequest
    <2>4. CASE C!SendFailed(i)
      BY <1>1, <2>1, <2>4 DEF C!SendFailed
    <2>5. CASE \/ C!UnaryDone(i) \/ C!UnaryResponse(i) \/ C!UnaryError(i)
               \/ C!RecvDone(i) \/ C!RecvItem(i)
      <3>1. /\ kind' = kind /\ asked' = asked
            /\ \/ phase' = phase
               \/ \E h \in {"cancelling", "leaving", "done"} :
                      phase' = [phase EXCEPT ![i] = h]
        BY <2>5 DEF C!UnaryDone, C!UnaryResponse, C!UnaryError, C!RecvDone, C!RecvItem
      <3> QED BY <1>4, <2>1, <3>1
    <2>6. CASE C!SendCancel(i) \/ C!Leave(i) \/ C!CancelStream(i)
      <3>1. /\ kind' = kind /\ asked' = asked
            /\ \E h \in {"cancelling", "leaving", "done", "open"} :
                   phase' = [phase EXCEPT ![i] = h]
        BY <2>6 DEF C!SendCancel, C!Leave, C!CancelStream
      <3> QED BY <1>4, <2>1, <3>1
    <2> QED BY <1>4, <2>2, <2>3, <2>4, <2>5, <2>6 DEF C!Caller
  <1>5. (\E k \in {"unary", "stream"} : C!CheckErr(k)) \/ C!Run \/ C!Fail
        \/ (s_read < Len(s2c) /\ C!Receive(s2c[s_read + 1])) =>
            UNCHANGED <<asked, kind, phase>>
    BY DEF C!CheckErr, C!Run, C!Fail, C!Receive, C!RunStart, C!Handle, C!Unlist,
           C!NotifyAll, C!callVars, C!wireVars
  <1>6. CASE \E k \in {"unary", "stream"} : C!Register(k)
    BY <1>0, <1>3, <1>6 DEF C!TypeOK
  <1>7. CASE (\E i \in Calls : C!Caller(i) \/ C!CancelStream(i))
             /\ ~UNCHANGED <<asked, kind, phase>>
    <2>1. PICK i \in Calls : C!Caller(i) \/ C!CancelStream(i)
      BY <1>7
    <2>2. /\ kind' = kind /\ asked \subseteq asked'
          /\ asked' \subseteq asked \cup {i}
          /\ \A j \in Calls : j # i => phase'[j] = phase[j]
          /\ phase'[i] \notin {"unused", "failed"} \/ i \notin asked'
      BY <1>4, <1>7, <2>1
    <2>3. asked' \subseteq Calls
      BY <1>0, <2>2 DEF C!TypeOK
    <2>4. ASSUME NEW j \in Calls, j \in asked'
          PROVE  phase'[j] \notin {"unused", "failed"}
      BY <1>1, <2>2, <2>4
    <2> QED BY <2>2, <2>3, <2>4
  <1> QED BY <1>0, <1>2, <1>5, <1>6, <1>7, ClientActs DEF C!TypeOK

-----------------------------------------------------------------------------
(* The two ends keep their invariants. *)

\* A message on its way fits what the client knows: its call was asked for
\* and is not over, and what was read of the call are the items before it.
LEMMA Message ==
    ASSUME Ends, ReadsOK, AskedOK, ServerHalf, ClientHalf, s_read < Len(s2c),
           NEW m, m = s2c[s_read + 1]
    PROVE  /\ m \in C!ServerMsg /\ m.id \in Calls /\ C!Fits(m)
           /\ s_read + 1 \in DOMAIN s2c /\ WellWritten(m, s_read + 1)
           /\ handler[m.id] \in {"streaming", "replying", "done"}
           /\ m.type = "item" => m.body \in 1..items[m.id]
           /\ \A n \in 1..s_read : s2c[n].id = m.id =>
                  /\ s2c[n].type = "item"
                  /\ m.type = "item" => s2c[n].body < m.body
  <1>1. /\ s_read + 1 \in DOMAIN s2c /\ s_read \in Nat
        /\ 1..s_read \subseteq DOMAIN s2c /\ 1..s_read = 1..((s_read + 1) - 1)
        /\ m \in C!ServerMsg /\ m \in S!Msg /\ m.id \in Calls /\ m.body \in Nat
    <2>1. s_read + 1 \in DOMAIN s2c /\ s_read \in Nat /\ 1..s_read \subseteq DOMAIN s2c
      BY EndsTyped DEF ReadsOK
    <2>2. m \in S!Msg /\ m \in C!ServerMsg
      BY <2>1, EndsTyped
    <2> QED BY <2>1, <2>2 DEF S!Msg
  <1>2. WellWritten(m, s_read + 1) /\ SP!Accounted(m)
    BY <1>1 DEF ServerHalf, Ends, SP!IInv, SP!WrittenByTask
  <1>3. \A n \in 1..s_read : s2c[n].id = m.id =>
            /\ s2c[n].type = "item"
            /\ m.type = "item" => s2c[n].body < m.body
    BY <1>1 DEF Ends, SP!IInv, SP!CallsEndOnce
  <1>4. /\ handler[m.id] \in {"streaming", "replying", "done"}
        /\ m.id \in asked /\ MadeOK(m.id) /\ items[m.id] \in Nat
    BY <1>1, <1>2, EndsTyped DEF SP!Accounted, AskedOK, ServerHalf, S!TypeOK
  <1>5. m.type = "item" => /\ m.body \in 1..items[m.id] /\ kind[m.id] # "unary"
    BY <1>1, <1>2, <1>4 DEF SP!Accounted, WellWritten, MadeOK
  <1>6. m.type # "item" => /\ m.type \in Replies(kind[m.id]) /\ m.body = 0
    BY <1>2, <1>4 DEF WellWritten, MadeOK, Returned
  <1>7. m.id \notin over
    <2>1. ASSUME m.id \in over PROVE FALSE
      <3>1. PICK n \in 1..s_read : s2c[n].id = m.id /\ s2c[n].type # "item"
        BY <2>1 DEF ClientHalf, OverOK
      <3> QED BY <1>3, <3>1
    <2> QED BY <2>1
  <1>8. kind[m.id] \in {"unary", "stream"} /\ m.type \in {"response", "item", "end", "error"}
    BY <1>1, EndsTyped DEF C!TypeOK, C!ServerMsg
  <1>9. C!Fits(m)
    BY <1>1, <1>4, <1>5, <1>6, <1>7, <1>8 DEF C!Fits, Replies
  <1> QED BY <1>1, <1>2, <1>3, <1>4, <1>5, <1>9

ServerMove == ServerRead \/ ServerTask \/ ServerExit

\* A step of the composition is one of the server or one of the client.
LEMMA Steps ==
    ASSUME [Next]_vars
    PROVE  ServerMove \/ ClientSteps \/ UNCHANGED vars
  BY DEF Next, ServerMove, ClientSteps

\* A packet that is read is one.
LEMMA Packet ==
    ASSUME ReadsOK, c_read < Len(c2s)
    PROVE  /\ c_read + 1 \in DOMAIN c2s
           /\ c2s[c_read + 1].id \in Calls
           /\ c2s[c_read + 1].type \in {"request", "cancel"}
  <1>1. c_read + 1 \in DOMAIN c2s /\ c_read + 1 \in 1..Len(c2s)
    BY LenProperties DEF ReadsOK
  <1>2. c2s[c_read + 1] \in [type : {"request", "cancel"}, id : Calls]
    BY <1>1, ElementOfSeq DEF ReadsOK
  <1> QED BY <1>1, <1>2, Zenon

\* A step of the composition is one of each end, or none.
LEMMA StepOfEnds ==
    ASSUME IInv, [Next]_vars
    PROVE  [SP!Next]_(SP!vars) /\ [CP!Next]_(CP!vars)
  <1>0. Ends /\ ReadsOK /\ AskedOK /\ ServerHalf /\ ClientHalf
    BY DEF IInv
  <1>1. CASE ServerMove
    <2>1. UNCHANGED cvars
      BY <1>1 DEF ServerMove, ServerRead, ServerTask, ServerExit, ServerStep
    <2>2. ASSUME ServerRead PROVE S!Next
      <3> DEFINE p == c2s[c_read + 1]
      <3>1. p.id \in Calls /\ kind[p.id] \in {"unary", "stream"}
        BY <1>0, <2>2, Packet, EndsTyped DEF ServerRead, C!TypeOK
      <3>2. S!RecvRequest(p.id, kind[p.id]) \/ S!RecvCancel(p.id)
        BY <2>2 DEF ServerRead, ServerStep
      <3> QED BY <3>1, <3>2 DEF S!Next, S!Peer
    <2>3. ASSUME ServerTask \/ ServerExit PROVE S!Next
      BY <2>3 DEF ServerTask, ServerExit, ServerStep, S!Next
    <2>4. S!Next
      BY <1>1, <2>2, <2>3 DEF ServerMove
    <2> QED BY <2>1, <2>4, SameServer DEF cvars, CP!vars
  <1>2. CASE ClientSteps
    <2>1. UNCHANGED svars
      BY <1>0, <1>2, ClientActs
    <2>2. ASSUME s_read < Len(s2c), C!Receive(s2c[s_read + 1]) PROVE C!Next
      BY <1>0, <2>2, Message DEF C!Next
    <2>3. C!Next
      BY <1>0, <1>2, <2>2, ClientActs DEF C!Next, C!Calling, C!Abandon
    <2> QED BY <2>1, <2>3, SameClient DEF svars, SP!vars
  <1>3. CASE UNCHANGED vars
    BY <1>3 DEF vars, svars, cvars, SP!vars, CP!vars
  <1> QED BY <1>1, <1>2, <1>3, Steps

\* So the two ends keep their invariants.
LEMMA NextEnds ==
    ASSUME IInv, [Next]_vars
    PROVE  Ends'
  <1>1. [SP!Next]_(SP!vars) /\ [CP!Next]_(CP!vars) /\ SP!IInv /\ CP!IInv
    BY StepOfEnds DEF IInv, Ends
  <1>2. SP!IInv'
    BY <1>1, SP!NextTyped, SP!NextCancellable, SP!NextOrdered, Constants DEF SP!IInv
  <1>3. CP!IInv'
    BY <1>1, CP!NextTyped, CP!NextFresh, CP!NextInHand, CP!NextListed,
       CP!NextInProgress, Constants DEF CP!IInv
  <1> QED BY <1>2, <1>3 DEF Ends

-----------------------------------------------------------------------------
(* The server half. *)

\* Sequences of messages that grow by one at most.
LEMMA Grows ==
    ASSUME Ends, s2c' = s2c \/ \E m \in S!Msg : s2c' = Append(s2c, m)
    PROVE  /\ s2c' \in Seq(S!Msg)
           /\ Len(s2c') \in Nat /\ Len(s2c) \in Nat /\ Len(s2c') >= Len(s2c)
           /\ DOMAIN s2c' = 1..Len(s2c') /\ DOMAIN s2c = 1..Len(s2c)
           /\ \A n \in DOMAIN s2c : n \in DOMAIN s2c' /\ s2c'[n] = s2c[n]
  <1>1. s2c \in Seq(S!Msg) /\ Len(s2c) \in Nat /\ DOMAIN s2c = 1..Len(s2c)
    BY EndsTyped
  <1>2. CASE s2c' = s2c
    BY <1>1, <1>2
  <1>3. ASSUME NEW m \in S!Msg, s2c' = Append(s2c, m)
        PROVE  /\ s2c' \in Seq(S!Msg) /\ Len(s2c') = Len(s2c) + 1
               /\ \A n \in 1..Len(s2c) : s2c'[n] = s2c[n]
    <2>1. /\ Append(s2c, m) \in Seq(S!Msg) /\ Len(Append(s2c, m)) = Len(s2c) + 1
          /\ \A n \in 1..Len(s2c) : Append(s2c, m)[n] = s2c[n]
          /\ Append(s2c, m)[Len(s2c) + 1] = m
      BY <1>1, AppendProperties
    <2> QED BY <1>3, <2>1
  <1>4. s2c' \in Seq(S!Msg) => Len(s2c') \in Nat /\ DOMAIN s2c' = 1..Len(s2c')
    BY LenProperties
  <1> QED BY <1>1, <1>2, <1>3, <1>4

\* Types of what a call's goroutine keeps.
LEMMA CallTyped ==
    ASSUME Ends, NEW i \in Calls
    PROVE  /\ items[i] \in Nat /\ items[i] <= MaxItems
           /\ kind[i] \in {"unary", "stream"}
           /\ handler[i] \in {"none", "refused", "spawned", "working", "streaming",
                              "replying", "done"}
           /\ result[i] \in C!Value
           /\ resp[i] \in Seq(C!Value) /\ errc[i] \in Seq(C!Value)
           /\ events[i] \in Seq(C!Value)
  <1>1. /\ items[i] \in 0..MaxItems
        /\ handler[i] \in {"none", "refused", "spawned", "working", "streaming",
                           "replying", "done"}
    BY EndsTyped DEF S!TypeOK
  <1>2. /\ kind[i] \in {"unary", "stream"} /\ result[i] \in C!Value
        /\ resp[i] \in Seq(C!Value) /\ errc[i] \in Seq(C!Value)
        /\ events[i] \in Seq(C!Value)
    BY EndsTyped DEF C!TypeOK
  <1> QED BY <1>1, <1>2, Constants

\* A message stays well written if calls that are done stay so.
LEMMA WrittenKept ==
    ASSUME Ends, s2c' = s2c \/ \E m \in S!Msg : s2c' = Append(s2c, m),
           \A j \in Calls : handler[j] = "done" => Quiet(j),
           NEW m \in S!Msg, NEW n \in 1..(Len(s2c) + 1), WellWritten(m, n)
    PROVE  WellWritten(m, n)'
  <1>1. \A k \in 1..(n - 1) : s2c'[k] = s2c[k]
    BY Grows
  <1>2. m.id \in Calls
    BY DEF S!Msg
  <1>3. m.type # "item" => Quiet(m.id)
    BY <1>2 DEF WellWritten
  <1> QED BY <1>1, <1>3 DEF WellWritten, Quiet, S!M

\* What the server writes is as it should be, if a new message is.
LEMMA NextWritten ==
    ASSUME Ends, ServerHalf,
           \A j \in Calls : handler[j] = "done" => Quiet(j),
           \/ s2c' = s2c
           \/ \E m \in S!Msg, l \in Nat :
                  /\ l = Len(s2c) + 1 /\ s2c' = Append(s2c, m)
                  /\ WellWritten(m, l)'
    PROVE  /\ \A n \in DOMAIN s2c' : WellWritten(s2c[n], n)'
           /\ \A j \in Calls : items'[j] = items[j] => LastItemWritten(j)'
  <1>1. /\ Len(s2c) \in Nat /\ DOMAIN s2c = 1..Len(s2c)
        /\ \A n \in DOMAIN s2c : n \in DOMAIN s2c' /\ s2c'[n] = s2c[n]
    BY Grows
  <1>2. ASSUME NEW n \in DOMAIN s2c PROVE WellWritten(s2c[n], n)'
    <2>1. PICK m \in S!Msg : m = s2c[n] /\ WellWritten(m, n)
      BY EndsTyped DEF ServerHalf
    <2>2. s2c'[n] = m
      BY <1>1, <2>1
    <2>3. WellWritten(m, n)'
      BY <1>1, <2>1, WrittenKept
    <2> QED BY <2>2, <2>3
  <1>3. ASSUME NEW m \in S!Msg, NEW l \in Nat, l = Len(s2c) + 1,
               s2c' = Append(s2c, m), WellWritten(m, l)'
        PROVE  \A n \in DOMAIN s2c' : WellWritten(s2c[n], n)'
    <2>1. DOMAIN s2c' = DOMAIN s2c \cup {l} /\ s2c'[l] = m
      <3>1. s2c \in Seq(SP!Msg) /\ m \in SP!Msg
        BY EndsTyped, SameServer
      <3> QED BY <1>3, <3>1, SP!Appended
    <2>2. WellWritten(m, l)'
      BY <1>3
    <2>3. WellWritten(s2c[l], l)'
      BY <2>1, <2>2
    <2> QED BY <1>2, <2>1, <2>3
  <1>4. ASSUME NEW j \in Calls, items'[j] = items[j] PROVE LastItemWritten(j)'
    BY <1>1, <1>4 DEF ServerHalf, LastItemWritten, S!M
  <1> QED BY <1>2, <1>3, <1>4

\* A call whose goroutine moves has made what it should.
LEMMA MoveMade ==
    ASSUME Ends, AskedOK, ServerHalf, kind' = kind, NEW i \in Calls, Moves(i)
    PROVE  MadeOK(i)'
  <1>1. /\ items[i] \in Nat /\ kind[i] \in {"unary", "stream"} /\ MadeOK(i)
        /\ handler[i] # "none" => method[i] = kind[i]
        /\ made[i] \in Seq(Outcomes) /\ Len(made[i]) \in Nat
    BY CallTyped, LenProperties DEF ServerHalf, AskedOK, MadeTyped
  <1>2. ASSUME NEW v \in Outcomes, made'[i] = Append(made[i], v), ~Returned(i)
        PROVE  /\ Len(made'[i]) = items[i] + 1
               /\ \A n \in 1..items[i] : made'[i][n] = Item(n)
               /\ made'[i][items[i] + 1] = v
    <2>1. Len(made[i]) = items[i] /\ \A n \in 1..items[i] : made[i][n] = Item(n)
      BY <1>1, <1>2 DEF MadeOK
    <2>2. /\ Len(Append(made[i], v)) = Len(made[i]) + 1
          /\ \A n \in 1..Len(made[i]) : Append(made[i], v)[n] = made[i][n]
          /\ Append(made[i], v)[Len(made[i]) + 1] = v
      BY <1>1, AppendProperties
    <2> QED BY <1>2, <2>1, <2>2
  <1>3. CASE Starts(i)
    BY <1>1, <1>3 DEF Starts, MadeOK, Returned
  <1>4. CASE Yields(i)
    <2>1. PICK v \in Outcomes : v = Item(items'[i])
      BY <1>4, OutcomesTyped DEF Yields
    <2>2. /\ Len(made'[i]) = items[i] + 1
          /\ \A n \in 1..items[i] : made'[i][n] = Item(n)
          /\ made'[i][items[i] + 1] = Item(items[i] + 1)
      BY <1>2, <1>4, <2>1 DEF Yields, Returned
    <2>3. \A n \in 1..items'[i] : made'[i][n] = Item(n)
      BY <1>1, <1>4, <2>2 DEF Yields
    <2> QED BY <1>1, <1>4, <2>2, <2>3 DEF Yields, MadeOK, Returned
  <1>5. CASE Finishes(i)
    <2>1. PICK v \in Outcomes : v = Final(reply'[i])
      BY <1>5, OutcomesTyped DEF Finishes
    <2>2. /\ Len(made'[i]) = items[i] + 1
          /\ \A n \in 1..items[i] : made'[i][n] = Item(n)
          /\ made'[i][items[i] + 1] = Final(reply'[i])
      BY <1>2, <1>5, <2>1 DEF Finishes, Returned
    <2>3. reply'[i] \in Replies(kind[i])
      BY <1>1, <1>5 DEF Finishes, MadeOK, Replies
    <2> QED BY <1>1, <1>5, <2>2, <2>3 DEF Finishes, MadeOK, Returned, Final
  <1>6. CASE Passes(i)
    BY <1>1, <1>6 DEF Passes, MadeOK, Returned, Final
  <1> QED BY <1>3, <1>4, <1>5, <1>6 DEF Moves

\* One whose goroutine does not move keeps it, too.
LEMMA QuietMade ==
    ASSUME ServerHalf, NEW j \in Calls, Quiet(j), kind'[j] = kind[j]
    PROVE  MadeOK(j)'
  BY DEF ServerHalf, Quiet, MadeOK, Returned, Final, Item

\* What a call's goroutine writes is as it should be.
LEMMA MoveWrites ==
    ASSUME Ends, ServerHalf, NEW i \in Calls, Moves(i),
           \A j \in Calls \ {i} : Quiet(j)
    PROVE  /\ \A j \in Calls : handler[j] = "done" => Quiet(j)
           /\ \/ s2c' = s2c
              \/ \E m \in S!Msg, l \in Nat :
                     /\ l = Len(s2c) + 1 /\ s2c' = Append(s2c, m)
                     /\ WellWritten(m, l)'
           /\ LastItemWritten(i)'
  <1>1. /\ items[i] \in Nat /\ MadeOK(i) /\ LastItemWritten(i)
        /\ s2c \in Seq(S!Msg) /\ Len(s2c) \in Nat /\ DOMAIN s2c = 1..Len(s2c)
    BY CallTyped, EndsTyped DEF ServerHalf
  <1>2. \A j \in Calls : handler[j] = "done" => Quiet(j)
    BY DEF Moves, Starts, Yields, Finishes, Passes
  <1>3. PICK l \in Nat : l = Len(s2c) + 1
    BY <1>1
  <1>4. ASSUME NEW m \in S!Msg, s2c' = Append(s2c, m)
        PROVE  /\ \A k \in 1..(l - 1) : k \in DOMAIN s2c' /\ s2c'[k] = s2c[k]
               /\ l \in DOMAIN s2c' /\ s2c'[l] = m
    <2>1. /\ DOMAIN s2c' = DOMAIN s2c \cup {l} /\ s2c'[l] = m
          /\ \A k \in DOMAIN s2c : s2c'[k] = s2c[k]
      BY <1>1, <1>3, <1>4, SameServer, SP!Appended
    <2> QED BY <1>1, <1>3, <2>1
  <1>5. items[i] # 0 => \E k \in 1..(l - 1) : s2c[k] = S!M("item", i, items[i])
    BY <1>1, <1>3 DEF LastItemWritten
  <1>6. CASE Starts(i) \/ Finishes(i)
    BY <1>1, <1>2, <1>6 DEF Starts, Finishes, LastItemWritten, S!M
  <1>7. CASE Yields(i)
    <2>1. PICK b \in 1..MaxItems : b = items'[i] /\ b = items[i] + 1
      BY <1>7 DEF Yields
    <2>2. PICK m \in S!Msg : m = S!M("item", i, b)
      <3>1. b \in 0..MaxItems
        BY Constants
      <3> QED BY <3>1 DEF S!Msg, S!M
    <2>3. s2c' = Append(s2c, m) /\ m.type = "item" /\ m.id = i /\ m.body = b
      BY <1>7, <2>1, <2>2 DEF Yields, S!M
    <2>4. \A k \in 1..(l - 1) : s2c'[k] = s2c[k]
      BY <1>4, <2>3
    <2>5. m.body # 1 =>
              \E k \in 1..(l - 1) : s2c'[k] = S!M("item", m.id, m.body - 1)
      <3>1. b # 1 => items[i] # 0 /\ b - 1 = items[i]
        BY <1>1, <2>1
      <3>2. m.body = b /\ m.id = i
        BY <2>3
      <3> QED BY <1>5, <2>4, <3>1, <3>2
    <2>6. WellWritten(m, l)'
      <3>1. m.type = "item" /\ m.body # 0
        BY <2>3
      <3> QED BY <2>5, <3>1 DEF WellWritten, S!M
    <2>7. LastItemWritten(i)'
      BY <1>4, <2>1, <2>2, <2>3 DEF LastItemWritten, S!M
    <2> QED BY <1>2, <1>3, <2>3, <2>6, <2>7
  <1>8. CASE Passes(i)
    <2>1. LastItemWritten(i)' \/ s2c' # s2c
      BY <1>1, <1>8 DEF Passes, LastItemWritten, S!M
    <2>2. CASE s2c' = s2c
      BY <1>2, <2>1, <2>2
    <2>3. CASE s2c' = Append(s2c, S!M(reply[i], i, 0))
      <3>1. PICK t \in {"response", "end", "error"} : t = reply[i]
        BY <1>1, <1>8 DEF Passes, MadeOK, Returned, Replies
      <3>2. PICK m \in S!Msg : m = S!M(t, i, 0)
        <4>1. 0 \in 0..MaxItems
          BY Constants
        <4> QED BY <3>1, <4>1 DEF S!Msg, S!M
      <3>3. s2c' = Append(s2c, m) /\ m.type = t /\ m.id = i /\ m.body = 0
        BY <2>3, <3>1, <3>2 DEF S!M
      <3>4. \A k \in 1..(l - 1) : k \in DOMAIN s2c' /\ s2c'[k] = s2c[k]
        BY <1>4, <3>3
      <3>5. /\ items'[i] = items[i] /\ reply'[i] = t /\ handler'[i] = "done"
        BY <1>8, <3>1 DEF Passes
      <3>6. WellWritten(m, l)'
        BY <1>5, <3>3, <3>4, <3>5 DEF WellWritten, S!M
      <3>7. LastItemWritten(i)'
        BY <1>5, <3>4, <3>5 DEF LastItemWritten, S!M
      <3> QED BY <1>2, <1>3, <3>3, <3>6, <3>7
    <2> QED BY <1>8, <2>2, <2>3 DEF Passes
  <1> QED BY <1>6, <1>7, <1>8 DEF Moves

\* So the server keeps its half, what was asked of it and what it reads.
LEMMA ServerServer ==
    ASSUME IInv, ServerMove
    PROVE  ServerHalf' /\ AskedOK' /\ ReadsOK'
  <1>0. Ends /\ ReadsOK /\ AskedOK /\ ServerHalf
    BY DEF IInv
  <1>1. /\ UNCHANGED cvars /\ UNCHANGED <<c2s, s_read>>
        /\ made' = [i \in Calls |-> made[i] \o Produced(i)]
    BY DEF ServerMove, ServerRead, ServerTask, ServerExit, ServerStep
  <1>2. kind' = kind /\ asked' = asked /\ phase' = phase
    BY <1>1 DEF cvars
  <1>3. \/ s2c' = s2c /\ \A j \in Calls : Quiet(j)
        \/ \E i \in Calls : Moves(i) /\ \A j \in Calls \ {i} : Quiet(j)
    BY <1>0, ServerMoves DEF ServerMove, ServerHalf
  <1>4. \A j \in Calls : MadeOK(j)'
    BY <1>0, <1>2, <1>3, MoveMade, QuietMade
  <1> DEFINE Writes ==
        /\ \A j \in Calls : handler[j] = "done" => Quiet(j)
        /\ \/ s2c' = s2c
           \/ \E m \in S!Msg, l \in Nat :
                  /\ l = Len(s2c) + 1 /\ s2c' = Append(s2c, m)
                  /\ WellWritten(m, l)'
        /\ \A j \in Calls : items'[j] # items[j] => LastItemWritten(j)'
  <1>5. Writes
    <2>1. CASE s2c' = s2c /\ \A j \in Calls : Quiet(j)
      BY <2>1 DEF Quiet
    <2>2. ASSUME NEW i \in Calls, Moves(i), \A j \in Calls \ {i} : Quiet(j)
          PROVE  Writes
      BY <1>0, <2>2, MoveWrites DEF Quiet
    <2> QED BY <1>3, <2>1, <2>2
  <1>6. /\ \A n \in DOMAIN s2c' : WellWritten(s2c[n], n)'
        /\ \A j \in Calls : LastItemWritten(j)'
    BY <1>0, <1>5, NextWritten
  <1>7. MadeTyped'
    <2>1. ASSUME NEW j \in Calls PROVE made'[j] \in Seq(Outcomes)
      <3>1. made[j] \in Seq(Outcomes)
        BY <1>0 DEF ServerHalf, MadeTyped
      <3>2. made'[j] = made[j] \/ \E v \in Outcomes : made'[j] = Append(made[j], v)
        <4>1. CASE Quiet(j)
          BY <4>1 DEF Quiet
        <4>2. CASE Starts(j) \/ Passes(j)
          BY <4>2 DEF Starts, Passes
        <4>3. CASE Yields(j)
          BY <4>3, OutcomesTyped DEF Yields
        <4>4. CASE Finishes(j)
          BY <4>4, OutcomesTyped DEF Finishes
        <4> QED BY <1>3, <4>1, <4>2, <4>3, <4>4 DEF Moves
      <3>3. \A v \in Outcomes : Append(made[j], v) \in Seq(Outcomes)
        BY <3>1, AppendProperties
      <3> HIDE DEF Writes
      <3> QED BY <3>1, <3>2, <3>3
    <2> QED BY <1>1, <2>1 DEF MadeTyped
  <1>8. ServerHalf'
    BY <1>4, <1>6, <1>7 DEF ServerHalf
  <1>9. AskedOK'
    <2>1. refusing' = refusing
      BY DEF ServerMove, ServerRead, ServerTask, ServerExit, ServerStep,
             S!RecvRequest, S!RecvCancel, S!Task, S!StartHandler, S!Return,
             S!SendReply, S!SendItem, S!Exit
    <2>2. \A i \in Calls :
              /\ handler'[i] # "none" => i \in asked /\ method'[i] = kind[i]
              /\ handler'[i] # "refused"
      BY <1>0, <1>3
         DEF AskedOK, Quiet, Moves, Starts, Yields, Finishes, Passes
    <2> QED BY <1>0, <1>1, <1>2, <2>1, <2>2 DEF AskedOK
  <1>10. ReadsOK'
    <2>1. c_read' \in 0..Len(c2s)
      <3>1. c_read \in 0..Len(c2s) /\ Len(c2s) \in Nat
        BY <1>0, LenProperties DEF ReadsOK
      <3>2. c_read' = c_read \/ (c_read < Len(c2s) /\ c_read' = c_read + 1)
        BY DEF ServerMove, ServerRead, ServerTask, ServerExit
      <3> QED BY <3>1, <3>2
    <2>2. s_read \in 0..Len(s2c')
      BY <1>0, <1>5, Grows DEF ReadsOK
    <2> QED BY <1>0, <1>1, <2>1, <2>2 DEF ReadsOK
  <1> QED BY <1>8, <1>9, <1>10

\* A step of the client leaves the server's half alone, and asks for its own
\* calls only.
LEMMA ClientServer ==
    ASSUME IInv, ClientSteps, Ends'
    PROVE  ServerHalf' /\ AskedOK' /\ ReadsOK'
  <1>0. Ends /\ ReadsOK /\ AskedOK /\ ServerHalf /\ S!TypeOK
    BY EndsTyped DEF IInv
  <1>1. UNCHANGED <<svars, c_read, made>> /\ Wrote
    BY <1>0, ClientActs
  <1>2. /\ asked \subseteq asked' /\ asked' \subseteq Calls
        /\ \A i \in Calls :
               /\ kind'[i] = kind[i] \/ (i \notin asked' /\ phase[i] = "unused")
               /\ i \in asked' => phase'[i] \notin {"unused", "failed"}
    BY <1>0, Asks
  <1>3. \A i \in Calls : handler[i] # "none" => kind'[i] = kind[i]
    BY <1>0, <1>2 DEF AskedOK
  <1>4. ServerHalf'
    <2>1. ASSUME NEW i \in Calls PROVE MadeOK(i)'
      <3>1. MadeOK(i) /\ UNCHANGED <<handler, items, made, reply>>
        BY <1>0, <1>1 DEF ServerHalf, svars
      <3>2. CASE handler[i] # "none"
        BY <1>3, <3>1, <3>2 DEF MadeOK, Returned, Item, Final
      <3>3. CASE handler[i] = "none"
        BY <3>1, <3>3 DEF MadeOK, Returned, Item, Final
      <3> QED BY <3>2, <3>3
    <2>2. \A n \in DOMAIN s2c : WellWritten(s2c[n], n)'
      BY <1>0, <1>1 DEF ServerHalf, WellWritten, S!M, svars
    <2>3. \A i \in Calls : LastItemWritten(i)'
      BY <1>0, <1>1 DEF ServerHalf, LastItemWritten, S!M, svars
    <2>4. MadeTyped' /\ s2c' = s2c
      BY <1>0, <1>1 DEF ServerHalf, MadeTyped, svars
    <2> QED BY <2>1, <2>2, <2>3, <2>4 DEF ServerHalf
  <1>5. /\ c2s' \in Seq([type : {"request", "cancel"}, id : Calls])
        /\ Len(c2s') \in Nat /\ Len(c2s') >= Len(c2s) /\ Len(c2s) \in Nat
        /\ \A n \in DOMAIN c2s' : c2s'[n].type = "request" => c2s'[n].id \in asked'
    <2> DEFINE P == [type : {"request", "cancel"}, id : Calls]
    <2>1. c2s \in Seq(P) /\ Len(c2s) \in Nat /\ DOMAIN c2s = 1..Len(c2s)
      BY <1>0, LenProperties DEF ReadsOK
    <2>2. \A n \in DOMAIN c2s : c2s[n].type = "request" => c2s[n].id \in asked'
      BY <1>0, <1>2 DEF AskedOK
    <2>3. CASE c2s' = c2s
      BY <2>1, <2>2, <2>3
    <2>4. CASE c2s' # c2s
      <3>1. given_up' \subseteq Calls
        BY EndsTyped DEF Ends, CP!IInv, CP!TypeOK
      <3>2. PICK p \in P : c2s' = Append(c2s, p)
                           /\ (p.type = "request" => p.id \in asked')
        BY <1>1, <1>2, <2>4, <3>1 DEF Wrote
      <3>3. /\ c2s' \in Seq(P) /\ Len(c2s') = Len(c2s) + 1
            /\ \A n \in 1..Len(c2s) : c2s'[n] = c2s[n]
            /\ c2s'[Len(c2s) + 1] = p
        BY <2>1, <3>2, AppendProperties
      <3>4. \A n \in DOMAIN c2s' : n \in DOMAIN c2s \/ n = Len(c2s) + 1
        BY <2>1, <3>3, LenProperties
      <3> QED BY <2>1, <2>2, <3>2, <3>3, <3>4
    <2> QED BY <2>3, <2>4
  <1>6. AskedOK'
    BY <1>0, <1>1, <1>2, <1>3, <1>5 DEF AskedOK, svars
  <1>7. s_read' \in 0..Len(s2c)
    BY <1>0, ClientActs, EndsTyped DEF ReadsOK
  <1>8. ReadsOK'
    BY <1>0, <1>1, <1>5, <1>7 DEF ReadsOK, svars
  <1> QED BY <1>4, <1>6, <1>8

-----------------------------------------------------------------------------
(* Outcomes that are due. *)

\* What a caller may be told: a value that says what it is.
LEMMA DueValue ==
    ASSUME Ends, ServerHalf, NEW i \in Calls, NEW v, NEW k \in Nat, Due(i, v, k)
    PROVE  /\ v \in C!Value
           /\ v.type \in {"ok", "item", "closed", "error", "down"}
           /\ v.type = "item" => /\ v = Item(k) /\ k \in 1..items[i]
                                 /\ kind[i] = "stream"
           /\ v = C!Down => recvErr
  <1>1. /\ items[i] \in Nat /\ items[i] <= MaxItems /\ MadeOK(i)
        /\ made[i] \in Seq(Outcomes) /\ kind[i] \in {"unary", "stream"}
        /\ MaxItems \in Nat
    BY CallTyped, Constants DEF ServerHalf, MadeTyped
  <1>2. CASE v = C!Down /\ recvErr
    BY <1>1, <1>2 DEF C!Down, C!Plain, C!Value
  <1>3. CASE k \in 1..Len(made[i]) /\ v = Contract!Seen(made[i][k])
    <2>1. CASE k \in 1..items[i]
      <3>1. made[i][k] = Item(k) /\ k \in 0..MaxItems /\ kind[i] # "unary"
        BY <1>1, <2>1 DEF MadeOK
      <3>2. v = Item(k)
        BY <1>3, <3>1 DEF Contract!Seen, Item
      <3>3. v \in C!Value
        BY <3>1, <3>2 DEF Item, C!Value
      <3>4. v.type = "item"
        BY <3>2 DEF Item
      <3> QED BY <1>1, <2>1, <3>1, <3>2, <3>3, <3>4 DEF C!Down, C!Plain
    <2>2. CASE k \notin 1..items[i]
      <3>1. Returned(i) /\ k = items[i] + 1
        BY <1>1, <1>3, <2>2 DEF MadeOK
      <3>2. PICK t \in {"response", "end", "error"} : t = reply[i] /\ made[i][k] = Final(t)
        BY <1>1, <3>1 DEF MadeOK, Replies
      <3>3. v = Contract!Seen(Final(t))
        BY <1>3, <3>2
      <3>4. v \in {C!Plain("ok"), C!Plain("closed"), C!Plain("error")}
        BY <3>3 DEF Contract!Seen, Final, C!Plain, C!Closed
      <3> QED BY <1>1, <3>4 DEF C!Plain, C!Value, C!Down
    <2> QED BY <2>1, <2>2
  <1> QED BY <1>2, <1>3 DEF Due

\* The n-th item is due when the method has sent it.
LEMMA ItemDue ==
    ASSUME Ends, ServerHalf, NEW i \in Calls, NEW k \in 1..items[i]
    PROVE  Due(i, Item(k), k)
  <1>1. /\ items[i] \in Nat /\ MadeOK(i) /\ made[i][k] = Item(k)
        /\ Len(made[i]) >= items[i]
    BY CallTyped DEF ServerHalf, MadeOK
  <1>2. k \in 1..Len(made[i])
    BY <1>1, LenProperties DEF ServerHalf, MadeTyped
  <1> QED BY <1>1, <1>2 DEF Due, Contract!Seen, Item

\* The last outcome is due after the last item.
LEMMA FinalDue ==
    ASSUME Ends, ServerHalf, NEW i \in Calls, Returned(i), NEW k, k = items[i] + 1
    PROVE  Due(i, Contract!Seen(Final(reply[i])), k)
  <1>1. /\ items[i] \in Nat /\ made[i][k] = Final(reply[i])
        /\ Len(made[i]) = items[i] + 1
    BY CallTyped DEF ServerHalf, MadeOK
  <1> QED BY <1>1 DEF Due

\* Of a queue that holds items only nothing is missing.
LEMMA HasRoom ==
    ASSUME Ends, ServerHalf, NEW i \in Calls, NEW q \in Seq(C!Value), NEW g \in Nat,
           DueFrom(i, q, g), ItemsOnly(q)
    PROVE  Len(q) < StreamCap
  <1>1. /\ Len(q) \in Nat /\ DOMAIN q = 1..Len(q) /\ items[i] \in Nat
        /\ items[i] <= MaxItems /\ MaxItems < StreamCap
        /\ StreamCap \in Nat /\ MaxItems \in Nat
    BY LenProperties, CallTyped, GoRpcAssumption
  <1>2. CASE Len(q) = 0
    BY <1>1, <1>2
  <1>3. CASE Len(q) # 0
    <2>1. Len(q) \in DOMAIN q
      BY <1>1, <1>3
    <2>v. PICK v : v = q[Len(q)]
      OBVIOUS
    <2>2. PICK k \in Nat : k = g + Len(q)
      BY <1>1
    <2>3. Due(i, v, k) /\ v.type = "item"
      BY <2>1, <2>v, <2>2 DEF DueFrom, ItemsOnly
    <2>4. k \in 1..items[i]
      BY <2>3, DueValue
    <2> QED BY <1>1, <2>2, <2>4
  <1> QED BY <1>2, <1>3

\* An outcome joins a queue of items.
LEMMA DueAppend ==
    ASSUME NEW i \in Calls, NEW q \in Seq(C!Value), NEW g \in Nat, NEW v \in C!Value,
           DueFrom(i, q, g), ItemsOnly(q), Due(i, v, g + Len(q) + 1)
    PROVE  /\ DueFrom(i, Append(q, v), g)
           /\ v.type = "item" => ItemsOnly(Append(q, v))
           /\ Append(q, v) \in Seq(C!Value) /\ Len(Append(q, v)) = Len(q) + 1
           /\ Append(q, v) # <<>>
  <1> DEFINE a == Append(q, v)
  <1>1. /\ a \in Seq(C!Value) /\ Len(a) = Len(q) + 1 /\ a # <<>>
        /\ Len(q) \in Nat /\ a[Len(q) + 1] = v /\ DOMAIN q = 1..Len(q)
        /\ \A n \in 1..Len(q) : a[n] = q[n]
    BY AppendProperties, LenProperties
  <1> HIDE DEF a
  <1>2. DOMAIN a = 1..(Len(q) + 1)
    BY <1>1, LenProperties
  <1>3. ASSUME NEW n \in DOMAIN a
        PROVE  /\ Due(i, a[n], g + n)
               /\ n < Len(a) \/ v.type = "item" => a[n].type = "item"
    <2>1. CASE n \in DOMAIN q
      BY <1>1, <2>1 DEF DueFrom, ItemsOnly
    <2>2. CASE n = Len(q) + 1
      <3>1. g + n = g + Len(q) + 1
        BY <1>1, <2>2
      <3> QED BY <1>1, <2>2, <3>1
    <2> QED BY <1>1, <1>2, <2>1, <2>2
  <1>4. DueFrom(i, a, g) /\ (v.type = "item" => ItemsOnly(a))
    BY <1>3 DEF DueFrom, ItemsOnly
  <1> QED BY <1>1, <1>4 DEF a

\* The first outcome leaves a queue.
LEMMA DueTail ==
    ASSUME NEW i \in Calls, NEW q \in Seq(C!Value), NEW g \in Nat, q # <<>>,
           DueFrom(i, q, g)
    PROVE  /\ Due(i, Head(q), g + 1) /\ DueFrom(i, Tail(q), g + 1)
           /\ ItemsOnly(q) => Head(q).type = "item" /\ ItemsOnly(Tail(q))
           /\ Tail(q) # <<>> => Head(q).type = "item"
           /\ Head(q) \in C!Value /\ Tail(q) \in Seq(C!Value)
           /\ Len(Tail(q)) + 1 = Len(q) /\ Len(Tail(q)) \in Nat
  <1> DEFINE r == Tail(q)
  <1>1. /\ Len(q) \in Nat /\ DOMAIN q = 1..Len(q) /\ Len(q) # 0
    BY LenProperties, EmptySeq
  <1>2. /\ Head(q) = q[1] /\ Head(q) \in C!Value
        /\ r \in Seq(C!Value) /\ Len(r) = Len(q) - 1
        /\ \A n \in 1..Len(r) : r[n] = q[n + 1]
    BY HeadTailProperties
  <1> HIDE DEF r
  <1>3. DOMAIN r = 1..Len(r) /\ Len(r) \in Nat /\ (r # <<>> => Len(r) # 0)
    BY <1>2, LenProperties, EmptySeq
  <1>4. 1 \in DOMAIN q /\ \A n \in DOMAIN r : n + 1 \in DOMAIN q
    BY <1>1, <1>2, <1>3
  <1>5. Due(i, Head(q), g + 1) /\ (r # <<>> => Head(q).type = "item")
    BY <1>1, <1>2, <1>3, <1>4 DEF DueFrom
  <1>6. DueFrom(i, r, g + 1)
    <2>1. ASSUME NEW n \in DOMAIN r
          PROVE  /\ Due(i, r[n], (g + 1) + n)
                 /\ n < Len(r) => r[n].type = "item"
      <3>0. n \in Nat /\ n \in 1..Len(r)
        BY <1>3
      <3>a. (g + 1) + n = g + (n + 1)
        BY <3>0
      <3>1. (g + 1) + n = g + (n + 1) /\ r[n] = q[n + 1]
        BY <1>2, <3>0, <3>a
      <3>2. Due(i, q[n + 1], g + (n + 1))
        BY <1>4 DEF DueFrom
      <3>3. n < Len(r) => n + 1 < Len(q)
        BY <1>1, <1>2, <1>3
      <3> QED BY <1>4, <3>1, <3>2, <3>3 DEF DueFrom
    <2> QED BY <2>1 DEF DueFrom
  <1>7. ItemsOnly(q) => Head(q).type = "item" /\ ItemsOnly(r)
    BY <1>2, <1>3, <1>4 DEF ItemsOnly
  <1>8. Len(r) + 1 = Len(q)
    BY <1>1, <1>2
  <1> QED BY <1>2, <1>3, <1>5, <1>6, <1>7, <1>8 DEF r

-----------------------------------------------------------------------------
(* How the client's half is kept. *)

\* Service methods and the connection only go on.
Onward ==
    /\ \A j \in Calls : \A k \in 1..Len(made[j]) :
           k \in 1..Len(made'[j]) /\ made'[j][k] = made[j][k]
    /\ recvErr => recvErr'
    /\ \A n \in 1..s_read : s2c'[n] = s2c[n]

\* The client reads nothing, or a message for another call.
Skips(j) == \/ s_read' = s_read
            \/ s_read' = s_read + 1 /\ s2c'[s_read + 1].id # j

\* The loop neither takes up nor hands over a message for call j, and finds
\* the call as it was.
LoopSame(j) ==
    /\ InHand(j)' <=> InHand(j)
    /\ InHand(j) => hand' = hand
    /\ j \in over' <=> j \in over
    /\ j \in pending' /\ kind[j] = "stream" /\ loop' # "exited" =>
           /\ j \in pending /\ loop # "exited"
           /\ loop' = "failing" => j \notin over
           /\ loop = "failing" => loop' = "failing"

\* The caller of call j is told nothing, and its channels do not change.
Calm(j) ==
    /\ got'[j] = got[j] /\ events'[j] = events[j] /\ resp'[j] = resp[j]
    /\ errc'[j] = errc[j] /\ result'[j] = result[j] /\ ctx'[j] = ctx[j]
    /\ kind'[j] = kind[j]
    /\ \/ phase'[j] = phase[j]
       \/ phase[j] = "sending" /\ phase'[j] \in {"waiting", "open", "failed"}
       \/ /\ phase[j] \in {"open", "cancelling", "leaving"}
          /\ phase'[j] \in {"open", "cancelling", "leaving", "done"}

\* A step of the server is one onward.
LEMMA ServerOnward ==
    ASSUME IInv, ServerMove
    PROVE  Onward
  <1>0. Ends /\ ReadsOK /\ AskedOK /\ ServerHalf
    BY DEF IInv
  <1>1. \/ s2c' = s2c /\ \A j \in Calls : Quiet(j)
        \/ \E i \in Calls : Moves(i) /\ \A j \in Calls \ {i} : Quiet(j)
    BY <1>0, ServerMoves DEF ServerMove, ServerHalf
  <1>2. ASSUME NEW j \in Calls, NEW k \in 1..Len(made[j])
        PROVE  k \in 1..Len(made'[j]) /\ made'[j][k] = made[j][k]
    <2>1. made[j] \in Seq(Outcomes) /\ Len(made[j]) \in Nat
      BY <1>0, LenProperties DEF ServerHalf, MadeTyped
    <2>2. made'[j] = made[j] \/ \E v \in Outcomes : made'[j] = Append(made[j], v)
      <3>1. CASE Quiet(j)
        BY <3>1 DEF Quiet
      <3>2. CASE Starts(j) \/ Passes(j)
        BY <3>2 DEF Starts, Passes
      <3>3. CASE Yields(j)
        BY <3>3, OutcomesTyped DEF Yields
      <3>4. CASE Finishes(j)
        BY <3>4, OutcomesTyped DEF Finishes
      <3> QED BY <1>1, <3>1, <3>2, <3>3, <3>4 DEF Moves
    <2>3. \A v \in Outcomes : /\ Len(Append(made[j], v)) = Len(made[j]) + 1
                              /\ Append(made[j], v)[k] = made[j][k]
      BY <2>1, AppendProperties
    <2> QED BY <2>1, <2>2, <2>3
  <1>3. \A n \in 1..s_read : s2c'[n] = s2c[n]
    <2>1. s2c' = s2c \/ \E m \in S!Msg : s2c' = Append(s2c, m)
      <3>1. ASSUME NEW i \in Calls, Moves(i), \A j \in Calls \ {i} : Quiet(j)
            PROVE  s2c' = s2c \/ \E m \in S!Msg : s2c' = Append(s2c, m)
        BY <1>0, <3>1, MoveWrites
      <3> QED BY <1>1, <3>1
    <2>2. 1..s_read \subseteq DOMAIN s2c
      BY <1>0, EndsTyped DEF ReadsOK
    <2> QED BY <1>0, <2>1, <2>2, Grows
  <1>4. recvErr' = recvErr
    BY DEF ServerMove, ServerRead, ServerTask, ServerExit, ServerStep, cvars
  <1> QED BY <1>2, <1>3, <1>4 DEF Onward

\* So is one of the client.
LEMMA ClientOnward ==
    ASSUME IInv, ClientSteps
    PROVE  Onward
  <1>1. made' = made /\ s2c' = s2c
    BY ClientActs DEF IInv, svars
  <1>2. recvErr => recvErr'
    BY ClientActs
       DEF IInv, C!CheckErr, C!Register, C!Caller, C!CancelStream, C!Run, C!Fail,
           C!Receive, C!RunStart, C!Handle, C!Unlist, C!NotifyAll, C!WriteRequest,
           C!SendRequest, C!SendFailed, C!UnaryDone, C!UnaryResponse, C!UnaryError,
           C!RecvDone, C!RecvItem, C!SendCancel, C!Leave, C!loopVars
  <1> QED BY <1>1, <1>2 DEF Onward

\* What was due is due.
LEMMA DueKept ==
    ASSUME Onward, NEW i \in Calls, NEW v, NEW k, Due(i, v, k)
    PROVE  Due(i, v, k)'
  <1>1. C!Down' = C!Down
    BY DEF C!Down, C!Plain
  <1>2. CASE recvErr /\ v = C!Down
    BY <1>1, <1>2 DEF Due, Onward
  <1>3. CASE k \in 1..Len(made[i]) /\ v = Contract!Seen(made[i][k])
    <2>1. k \in 1..Len(made'[i]) /\ made'[i][k] = made[i][k]
      BY <1>3 DEF Onward
    <2> QED BY <1>3, <2>1 DEF Due, Contract!Seen, C!Closed, C!Plain
  <1> QED BY <1>2, <1>3 DEF Due

\* So is what a queue holds.
LEMMA DueFromKept ==
    ASSUME Onward, NEW i \in Calls, NEW q, NEW g, DueFrom(i, q, g)
    PROVE  DueFrom(i, q, g)'
  <1>1. ASSUME NEW n \in DOMAIN q
        PROVE  Due(i, q[n], g + n)' /\ (n < Len(q) => q[n].type = "item")
    BY DueKept DEF DueFrom
  <1> QED BY <1>1 DEF DueFrom

\* What was read of a call stays what was read of it.
LEMMA ReadKept ==
    ASSUME Ends, ReadsOK, Onward, NEW i \in Calls, NEW c \in Nat, Skips(i),
           ReadOK(i, c)
    PROVE  ReadOK(i, c)'
  <1>1. s_read \in Nat
    BY EndsTyped DEF ReadsOK
  <1>2. s_read' \in Nat /\ \A n \in 1..s_read' : n \in 1..s_read \/ n = s_read + 1
    BY <1>1 DEF Skips
  <1>3. \A n \in 1..s_read : n \in 1..s_read' /\ s2c'[n] = s2c[n]
    BY <1>1 DEF Onward, Skips
  <1>4. ASSUME NEW n \in 1..s_read', s2c'[n].id = i, s2c'[n].type = "item"
        PROVE  s2c'[n].body <= c
    <2>1. n \in 1..s_read
      BY <1>1, <1>2, <1>4 DEF Skips
    <2> QED BY <1>3, <1>4, <2>1 DEF ReadOK
  <1>5. c # 0 => \E n \in 1..s_read' : s2c'[n] = S!M("item", i, c)
    BY <1>3 DEF ReadOK
  <1> QED BY <1>4, <1>5 DEF ReadOK, S!M

\* Types of what a caller was told and is about to be.
LEMMA ViewTyped ==
    ASSUME Ends, GotTyped, NEW i \in Calls
    PROVE  /\ got[i] \in Seq(C!Value) /\ Len(got[i]) \in Nat
           /\ events[i] \in Seq(C!Value) /\ Len(events[i]) \in Nat
           /\ Count(i) \in Nat
           /\ ~InHand(i) => Count(i) = Len(got[i]) + Len(events[i])
           /\ InHand(i) => Count(i) = Len(got[i]) + Len(events[i]) + 1
  <1>1. /\ got[i] \in Seq(C!Value) /\ Len(got[i]) \in Nat
        /\ events[i] \in Seq(C!Value) /\ Len(events[i]) \in Nat
    BY CallTyped, LenProperties DEF GotTyped
  <1>2. PICK g, e \in Nat : g = Len(got[i]) /\ e = Len(events[i])
    BY <1>1
  <1>3. InHand(i) => Count(i) = g + e + 1
    BY <1>2 DEF Count
  <1>4. ~InHand(i) => Count(i) = g + e
    <2>1. ~InHand(i) => Count(i) = g + e + 0
      BY <1>2 DEF Count
    <2> QED BY <2>1
  <1>5. Count(i) \in Nat
    BY <1>3, <1>4
  <1> QED BY <1>1, <1>2, <1>3, <1>4, <1>5

\* A queue of outcomes that were due is one in the next state.
LEMMA NextEvents ==
    ASSUME Onward, NEW i \in Calls, NEW q, NEW g, NEW o,
           events'[i] = q, got'[i] = o, Len(o) = g, DueFrom(i, q, g),
           kind'[i] = "unary" => q = <<>>,
           q # <<>> => ~Contract!Over(o) \/ phase'[i] = "done"
    PROVE  EventsOK(i)'
  <1>1. DueFrom(i, q, g)'
    BY DueFromKept
  <1>2. Contract!Over(got[i])' <=> Contract!Over(o)
    BY DEF Contract!Over
  <1>3. DueFrom(i, events[i], Len(got[i]))' <=> DueFrom(i, q, g)'
    BY DEF DueFrom
  <1> QED BY <1>1, <1>2, <1>3 DEF EventsOK

\* So are the answers of a unary call.
LEMMA AnswersKept ==
    ASSUME Onward, NEW i \in Calls, AnswersOK(i), resp'[i] = resp[i],
           errc'[i] = errc[i]
    PROVE  AnswersOK(i)'
  <1>1. ASSUME NEW n \in DOMAIN resp[i] PROVE Due(i, resp[i][n], 1)'
    <2>1. PICK v : v = resp[i][n]
      OBVIOUS
    <2>2. Due(i, v, 1)'
      BY <2>1, DueKept DEF AnswersOK
    <2> QED BY <2>1, <2>2 DEF Due
  <1>2. ASSUME NEW n \in DOMAIN errc[i] PROVE Due(i, errc[i][n], 1)'
    <2>1. PICK v : v = errc[i][n]
      OBVIOUS
    <2>2. Due(i, v, 1)'
      BY <2>1, DueKept DEF AnswersOK
    <2> QED BY <2>1, <2>2 DEF Due
  <1> QED BY <1>1, <1>2 DEF AnswersOK

\* And the message in the loop's hand.
LEMMA InHandKept ==
    ASSUME Ends, GotTyped, Onward, NEW i \in Calls, InHandOK(i),
           InHand(i)' => /\ InHand(i) /\ hand' = hand /\ Count(i)' = Count(i)
                         /\ kind'[i] = kind[i]
                         /\ kind[i] = "stream" =>
                                /\ ItemsOnly(events[i]) => ItemsOnly(events[i])'
                                /\ Contract!Over(got[i])' => Contract!Over(got[i])
    PROVE  InHandOK(i)'
  <1>1. PICK v : v = C!Outcome(hand)
    OBVIOUS
  <1>2. PICK c \in Nat : c = Count(i)
    BY ViewTyped
  <1>3. C!Outcome(hand)' = C!Outcome(hand')
    BY DEF C!Outcome
  <1>4. CASE ~InHand(i)'
    BY <1>4 DEF InHandOK
  <1>5. CASE InHand(i)' /\ kind[i] = "unary"
    <2>1. Due(i, v, 1)
      BY <1>1, <1>5 DEF InHandOK
    <2>2. Due(i, v, 1)'
      BY <2>1, DueKept
    <2>3. C!Outcome(hand)' = v
      BY <1>1, <1>3, <1>5
    <2> QED BY <1>5, <2>2, <2>3 DEF InHandOK, Due
  <1>6. CASE InHand(i)' /\ kind[i] # "unary"
    <2>1. Due(i, v, c) /\ ItemsOnly(events[i]) /\ ~Contract!Over(got[i])
      BY <1>1, <1>2, <1>6 DEF InHandOK
    <2>2. Due(i, v, c)'
      BY <2>1, DueKept
    <2>3. C!Outcome(hand)' = v
      BY <1>1, <1>3, <1>6
    <2>4. kind[i] = "stream"
      BY <1>6, CallTyped
    <2> QED BY <1>2, <1>6, <2>1, <2>2, <2>3, <2>4 DEF InHandOK, Due
  <1> QED BY <1>4, <1>5, <1>6

\* A stream stays open.
LEMMA OpenKept ==
    ASSUME Ends, ReadsOK, GotTyped, Onward, NEW i \in Calls, OpenOK(i),
           i \in pending' => Skips(i),
           i \in pending' /\ kind'[i] = "stream" /\ loop' # "exited" =>
               /\ i \in pending /\ loop # "exited" /\ kind[i] = "stream"
               /\ loop' = "failing" => i \notin over'
               /\ loop = "failing" => loop' = "failing"
               /\ i \notin over' =>
                      /\ i \notin over /\ Count(i)' = Count(i)
                      /\ ItemsOnly(events[i]) => ItemsOnly(events[i])'
                      /\ Contract!Over(got[i])' => Contract!Over(got[i])
    PROVE  OpenOK(i)'
  <1>1. PICK c \in Nat : c = Count(i)
    BY ViewTyped
  <1>2. i \in pending' /\ ReadOK(i, c) => ReadOK(i, c)'
    BY ReadKept
  <1>3. ASSUME i \in pending', kind'[i] = "stream", loop' # "exited", i \notin over'
        PROVE  /\ ItemsOnly(events[i])' /\ ~Contract!Over(got[i])'
               /\ loop' # "failing" => ReadOK(i, Count(i))'
    <2>1. /\ ItemsOnly(events[i]) /\ ~Contract!Over(got[i])
          /\ loop' # "failing" => ReadOK(i, c)
      BY <1>1, <1>3 DEF OpenOK
    <2>2. Count(i)' = c
      BY <1>1, <1>3
    <2>3. loop' # "failing" => ReadOK(i, Count(i))'
      BY <1>2, <1>3, <2>1, <2>2 DEF ReadOK
    <2> QED BY <1>3, <2>1, <2>3
  <1> QED BY <1>3 DEF OpenOK

\* The caller knows what it knew.
LEMMA ResultSame ==
    ASSUME Onward, NEW i \in Calls, ResultOK(i), got'[i] = got[i],
           result'[i] = result[i], ctx'[i] = ctx[i],
           phase'[i] = "unused" => events'[i] = <<>>,
           phase'[i] \in {"unused", "sending", "failed", "waiting"} => got[i] = <<>>,
           phase[i] = "done" => phase'[i] = "done"
    PROVE  ResultOK(i)'
  <1>1. C!None' = C!None /\ C!Down' = C!Down
    BY DEF C!None, C!Down, C!Plain
  <1>2. recvErr => recvErr'
    BY DEF Onward
  <1> QED BY <1>1, <1>2 DEF ResultOK

\* A calm caller keeps what does not depend on the loop.
LEMMA CalmKept ==
    ASSUME Ends, GotTyped, Onward, NEW i \in Calls, Calm(i), View(i)
    PROVE  /\ EventsOK(i)' /\ AnswersOK(i)' /\ ResultOK(i)'
           /\ Contract!Over(got[i])' <=> Contract!Over(got[i])
           /\ ItemsOnly(events[i])' <=> ItemsOnly(events[i])
  <1>1. /\ got'[i] = got[i] /\ events'[i] = events[i] /\ kind'[i] = kind[i]
        /\ result'[i] = result[i] /\ ctx'[i] = ctx[i]
        /\ phase[i] = "done" => phase'[i] = "done"
    BY DEF Calm
  <1>2. /\ Contract!Over(got[i])' <=> Contract!Over(got[i])
        /\ ItemsOnly(events[i])' <=> ItemsOnly(events[i])
    BY <1>1 DEF Contract!Over, ItemsOnly
  <1>3. EventsOK(i)'
    <2>1. PICK q : q = events[i]
      OBVIOUS
    <2>2. PICK o : o = got[i]
      OBVIOUS
    <2>3. PICK g : g = Len(o)
      OBVIOUS
    <2>4. /\ DueFrom(i, q, g)
          /\ kind[i] = "unary" => q = <<>>
          /\ q # <<>> => ~Contract!Over(o) \/ phase'[i] = "done"
      BY <1>1, <2>1, <2>2, <2>3 DEF View, EventsOK
    <2> QED BY <1>1, <2>1, <2>2, <2>3, <2>4, NextEvents
  <1>4. AnswersOK(i)'
    BY AnswersKept DEF View, Calm
  <1>5. ResultOK(i)'
    <2>1. /\ phase'[i] \in {"unused", "sending", "failed", "waiting"} => got[i] = <<>>
          /\ phase'[i] = "unused" => events'[i] = <<>>
      BY DEF View, ResultOK, Calm
    <2> QED BY <1>1, <2>1, ResultSame DEF View
  <1> QED BY <1>2, <1>3, <1>4, <1>5

\* A view that nothing changes is kept.
LEMMA ViewKept ==
    ASSUME Ends, ReadsOK, GotTyped, Onward, NEW i \in Calls,
           i \in pending' => Skips(i), LoopSame(i), Calm(i), View(i)
    PROVE  View(i)'
  <1>1. kind'[i] = kind[i] /\ got'[i] = got[i] /\ events'[i] = events[i]
    BY DEF Calm
  <1>2. Count(i)' = Count(i)
    BY <1>1 DEF Count, LoopSame
  <1>3. /\ EventsOK(i)' /\ AnswersOK(i)' /\ ResultOK(i)'
        /\ Contract!Over(got[i])' <=> Contract!Over(got[i])
        /\ ItemsOnly(events[i])' <=> ItemsOnly(events[i])
    BY CalmKept
  <1>4. InHandOK(i)'
    BY <1>1, <1>2, <1>3, InHandKept DEF View, LoopSame
  <1>5. OpenOK(i)'
    BY <1>1, <1>2, <1>3, OpenKept DEF View, LoopSame
  <1> QED BY <1>3, <1>4, <1>5 DEF View

-----------------------------------------------------------------------------
(* What a step of the client changes of a call. *)

\* A caller whose await did not return is told nothing.
LEMMA ToldNothing ==
    ASSUME GotTyped, NEW j \in Calls, result'[j] = result[j],
           got' = [i \in Calls |-> got[i] \o Told(i)]
    PROVE  got'[j] = got[j]
  <1>1. got[j] \in Seq(C!Value) /\ Told(j) = <<>>
    BY DEF GotTyped, Told
  <1>2. got'[j] = got[j] \o <<>>
    BY <1>1
  <1> QED BY <1>1, <1>2, ConcatEmptySeq

\* One whose await returned something new is told it.
LEMMA ToldOne ==
    ASSUME GotTyped, NEW j \in Calls, NEW v \in C!Value, result'[j] = v,
           v # result[j], v.type # "ctx",
           got' = [i \in Calls |-> got[i] \o Told(i)]
    PROVE  got'[j] = Append(got[j], v)
  <1>1. got[j] \in Seq(C!Value) /\ Told(j) = <<v>>
    BY DEF GotTyped, Told
  <1>2. got'[j] = got[j] \o <<v>>
    BY <1>1
  <1> QED BY <1>1, <1>2, AppendIsConcat

\* What remains of the view of a call as it was.
Untouched(j) == Calm(j) /\ LoopSame(j) /\ (j \in pending' => Skips(j))

Others(i) == \A j \in Calls \ {i} : Untouched(j)

\* What the client's invariant says of a call.
LEMMA CallFacts ==
    ASSUME IInv, NEW j \in Calls
    PROVE  /\ Ends /\ ReadsOK /\ AskedOK /\ ServerHalf /\ ClientHalf /\ GotTyped
           /\ View(j) /\ ResultOK(j) /\ OpenOK(j) /\ EventsOK(j) /\ AnswersOK(j)
           /\ InHandOK(j) /\ OverOK /\ ctx[j] = "live" /\ C!TypeOK
           /\ DOMAIN phase = Calls /\ DOMAIN result = Calls /\ DOMAIN resp = Calls
           /\ DOMAIN errc = Calls /\ DOMAIN events = Calls /\ DOMAIN kind = Calls
           /\ DOMAIN got = Calls
  BY EndsTyped DEF IInv, ClientHalf, View, ResultOK, C!TypeOK, GotTyped

\* A call nothing happens to.
LEMMA NothingHappens ==
    ASSUME IInv, ClientSteps, NEW j \in Calls,
           events'[j] = events[j], resp'[j] = resp[j], errc'[j] = errc[j],
           result'[j] = result[j], ctx'[j] = ctx[j], kind'[j] = kind[j],
           \/ phase'[j] = phase[j]
           \/ phase[j] = "sending" /\ phase'[j] \in {"waiting", "open", "failed"}
           \/ /\ phase[j] \in {"open", "cancelling", "leaving"}
              /\ phase'[j] \in {"open", "cancelling", "leaving", "done"}
    PROVE  Calm(j)
  <1>1. got'[j] = got[j]
    BY CallFacts, ClientActs, ToldNothing
  <1> QED BY <1>1 DEF Calm

\* A step that leaves the loop alone.
LEMMA LoopRests ==
    ASSUME IInv, NEW j \in Calls, loop' = loop, hand' = hand, over' = over,
           j \in pending' => j \in pending
    PROVE  LoopSame(j)
  <1>1. OpenOK(j)
    BY CallFacts
  <1> QED BY <1>1 DEF LoopSame, InHand, OpenOK

\* A step of one caller.
LEMMA OneCaller ==
    ASSUME IInv, ClientSteps, NEW i \in Calls, s_read' = s_read,
           UNCHANGED <<loop, hand, over, ctx>>, pending' \subseteq pending \cup {i},
           \A j \in Calls \ {i} :
               /\ events'[j] = events[j] /\ resp'[j] = resp[j]
               /\ errc'[j] = errc[j] /\ result'[j] = result[j]
               /\ kind'[j] = kind[j] /\ phase'[j] = phase[j]
    PROVE  Others(i)
  <1>1. ASSUME NEW j \in Calls \ {i} PROVE Untouched(j)
    <2>1. Calm(j)
      BY NothingHappens
    <2>2. LoopSame(j)
      BY LoopRests
    <2> QED BY <2>1, <2>2 DEF Untouched, Skips
  <1> QED BY <1>1 DEF Others

\* The ways a caller goes on without being told anything.
Proceeds(i) ==
    C!WriteRequest(i) \/ C!SendRequest(i) \/ C!CancelStream(i)
    \/ C!SendCancel(i) \/ C!Leave(i)

\* They leave every call as it was.
LEMMA ProceedsCalm ==
    ASSUME IInv, ClientSteps, s_read' = s_read, NEW i \in Calls, Proceeds(i)
    PROVE  \A j \in Calls : Untouched(j)
  <1> USE DEF C!callVars, C!chanVars, C!loopVars, C!wireVars
  <1>1. /\ UNCHANGED <<loop, hand, over, ctx, events, resp, errc, result, kind>>
        /\ pending' \subseteq pending
        /\ \/ phase' = phase
           \/ /\ phase[i] = "sending"
              /\ \E h \in {"waiting", "open", "failed"} :
                     phase' = [phase EXCEPT ![i] = h]
           \/ /\ phase[i] \in {"open", "cancelling", "leaving"}
              /\ \E h \in {"open", "cancelling", "leaving", "done"} :
                     phase' = [phase EXCEPT ![i] = h]
    <2>1. CASE C!WriteRequest(i)
      BY <2>1 DEF C!WriteRequest
    <2>2. CASE C!SendRequest(i)
      BY <2>2 DEF C!SendRequest
    <2>3. CASE C!CancelStream(i)
      BY <2>3 DEF C!CancelStream
    <2>4. CASE C!SendCancel(i)
      BY <2>4 DEF C!SendCancel
    <2>5. CASE C!Leave(i)
      BY <2>5 DEF C!Leave
    <2> QED BY <2>1, <2>2, <2>3, <2>4, <2>5 DEF Proceeds
  <1>2. DOMAIN phase = Calls
    BY CallFacts
  <1>3. \A j \in Calls \ {i} : phase'[j] = phase[j]
    BY <1>1, <1>2
  <1>4. Others(i)
    BY <1>1, <1>3, OneCaller
  <1>5. Calm(i)
    <2>1. \/ phase'[i] = phase[i]
          \/ phase[i] = "sending" /\ phase'[i] \in {"waiting", "open", "failed"}
          \/ /\ phase[i] \in {"open", "cancelling", "leaving"}
             /\ phase'[i] \in {"open", "cancelling", "leaving", "done"}
      BY <1>1, <1>2
    <2> QED BY <1>1, <2>1, NothingHappens
  <1>6. LoopSame(i)
    BY <1>1, LoopRests
  <1> QED BY <1>4, <1>5, <1>6 DEF Others, Untouched, Skips

\* Contexts are never done here: no await returns for that reason.
LEMMA NoCtx ==
    ASSUME IInv, NEW i \in Calls
    PROVE  ~C!UnaryDone(i) /\ ~C!RecvDone(i)
  BY CallFacts DEF C!UnaryDone, C!RecvDone

\* The steps of callers that tell them something concern one call.
LEMMA ToldOthers ==
    ASSUME IInv, ClientSteps, s_read' = s_read, NEW i \in Calls,
           C!SendFailed(i) \/ C!UnaryResponse(i) \/ C!UnaryError(i) \/ C!RecvItem(i)
    PROVE  Others(i) /\ LoopSame(i) /\ Skips(i)
  <1> USE DEF C!callVars, C!chanVars, C!loopVars, C!wireVars
  <1>1. /\ UNCHANGED <<loop, hand, over, ctx, kind>> /\ pending' \subseteq pending
        /\ phase' = phase \/ \E h : phase' = [phase EXCEPT ![i] = h]
        /\ result' = result \/ \E h : result' = [result EXCEPT ![i] = h]
        /\ resp' = resp \/ \E h : resp' = [resp EXCEPT ![i] = h]
        /\ errc' = errc \/ \E h : errc' = [errc EXCEPT ![i] = h]
        /\ events' = events \/ \E h : events' = [events EXCEPT ![i] = h]
    <2>1. CASE C!SendFailed(i)
      BY <2>1 DEF C!SendFailed
    <2>2. CASE C!UnaryResponse(i)
      BY <2>2 DEF C!UnaryResponse
    <2>3. CASE C!UnaryError(i)
      BY <2>3 DEF C!UnaryError
    <2>4. CASE C!RecvItem(i)
      BY <2>4 DEF C!RecvItem
    <2> QED BY <2>1, <2>2, <2>3, <2>4
  <1>2. /\ DOMAIN phase = Calls /\ DOMAIN result = Calls /\ DOMAIN resp = Calls
        /\ DOMAIN errc = Calls /\ DOMAIN events = Calls
    BY CallFacts
  <1>3. ASSUME NEW j \in Calls \ {i}
        PROVE  /\ events'[j] = events[j] /\ resp'[j] = resp[j]
               /\ errc'[j] = errc[j] /\ result'[j] = result[j]
               /\ kind'[j] = kind[j] /\ phase'[j] = phase[j]
    BY <1>1, <1>2
  <1>4. Others(i)
    BY <1>1, <1>3, OneCaller
  <1>5. LoopSame(i)
    BY <1>1, LoopRests
  <1> QED BY <1>4, <1>5 DEF Skips

-----------------------------------------------------------------------------
(* Callers that are told something. *)

\* What was told last.
LEMMA GotOne ==
    ASSUME GotTyped, NEW j \in Calls, NEW v \in C!Value,
           got'[j] = Append(got[j], v)
    PROVE  /\ Len(got'[j]) = Len(got[j]) + 1 /\ got'[j] # <<>>
           /\ got'[j][Len(got'[j])] = v
           /\ Contract!Over(got'[j]) <=> v.type # "item"
  <1>1. got[j] \in Seq(C!Value)
    BY DEF GotTyped
  <1>2. /\ Len(got'[j]) = Len(got[j]) + 1 /\ got'[j] # <<>>
        /\ got'[j][Len(got'[j])] = v
    BY <1>1, AppendProperties, LenProperties, EmptySeq
  <1> QED BY <1>2 DEF Contract!Over

\* The caller has taken note of an outcome.
LEMMA ResultKept ==
    ASSUME IInv, ClientSteps, NEW i \in Calls, NEW v \in C!Value,
           got'[i] = Append(got[i], v), result'[i] = v, ctx' = ctx,
           phase'[i] \in {"open", "leaving", "done"},
           v.type = "item" => v.body = Len(got[i]) + 1,
           v = C!Down => recvErr \/ phase'[i] = "done"
    PROVE  ResultOK(i)'
  <1>1. /\ Len(got'[i]) = Len(got[i]) + 1 /\ got'[i] # <<>>
        /\ got'[i][Len(got'[i])] = v
    BY CallFacts, GotOne
  <1>2. C!None' = C!None /\ C!Down' = C!Down
    BY DEF C!None, C!Down, C!Plain
  <1>3. recvErr => recvErr'
    BY ClientOnward DEF Onward
  <1>4. ctx'[i] = "live"
    BY CallFacts
  <1> QED BY <1>1, <1>2, <1>3, <1>4 DEF ResultOK

\* The error of a Send is the only thing its caller is told.
LEMMA KeptFailed ==
    ASSUME IInv, ClientSteps, s_read' = s_read, NEW i \in Calls, C!SendFailed(i)
    PROVE  /\ got'[i] = Append(got[i], C!Down) /\ ~Contract!Over(got[i])
           /\ View(i)'
  <1> USE DEF C!callVars, C!chanVars, C!loopVars, C!wireVars
  <1>0. /\ Ends /\ ReadsOK /\ GotTyped /\ Onward /\ View(i) /\ C!TypeOK
        /\ Skips(i) /\ LoopSame(i)
    BY CallFacts, ClientOnward, ToldOthers
  <1>1. /\ phase[i] = "failed" /\ phase'[i] = "done" /\ result'[i] = C!Down
        /\ events'[i] = events[i] /\ resp'[i] = resp[i] /\ errc'[i] = errc[i]
        /\ kind' = kind /\ ctx' = ctx /\ i \notin pending'
    BY CallFacts DEF C!SendFailed
  <1>2. i \notin asked /\ made[i] \in Seq(Outcomes) /\ Len(made[i]) = 0
    <2>1. i \notin asked /\ handler[i] = "none" /\ MadeOK(i) /\ MadeTyped
      BY <1>1, CallFacts DEF AskedOK, ServerHalf
    <2> QED BY <2>1 DEF MadeOK, Returned, MadeTyped
  <1>3. got[i] = <<>> /\ result[i] = C!None /\ ~Contract!Over(got[i])
    BY <1>1, CallFacts DEF ResultOK, Contract!Over
  <1>4. C!Down \in C!Value /\ C!Down # C!None /\ C!Down.type = "down"
    BY Constants DEF C!Down, C!None, C!Plain, C!Value
  <1>5. got'[i] = Append(got[i], C!Down)
    BY <1>0, <1>1, <1>3, <1>4, ToldOne, ClientActs
  <1>6. ResultOK(i)'
    BY <1>1, <1>4, <1>5, ResultKept
  <1>7. EventsOK(i)'
    <2>1. PICK q : q = events[i]
      OBVIOUS
    <2>2. PICK o : o = got'[i]
      OBVIOUS
    <2>3. PICK g : g = Len(o)
      OBVIOUS
    <2>4. \A n \in DOMAIN q : /\ recvErr /\ q[n] = C!Down
                              /\ n < Len(q) => q[n].type = "item"
      BY <1>0, <1>2, <2>1 DEF View, EventsOK, DueFrom, Due
    <2>5. DueFrom(i, q, g)
      BY <2>4 DEF DueFrom, Due
    <2>6. kind'[i] = "unary" => q = <<>>
      BY <1>0, <1>1, <2>1 DEF View, EventsOK
    <2> QED BY <1>0, <1>1, <2>1, <2>2, <2>3, <2>5, <2>6, NextEvents
  <1>8. AnswersOK(i)'
    BY <1>0, <1>1, AnswersKept DEF View
  <1>9. InHandOK(i)'
    <2>1. ~InHand(i)
      BY <1>0, <1>2 DEF InHand, Ends, CP!IInv, CP!InHand
    <2> QED BY <1>0, <2>1 DEF InHandOK, LoopSame
  <1>10. OpenOK(i)'
    BY <1>1 DEF OpenOK
  <1> QED BY <1>3, <1>5, <1>6, <1>7, <1>8, <1>9, <1>10 DEF View

\* The answer of a unary call.
LEMMA KeptAnswered ==
    ASSUME IInv, ClientSteps, s_read' = s_read, NEW i \in Calls,
           C!UnaryResponse(i) \/ C!UnaryError(i)
    PROVE  /\ ~Contract!Over(got[i])
           /\ \E v \in C!Value : /\ got'[i] = Append(got[i], v)
                                 /\ Due(i, v, Len(got[i]) + 1)
           /\ View(i)'
  <1> USE DEF C!callVars, C!chanVars, C!loopVars, C!wireVars
  <1>0. /\ Ends /\ ReadsOK /\ GotTyped /\ Onward /\ View(i) /\ C!TypeOK
        /\ ServerHalf /\ Skips(i) /\ LoopSame(i)
    BY CallFacts, ClientOnward, ToldOthers
  <1>1. /\ phase[i] = "waiting" /\ phase'[i] \in {"leaving", "done"}
        /\ events'[i] = events[i] /\ kind' = kind /\ ctx' = ctx
        /\ resp'[i] \in {resp[i], <<>>} /\ errc'[i] \in {errc[i], <<>>}
        /\ \/ resp[i] # <<>> /\ result'[i] = Head(resp[i])
           \/ errc[i] # <<>> /\ result'[i] = Head(errc[i])
    <2>1. CASE C!UnaryResponse(i)
      BY <2>1, CallFacts DEF C!UnaryResponse
    <2>2. CASE C!UnaryError(i)
      BY <2>2, CallFacts DEF C!UnaryError
    <2> QED BY <2>1, <2>2
  <1>2. kind[i] = "unary"
    BY <1>0, <1>1 DEF Ends, CP!IInv, CP!Listed
  <1>3. /\ got[i] = <<>> /\ result[i] = C!None /\ ~Contract!Over(got[i])
        /\ events[i] = <<>>
    BY <1>0, <1>1, <1>2 DEF View, ResultOK, EventsOK, Contract!Over
  <1>4. PICK v \in C!Value : v = result'[i] /\ Due(i, v, 1)
    <2>1. ASSUME NEW q \in Seq(C!Value), q # <<>>
          PROVE  1 \in DOMAIN q /\ Head(q) = q[1] /\ Head(q) \in C!Value
      BY <2>1, HeadTailProperties, LenProperties, EmptySeq
    <2>2. resp[i] \in Seq(C!Value) /\ errc[i] \in Seq(C!Value)
      BY <1>0, CallTyped
    <2> QED BY <1>0, <1>1, <2>1, <2>2 DEF View, AnswersOK
  <1>5. /\ v.type \in {"ok", "item", "closed", "error", "down"}
        /\ v.type # "item" /\ (v = C!Down => recvErr) /\ v # C!None
    <2>1. 1 \in Nat
      OBVIOUS
    <2>2. /\ v.type \in {"ok", "item", "closed", "error", "down"}
          /\ v.type # "item" /\ (v = C!Down => recvErr)
      BY <1>0, <1>2, <1>4, <2>1, DueValue
    <2> QED BY <2>2 DEF C!None, C!Plain
  <1>6. got'[i] = Append(got[i], v)
    BY <1>0, <1>3, <1>4, <1>5, ToldOne, ClientActs
  <1>7. ResultOK(i)'
    BY <1>1, <1>4, <1>5, <1>6, ResultKept
  <1>8. EventsOK(i)'
    BY <1>1, <1>3 DEF EventsOK, DueFrom
  <1>9. AnswersOK(i)'
    <2>1. ASSUME NEW q, NEW n \in DOMAIN q, q \in {resp[i], errc[i]}
          PROVE  Due(i, q[n], 1)'
      <3>1. PICK w : w = q[n]
        OBVIOUS
      <3>2. Due(i, w, 1)
        BY <1>0, <2>1, <3>1 DEF View, AnswersOK
      <3>3. Due(i, w, 1)'
        BY <1>0, <3>2, DueKept
      <3> QED BY <3>1, <3>3 DEF Due
    <2>2. ASSUME NEW q, q \in {resp[i], errc[i], <<>>}
          PROVE  \A n \in DOMAIN q : Due(i, q[n], 1)'
      BY <2>1, <2>2
    <2>3. PICK q : q = resp'[i]
      OBVIOUS
    <2>4. PICK r : r = errc'[i]
      OBVIOUS
    <2>5. /\ \A n \in DOMAIN q : Due(i, q[n], 1)'
          /\ \A n \in DOMAIN r : Due(i, r[n], 1)'
      BY <1>1, <2>2, <2>3, <2>4
    <2> QED BY <2>3, <2>4, <2>5 DEF AnswersOK, Due
  <1>10. InHandOK(i)'
    <2>1. CASE InHand(i)'
      <3>1. InHand(i) /\ hand' = hand
        BY <1>0, <2>1 DEF LoopSame
      <3>2. PICK w : w = C!Outcome(hand)
        OBVIOUS
      <3>3. Due(i, w, 1)
        BY <1>0, <1>2, <3>1, <3>2 DEF View, InHandOK
      <3>4. Due(i, w, 1)'
        BY <1>0, <3>3, DueKept
      <3>5. C!Outcome(hand)' = w
        BY <3>1, <3>2 DEF C!Outcome
      <3> QED BY <1>1, <1>2, <3>4, <3>5 DEF InHandOK, Due
    <2> QED BY <2>1 DEF InHandOK
  <1>11. OpenOK(i)'
    BY <1>1, <1>2 DEF OpenOK
  <1>12. Due(i, v, Len(got[i]) + 1)
    <2>1. Len(got[i]) + 1 = 1
      BY <1>3, EmptySeq
    <2> QED BY <1>4, <2>1
  <1> QED BY <1>3, <1>6, <1>7, <1>8, <1>9, <1>10, <1>11, <1>12 DEF View

\* The next value of a stream's channel.
LEMMA KeptItem ==
    ASSUME IInv, ClientSteps, s_read' = s_read, NEW i \in Calls, C!RecvItem(i)
    PROVE  /\ ~Contract!Over(got[i])
           /\ \E v \in C!Value : /\ got'[i] = Append(got[i], v)
                                 /\ Due(i, v, Len(got[i]) + 1)
           /\ View(i)'
  <1> USE DEF C!callVars, C!loopVars, C!wireVars
  <1>0. /\ Ends /\ ReadsOK /\ GotTyped /\ Onward /\ View(i) /\ C!TypeOK
        /\ ServerHalf /\ Skips(i) /\ LoopSame(i)
        /\ kind[i] \in {"unary", "stream"}
    BY CallFacts, CallTyped, ClientOnward, ToldOthers
  <1>1. /\ phase[i] = "open" /\ events[i] # <<>>
        /\ events'[i] = Tail(events[i]) /\ result'[i] = Head(events[i])
        /\ resp'[i] = resp[i] /\ errc'[i] = errc[i] /\ UNCHANGED <<phase, kind, ctx>>
        /\ pending' = pending
    BY CallFacts DEF C!RecvItem
  <1>2. PICK q \in Seq(C!Value) : q = events[i]
    BY <1>0, ViewTyped
  <1>3. PICK g \in Nat : g = Len(got[i])
    BY <1>0, ViewTyped
  <1>4. PICK v \in C!Value : v = Head(q)
    BY <1>1, <1>2, HeadTailProperties
  <1>5. PICK r \in Seq(C!Value) : r = Tail(q)
    BY <1>1, <1>2, HeadTailProperties
  <1>6. /\ Due(i, v, g + 1) /\ DueFrom(i, r, g + 1)
        /\ ItemsOnly(q) => v.type = "item" /\ ItemsOnly(r)
        /\ r # <<>> => v.type = "item"
        /\ Len(r) + 1 = Len(q) /\ Len(r) \in Nat
    <2>1. DueFrom(i, q, g)
      BY <1>0, <1>2, <1>3 DEF View, EventsOK
    <2> QED BY <1>1, <1>2, <1>4, <1>5, <2>1, DueTail
  <1>7. kind[i] = "stream" /\ ~Contract!Over(got[i])
    BY <1>0, <1>1 DEF View, EventsOK
  <1>8. /\ v.type \in {"ok", "item", "closed", "error", "down"}
        /\ v.type = "item" => v = Item(g + 1)
        /\ v = C!Down => recvErr
    <2>1. g + 1 \in Nat
      OBVIOUS
    <2> QED BY <1>0, <1>6, <2>1, DueValue
  <1>9. v # result[i]
    <2>1. CASE got[i] = <<>>
      BY <1>0, <1>8, <2>1 DEF View, ResultOK, C!None, C!Plain
    <2>2. CASE got[i] # <<>>
      <3>1. result[i].type = "item" /\ result[i].body = g
        BY <1>0, <1>3, <1>7, <2>2 DEF View, ResultOK, Contract!Over
      <3>2. v.type = "item" => v.body = g + 1
        BY <1>8 DEF Item
      <3> QED BY <3>1, <3>2
    <2> QED BY <2>1, <2>2
  <1>10. got'[i] = Append(got[i], v)
    BY <1>0, <1>1, <1>2, <1>4, <1>8, <1>9, ToldOne, ClientActs
  <1>11. PICK o : o = got'[i]
    OBVIOUS
  <1>12. /\ Len(o) = g + 1
         /\ Contract!Over(o) <=> v.type # "item"
    BY <1>0, <1>3, <1>10, <1>11, GotOne
  <1>13. ResultOK(i)'
    <2>1. v.type = "item" => v.body = Len(got[i]) + 1
      BY <1>3, <1>8 DEF Item
    <2>2. result'[i] = v
      BY <1>1, <1>2, <1>4
    <2> QED BY <1>1, <1>8, <1>10, <2>1, <2>2, ResultKept
  <1>14. events'[i] = r
    BY <1>1, <1>2, <1>5
  <1>15. EventsOK(i)'
    <2>1. kind'[i] # "unary"
      BY <1>1, <1>7
    <2>2. r # <<>> => ~Contract!Over(o)
      BY <1>6, <1>12
    <2> QED BY <1>0, <1>6, <1>11, <1>12, <1>14, <2>1, <2>2, NextEvents
  <1>16. AnswersOK(i)'
    BY <1>0, <1>1, AnswersKept DEF View
  <1>17. Count(i)' = Count(i)
    <2>1. Len(got'[i]) = g + 1 /\ Len(events'[i]) = Len(r)
      BY <1>11, <1>12, <1>14
    <2>2. PICK l \in Nat : l = Len(r)
      BY <1>6
    <2>3. Len(events[i]) = l + 1 /\ Len(events'[i]) = l
      BY <1>2, <1>6, <2>1, <2>2
    <2>4. (g + 1) + l = g + (l + 1)
      OBVIOUS
    <2>5. InHand(i)' <=> InHand(i)
      BY <1>0 DEF LoopSame
    <2> QED BY <1>3, <2>1, <2>3, <2>4, <2>5 DEF Count
  <1>18. ItemsOnly(events[i]) => ItemsOnly(events[i])' /\ ~Contract!Over(got[i])'
    <2>1. ItemsOnly(q) => ItemsOnly(r) /\ ~Contract!Over(o)
      BY <1>6, <1>12
    <2>2. (ItemsOnly(events[i])' <=> ItemsOnly(r)) /\ (Contract!Over(got[i])' <=> Contract!Over(o))
      BY <1>11, <1>14 DEF ItemsOnly, Contract!Over
    <2> QED BY <1>2, <2>1, <2>2
  <1>19. InHandOK(i)'
    <2>1. InHand(i)' => InHand(i) /\ hand' = hand
      BY <1>0 DEF LoopSame
    <2>2. InHand(i) => ItemsOnly(events[i])
      BY <1>0, <1>7 DEF View, InHandOK
    <2> QED BY <1>0, <1>1, <1>17, <1>18, <2>1, <2>2, InHandKept DEF View
  <1>20. OpenOK(i)'
    <2>1. ASSUME i \in pending', kind'[i] = "stream", loop' # "exited"
          PROVE  /\ i \in pending /\ loop # "exited" /\ kind[i] = "stream"
                 /\ loop' = "failing" => i \notin over'
                 /\ loop = "failing" => loop' = "failing"
                 /\ i \notin over' =>
                      /\ i \notin over /\ Count(i)' = Count(i)
                      /\ ItemsOnly(events[i]) /\ ItemsOnly(events[i])'
                      /\ ~Contract!Over(got[i])'
      <3>1. /\ i \in pending /\ loop # "exited"
            /\ loop' = "failing" => i \notin over
            /\ loop = "failing" => loop' = "failing"
            /\ i \in over' <=> i \in over
        BY <1>0, <1>7, <2>1 DEF LoopSame
      <3>2. i \notin over => ItemsOnly(events[i])
        BY <1>0, <1>7, <3>1 DEF View, OpenOK
      <3> QED BY <1>7, <1>17, <1>18, <3>1, <3>2
    <2> QED BY <1>0, <2>1, OpenKept DEF View
  <1> QED
    BY <1>3, <1>6, <1>7, <1>10, <1>13, <1>15, <1>16, <1>19, <1>20 DEF View

-----------------------------------------------------------------------------
(* Calls that begin, and the loop. *)

\* Nothing was written for a call that was not asked for.
LEMMA NothingRead ==
    ASSUME IInv, NEW i \in Calls, i \notin asked
    PROVE  \A n \in 1..s_read : s2c[n].id # i
  <1>1. ASSUME NEW n \in 1..s_read, s2c[n].id = i PROVE FALSE
    <2>1. Ends /\ ReadsOK /\ AskedOK
      BY DEF IInv
    <2>2. n \in DOMAIN s2c
      BY <2>1, EndsTyped DEF ReadsOK
    <2>3. SP!Accounted(s2c[n])
      BY <2>1, <2>2 DEF Ends, SP!IInv, SP!WrittenByTask
    <2>4. handler[i] # "none"
      BY <1>1, <2>3 DEF SP!Accounted
    <2> QED BY <2>1, <2>4 DEF AskedOK
  <1> QED BY <1>1

\* There is an id for every caller that takes one.
LEMMA NewId ==
    ASSUME IInv, NEW k \in {"unary", "stream"}, C!Register(k)
    PROVE  next_id \in Calls
  <1>1. Ends /\ C!TypeOK
    BY EndsTyped DEF IInv
  <1>2. /\ next_id \in Nat \ {0} /\ entering["unary"] \in Nat /\ entering["stream"] \in Nat
        /\ next_id + entering["unary"] + entering["stream"] <= MaxCalls + 1
        /\ entering[k] > 0 /\ (k = "unary" \/ k = "stream")
    BY <1>1 DEF C!Register, C!TypeOK, Ends, CP!IInv, CP!Fresh
  <1>3. next_id \in 1..MaxCalls
    BY <1>2, Constants
  <1> QED BY <1>3

\* A new call has nothing to be told yet.
LEMMA KeptRegister ==
    ASSUME IInv, ClientSteps, s_read' = s_read, NEW k \in {"unary", "stream"},
           C!Register(k)
    PROVE  \A j \in Calls : got'[j] = got[j] /\ View(j)'
  <1> USE DEF C!chanVars, C!loopVars, C!wireVars
  <1>0. Ends /\ ReadsOK /\ AskedOK /\ ClientHalf /\ GotTyped /\ Onward /\ C!TypeOK
    BY EndsTyped, ClientOnward DEF IInv, ClientHalf
  <1>1. PICK i \in Calls : i = next_id
    BY NewId
  <1>2. /\ View(i) /\ ResultOK(i) /\ EventsOK(i) /\ AnswersOK(i)
        /\ DOMAIN phase = Calls /\ DOMAIN kind = Calls
    BY CallFacts
  <1>3. /\ phase[i] = "unused" /\ i \notin asked /\ i \notin over
        /\ ~InHand(i) /\ got[i] = <<>> /\ events[i] = <<>>
    BY <1>0, <1>1, <1>2
       DEF Ends, CP!IInv, CP!Fresh, CP!InHand, InHand, ResultOK
  <1>4. /\ UNCHANGED <<ctx, result, events, resp, errc, loop, hand, over, recvErr>>
        /\ phase' = [phase EXCEPT ![i] = "sending"]
        /\ kind' = [kind EXCEPT ![i] = k] /\ pending' = pending \cup {i}
    BY <1>1 DEF C!Register
  <1>5. Others(i)
    BY <1>2, <1>4, OneCaller
  <1>6. got'[i] = got[i]
    BY <1>0, <1>4, ToldNothing, ClientActs
  <1>7. phase'[i] = "sending"
    BY <1>2, <1>4
  <1>8. EventsOK(i)'
    BY <1>3, <1>4 DEF EventsOK, DueFrom
  <1>9. AnswersOK(i)'
    BY <1>0, <1>2, <1>4, AnswersKept
  <1>10. InHandOK(i)'
    BY <1>3, <1>4 DEF InHandOK, InHand
  <1>11. OpenOK(i)'
    <2>1. Count(i)' = 0
      <3>1. Len(<<>>) = 0
        BY EmptySeq
      <3>2. Count(i)' = Len(<<>>) + Len(<<>>) + 0
        BY <1>3, <1>4, <1>6 DEF Count, InHand
      <3> QED BY <3>1, <3>2
    <2>2. \A n \in 1..s_read' : s2c'[n].id # i
      BY <1>0, <1>3, NothingRead, ClientActs DEF svars
    <2>3. ItemsOnly(events[i])' /\ ~Contract!Over(got[i])'
      BY <1>3, <1>4, <1>6 DEF ItemsOnly, Contract!Over
    <2>4. ReadOK(i, Count(i))'
      BY <2>1, <2>2 DEF ReadOK
    <2> QED BY <1>3, <1>4, <2>3, <2>4 DEF OpenOK
  <1>12. ResultOK(i)'
    BY <1>0, <1>2, <1>3, <1>4, <1>6, <1>7, ResultSame
  <1>13. View(i)'
    BY <1>8, <1>9, <1>10, <1>11, <1>12 DEF View
  <1>14. ASSUME NEW j \in Calls \ {i} PROVE got'[j] = got[j] /\ View(j)'
    <2>1. View(j)
      BY CallFacts
    <2> QED BY <1>0, <1>5, <2>1, ViewKept DEF Others, Untouched, Calm
  <1> QED BY <1>6, <1>13, <1>14

\* Steps that concern no call's outcomes.
LEMMA LoopCalm ==
    ASSUME IInv, ClientSteps, s_read' = s_read,
           \/ \E k \in {"unary", "stream"} : C!CheckErr(k)
           \/ C!RunStart \/ C!Unlist \/ C!Fail
    PROVE  \A j \in Calls : Untouched(j)
  <1> USE DEF C!callVars, C!chanVars, C!loopVars, C!wireVars
  <1>1. ASSUME NEW j \in Calls PROVE Untouched(j)
    <2>1. UNCHANGED <<events, resp, errc, result, ctx, kind, phase, over>>
      BY DEF C!CheckErr, C!RunStart, C!Unlist, C!Fail
    <2>2. Calm(j)
      BY <2>1, NothingHappens
    <2>3. LoopSame(j)
      <3>1. CASE \E k \in {"unary", "stream"} : C!CheckErr(k)
        BY <3>1, LoopRests DEF C!CheckErr
      <3>2. CASE C!RunStart
        BY <3>2, CallFacts DEF C!RunStart, LoopSame, InHand
      <3>3. CASE C!Unlist
        BY <3>3, CallFacts DEF C!Unlist, LoopSame, InHand
      <3>4. CASE C!Fail
        <4>1. /\ loop = "receiving" /\ loop' = "failing" /\ hand' = hand
              /\ over' = over /\ pending' = pending
          BY <3>4 DEF C!Fail
        <4>2. j \in pending /\ kind[j] = "stream" => j \notin over
          BY <4>1, CallFacts DEF Ends, CP!IInv, CP!InProgress
        <4> QED BY <4>1, <4>2 DEF LoopSame, InHand
      <3> QED BY <3>1, <3>2, <3>3, <3>4
    <2> QED BY <2>2, <2>3 DEF Untouched, Skips
  <1> QED BY <1>1

\* A stream's next message stands for the outcome after those that were read.
LEMMA NextOutcome ==
    ASSUME IInv, s_read < Len(s2c), NEW m, m = s2c[s_read + 1],
           NEW c \in Nat, ReadOK(m.id, c), kind[m.id] = "stream"
    PROVE  /\ Due(m.id, C!Outcome(m), c + 1)
           /\ m.type = "item" => m.body = c + 1
  <1>0. Ends /\ ReadsOK /\ AskedOK /\ ServerHalf /\ ClientHalf
    BY DEF IInv
  <1>1. PICK i \in Calls : i = m.id
    BY <1>0, Message
  <1>2. /\ m \in C!ServerMsg /\ C!Fits(m) /\ WellWritten(m, s_read + 1)
        /\ s_read + 1 \in DOMAIN s2c
        /\ m.type = "item" => m.body \in 1..items[i]
        /\ \A n \in 1..s_read : s2c[n].id = i =>
               /\ s2c[n].type = "item"
               /\ m.type = "item" => s2c[n].body < m.body
    <2>1. /\ m \in C!ServerMsg /\ C!Fits(m) /\ WellWritten(m, s_read + 1)
          /\ s_read + 1 \in DOMAIN s2c
          /\ m.type = "item" => m.body \in 1..items[m.id]
      BY <1>0, Message
    <2>2. \A n \in 1..s_read : s2c[n].id = m.id =>
              /\ s2c[n].type = "item"
              /\ m.type = "item" => s2c[n].body < m.body
      BY <1>0, Message
    <2> QED BY <1>1, <2>1, <2>2
  <1>3. /\ s_read \in Nat /\ 1..s_read = 1..((s_read + 1) - 1)
        /\ 1..s_read \subseteq DOMAIN s2c /\ items[i] \in Nat
    <2>1. s_read \in Nat /\ 1..s_read \subseteq DOMAIN s2c
      BY <1>0, EndsTyped DEF ReadsOK
    <2>2. items[i] \in Nat
      BY <1>0, CallTyped
    <2> QED BY <2>1, <2>2
  <1>4. /\ \A n \in 1..s_read : s2c[n].id = i /\ s2c[n].type = "item" => s2c[n].body <= c
        /\ c # 0 => \E n \in 1..s_read : s2c[n] = S!M("item", i, c)
    BY <1>1 DEF ReadOK
  <1>5. \A b : /\ S!M("item", i, b).type = "item" /\ S!M("item", i, b).id = i
               /\ S!M("item", i, b).body = b
    BY DEF S!M
  <1>6. CASE m.type = "item"
    <2>1. PICK b \in 1..items[i] : b = m.body
      BY <1>2, <1>6
    <2>2. b # 1 => b - 1 <= c
      <3>1. b # 1 => \E k \in 1..s_read : s2c[k] = S!M("item", i, b - 1)
        BY <1>1, <1>2, <1>3, <1>6, <2>1 DEF WellWritten
      <3> QED BY <1>4, <1>5, <3>1
    <2>3. c # 0 => c < b
      BY <1>2, <1>4, <1>5, <1>6, <2>1
    <2>4. b = c + 1
      BY <1>3, <2>1, <2>2, <2>3
    <2>5. C!Outcome(m) = Item(b)
      BY <1>6, <2>1 DEF C!Outcome, Item
    <2>6. Due(i, Item(b), b)
      BY <1>0, ItemDue
    <2> QED BY <1>1, <2>1, <2>4, <2>5, <2>6
  <1>7. CASE m.type # "item"
    <2>1. /\ handler[i] = "done" /\ m.type = reply[i] /\ m.body = 0
          /\ items[i] # 0 =>
                 \E k \in 1..s_read : s2c[k] = S!M("item", i, items[i])
      BY <1>1, <1>2, <1>3, <1>7 DEF WellWritten
    <2>2. items[i] # 0 => items[i] <= c
      BY <1>4, <1>5, <2>1
    <2>3. c # 0 => c <= items[i]
      <3>1. ASSUME NEW n \in 1..s_read, s2c[n] = S!M("item", i, c)
            PROVE  c <= items[i]
        <4>1. SP!Accounted(s2c[n])
          BY <1>0, <1>3 DEF Ends, SP!IInv, SP!WrittenByTask
        <4> QED BY <1>5, <3>1, <4>1 DEF SP!Accounted
      <3> QED BY <1>4, <3>1
    <2>4. c = items[i]
      BY <1>3, <2>2, <2>3
    <2>5. C!Outcome(m) = Contract!Seen(Final(reply[i]))
      <3>1. m.type \in {"end", "error"}
        BY <1>2, <1>7, Message DEF C!Fits
      <3> QED BY <2>1, <3>1
              DEF C!Outcome, Contract!Seen, Final, C!Closed, C!Plain
    <2>6. Due(i, Contract!Seen(Final(reply[i])), c + 1)
      BY <1>0, <2>1, <2>4, FinalDue DEF Returned
    <2> QED BY <1>1, <1>7, <2>5, <2>6
  <1> QED BY <1>6, <1>7

\* The message of a unary call is its answer.
LEMMA AnswerDue ==
    ASSUME IInv, s_read < Len(s2c), NEW m, m = s2c[s_read + 1],
           kind[m.id] = "unary"
    PROVE  Due(m.id, C!Outcome(m), 1)
  <1>0. Ends /\ ReadsOK /\ AskedOK /\ ServerHalf /\ ClientHalf
    BY DEF IInv
  <1>1. PICK i \in Calls : i = m.id
    BY <1>0, Message
  <1>2. C!Fits(m) /\ WellWritten(m, s_read + 1) /\ MadeOK(i)
    BY <1>0, <1>1, Message DEF ServerHalf
  <1>3. m.type \in {"response", "error"}
    BY <1>2 DEF C!Fits
  <1>4. handler[i] = "done" /\ m.type = reply[i] /\ m.body = 0
    BY <1>1, <1>2, <1>3 DEF WellWritten
  <1>5. items[i] = 0
    BY <1>1, <1>2 DEF MadeOK
  <1>6. Due(i, Contract!Seen(Final(reply[i])), 1)
    BY <1>0, <1>4, <1>5, FinalDue DEF Returned
  <1>7. C!Outcome(m) = Contract!Seen(Final(reply[i]))
    BY <1>3, <1>4 DEF C!Outcome, Contract!Seen, Final, C!Closed, C!Plain
  <1> QED BY <1>1, <1>6, <1>7

\* The client has read one item more.
LEMMA ReadNext ==
    ASSUME Ends, ReadsOK, NEW i \in Calls, NEW c \in Nat, ReadOK(i, c),
           s_read' = s_read + 1, s2c' = s2c, s2c[s_read + 1] = S!M("item", i, c + 1)
    PROVE  ReadOK(i, c + 1)'
  <1>1. s_read \in Nat
    BY EndsTyped DEF ReadsOK
  <1>2. S!M("item", i, c + 1).body = c + 1
    BY DEF S!M
  <1>3. ASSUME NEW n \in 1..(s_read + 1), s2c[n].id = i, s2c[n].type = "item"
        PROVE  s2c[n].body <= c + 1
    <2>1. CASE n \in 1..s_read
      <3>1. s2c[n].body \in Nat
        <4>1. n \in DOMAIN s2c
          BY <2>1, EndsTyped DEF ReadsOK
        <4>2. s2c[n] \in S!Msg
          BY <4>1, EndsTyped
        <4> QED BY <4>2 DEF S!Msg
      <3> QED BY <1>3, <2>1, <3>1 DEF ReadOK
    <2>2. CASE n = s_read + 1
      BY <1>2, <2>2
    <2> QED BY <1>1, <2>1, <2>2
  <1>4. s_read + 1 \in 1..(s_read + 1)
    BY <1>1
  <1> QED BY <1>3, <1>4 DEF ReadOK, S!M

\* A message whose caller cannot be found changes nothing; one whose caller
\* can be found is taken in hand.
LEMMA KeptReceive ==
    ASSUME IInv, ClientSteps, s_read < Len(s2c), s_read' = s_read + 1,
           C!Receive(s2c[s_read + 1])
    PROVE  \A j \in Calls : got'[j] = got[j] /\ View(j)'
  <1> USE DEF C!callVars, C!chanVars, C!wireVars
  <1>0. /\ Ends /\ ReadsOK /\ AskedOK /\ ServerHalf /\ ClientHalf /\ GotTyped
        /\ Onward /\ s2c' = s2c
    BY ClientOnward, ClientActs DEF IInv, ClientHalf, svars
  <1>1. PICK m : m = s2c[s_read + 1]
    OBVIOUS
  <1>2. PICK i \in Calls : i = m.id
    BY <1>0, <1>1, Message
  <1>3. /\ m \in C!ServerMsg /\ C!Fits(m)
    BY <1>0, <1>1, Message
  <1>4. /\ loop = "receiving"
        /\ over' = IF m.type = "item" THEN over ELSE over \cup {i}
        /\ IF i \in pending THEN loop' = "handling" /\ hand' = m
                            ELSE UNCHANGED <<loop, hand>>
        /\ UNCHANGED <<events, resp, errc, result, ctx, kind, phase, pending>>
    BY <1>1, <1>2 DEF C!Receive
  <1>5. \A j \in Calls : Calm(j) /\ View(j) /\ ~InHand(j)
    BY <1>4, NothingHappens, CallFacts DEF InHand
  <1>6. \A j \in Calls : got'[j] = got[j]
    BY <1>5 DEF Calm
  <1>7. ASSUME NEW j \in Calls \ {i} PROVE View(j)'
    <2>1. ~InHand(j)'
      BY <1>2, <1>4 DEF InHand
    <2>2. LoopSame(j)
      BY <1>4, <1>5, <2>1 DEF LoopSame
    <2>3. Skips(j)
      BY <1>0, <1>1, <1>2 DEF Skips
    <2> QED BY <1>0, <1>5, <2>2, <2>3, ViewKept
  <1>8. /\ EventsOK(i)' /\ AnswersOK(i)' /\ ResultOK(i)'
        /\ Contract!Over(got[i])' <=> Contract!Over(got[i])
        /\ ItemsOnly(events[i])' <=> ItemsOnly(events[i])
    BY <1>0, <1>5, CalmKept
  <1>9. ASSUME i \notin pending PROVE View(i)'
    BY <1>4, <1>5, <1>8, <1>9 DEF View, InHandOK, InHand, OpenOK
  <1>10. ASSUME i \in pending PROVE View(i)'
    <2>1. PICK c \in Nat : c = Count(i)
      BY <1>0, ViewTyped
    <2>2. PICK v : v = C!Outcome(m)
      OBVIOUS
    <2>3. Count(i)' = c + 1 /\ C!Outcome(hand)' = v
      <3>1. got'[i] = got[i] /\ events'[i] = events[i] /\ InHand(i)'
        BY <1>2, <1>4, <1>6, <1>10 DEF InHand
      <3>2. c = Len(got[i]) + Len(events[i])
        BY <1>0, <1>5, <2>1, ViewTyped
      <3>3. Count(i)' = Len(got[i]) + Len(events[i]) + 1
        BY <3>1 DEF Count
      <3> QED BY <1>4, <1>10, <2>2, <3>2, <3>3 DEF C!Outcome
    <2>4. kind[i] = "stream" =>
              /\ i \notin over /\ ItemsOnly(events[i]) /\ ~Contract!Over(got[i])
              /\ ReadOK(i, c)
      <3>1. i \notin over
        BY <1>2, <1>3 DEF C!Fits
      <3> QED BY <1>4, <1>5, <1>10, <2>1, <3>1 DEF View, OpenOK
    <2>5. CASE kind[i] = "unary"
      <3>1. Due(i, v, 1)'
        BY <1>0, <1>1, <1>2, <2>2, <2>5, AnswerDue, DueKept
      <3>2. InHandOK(i)'
        BY <1>4, <2>3, <2>5, <3>1 DEF InHandOK, Due
      <3>3. OpenOK(i)'
        BY <1>4, <2>5 DEF OpenOK
      <3> QED BY <1>8, <3>2, <3>3 DEF View
    <2>6. CASE kind[i] = "stream"
      <3>1. Due(i, v, c + 1) /\ (m.type = "item" => m.body = c + 1)
        BY <1>1, <1>2, <2>2, <2>4, <2>6, NextOutcome
      <3>2. Due(i, v, c + 1)'
        BY <1>0, <3>1, DueKept
      <3>3. InHandOK(i)'
        <4>1. Due(i, C!Outcome(hand), Count(i))'
          BY <2>3, <3>2 DEF Due
        <4> QED BY <1>4, <1>8, <2>4, <2>6, <4>1 DEF InHandOK
      <3>4. OpenOK(i)'
        <4>1. CASE m.type = "item"
          <5>1. m = S!M("item", i, c + 1)
            BY <1>2, <1>3, <3>1, <4>1 DEF C!ServerMsg, S!M
          <5>2. ReadOK(i, c + 1)'
            BY <1>0, <1>1, <2>4, <2>6, <5>1, ReadNext
          <5>3. ReadOK(i, Count(i))'
            BY <2>3, <5>2 DEF ReadOK
          <5> QED BY <1>4, <1>8, <1>10, <2>4, <2>6, <5>3 DEF OpenOK
        <4>2. CASE m.type # "item"
          BY <1>4, <1>10, <4>2 DEF OpenOK
        <4> QED BY <4>1, <4>2
      <3> QED BY <1>8, <3>3, <3>4 DEF View
    <2> QED BY <1>0, <2>5, <2>6, CallTyped
  <1> QED BY <1>6, <1>7, <1>9, <1>10

\* What the loop puts into the channel of a unary call is an answer.
LEMMA AnswersGrow ==
    ASSUME Onward, NEW i \in Calls, NEW q \in Seq(C!Value), NEW v \in C!Value,
           \A n \in DOMAIN q : Due(i, q[n], 1), Due(i, v, 1),
           NEW r, r \in {q, C!Offer(q, v, 1)}
    PROVE  \A n \in DOMAIN r : Due(i, r[n], 1)'
  <1>1. \A n \in DOMAIN q : Due(i, q[n], 1)'
    <2>1. ASSUME NEW n \in DOMAIN q PROVE Due(i, q[n], 1)'
      <3>1. PICK w : w = q[n]
        OBVIOUS
      <3>2. Due(i, w, 1)'
        BY <3>1, DueKept
      <3> QED BY <3>1, <3>2 DEF Due
    <2> QED BY <2>1
  <1>2. Due(i, v, 1)'
    BY DueKept
  <1>3. CASE r = q
    BY <1>1, <1>3
  <1>4. CASE r = Append(q, v)
    <2>1. /\ Len(q) \in Nat /\ DOMAIN q = 1..Len(q)
          /\ DOMAIN r = 1..(Len(q) + 1) /\ r[Len(q) + 1] = v
          /\ \A n \in 1..Len(q) : r[n] = q[n]
      BY <1>4, AppendProperties, LenProperties
    <2>2. ASSUME NEW n \in DOMAIN r PROVE Due(i, r[n], 1)'
      <3>1. CASE n \in 1..Len(q)
        BY <1>1, <2>1, <3>1 DEF Due
      <3>2. CASE n = Len(q) + 1
        BY <1>2, <2>1, <3>2 DEF Due
      <3> QED BY <2>1, <3>1, <3>2
    <2> QED BY <2>2
  <1> QED BY <1>3, <1>4 DEF C!Offer

\* What the loop holds, handled, is in the channel of its call.
LEMMA KeptHandle ==
    ASSUME IInv, ClientSteps, s_read' = s_read, C!Handle
    PROVE  \A j \in Calls : got'[j] = got[j] /\ View(j)'
  <1> USE DEF C!callVars, C!chanVars, C!wireVars
  <1>0. /\ Ends /\ ReadsOK /\ AskedOK /\ ServerHalf /\ ClientHalf /\ GotTyped
        /\ Onward /\ s2c' = s2c /\ C!TypeOK
    BY ClientOnward, ClientActs, EndsTyped DEF IInv, ClientHalf, svars
  <1>1. /\ loop = "handling" /\ hand \in C!ServerMsg /\ hand.id \in asked
        /\ hand.type = "item" <=> hand.id \notin over
        /\ hand.type \in IF kind[hand.id] = "unary"
                           THEN {"response", "error"} ELSE {"item", "end", "error"}
    <2>1. loop = "handling" /\ CP!InHand
      BY <1>0 DEF C!Handle, Ends, CP!IInv
    <2>2. hand \in C!ServerMsg
      BY <2>1 DEF CP!InHand, CP!ServerMsg, C!ServerMsg
    <2> QED BY <2>1, <2>2 DEF CP!InHand
  <1>2. PICK i \in Calls : i = hand.id
    BY <1>1 DEF C!ServerMsg
  <1>3. /\ UNCHANGED <<result, ctx, kind, phase, pending, over, recvErr>>
        /\ loop' \in {"receiving", "unlisting"}
    BY DEF C!Handle, C!Handled
  <1>4. PICK v : v = C!Outcome(hand)
    OBVIOUS
  <1>5. /\ DOMAIN resp = Calls /\ DOMAIN errc = Calls /\ DOMAIN events = Calls
        /\ resp[i] \in Seq(C!Value) /\ errc[i] \in Seq(C!Value)
    BY <1>0, CallFacts, CallTyped
  <1>6. /\ \A j \in Calls \ {i} : /\ events'[j] = events[j] /\ resp'[j] = resp[j]
                                  /\ errc'[j] = errc[j]
        /\ kind[i] = "unary" => /\ events'[i] = events[i]
                                /\ resp'[i] \in {resp[i], C!Offer(resp[i], v, 1)}
                                /\ errc'[i] \in {errc[i], C!Offer(errc[i], v, 1)}
        /\ kind[i] = "stream" => /\ resp'[i] = resp[i] /\ errc'[i] = errc[i]
                                 /\ events'[i] = C!Offer(events[i], v, StreamCap)
    BY <1>1, <1>2, <1>4, <1>5 DEF C!Handle
  <1>7. ASSUME NEW j \in Calls \ {i} PROVE got'[j] = got[j] /\ View(j)'
    <2>1. Calm(j)
      BY <1>3, <1>6, NothingHappens
    <2>2. LoopSame(j)
      BY <1>1, <1>2, <1>3 DEF LoopSame, InHand
    <2>3. View(j)
      BY CallFacts
    <2> QED BY <1>0, <2>1, <2>2, <2>3, ViewKept DEF Calm, Skips
  <1>8. got'[i] = got[i]
    BY <1>0, <1>3, ToldNothing, ClientActs
  <1>9. /\ View(i) /\ ResultOK(i) /\ EventsOK(i) /\ AnswersOK(i) /\ InHandOK(i)
        /\ InHand(i) /\ OpenOK(i)
    BY <1>1, <1>2, CallFacts DEF InHand
  <1>10. phase[i] # "unused"
    BY <1>0, <1>1, <1>2 DEF AskedOK
  <1>11. ResultOK(i)'
    <2>1. phase'[i] \in {"unused", "sending", "failed", "waiting"} => got[i] = <<>>
      BY <1>3, <1>9 DEF ResultOK
    <2> QED BY <1>0, <1>3, <1>8, <1>9, <1>10, <2>1, ResultSame
  <1>12. ~InHand(i)' /\ InHandOK(i)'
    BY <1>3 DEF InHandOK, InHand
  <1>13. ASSUME kind[i] = "unary" PROVE View(i)'
    <2>1. Due(i, v, 1)
      BY <1>4, <1>9, <1>13 DEF InHandOK
    <2>2. v \in C!Value
      BY <1>0, <2>1, DueValue
    <2>3. AnswersOK(i)'
      <3>1. PICK q : q = resp'[i]
        OBVIOUS
      <3>2. PICK r : r = errc'[i]
        OBVIOUS
      <3>3. /\ \A n \in DOMAIN q : Due(i, q[n], 1)'
            /\ \A n \in DOMAIN r : Due(i, r[n], 1)'
        BY <1>0, <1>5, <1>6, <1>9, <1>13, <2>1, <2>2, <3>1, <3>2, AnswersGrow
           DEF AnswersOK
      <3> QED BY <3>1, <3>2, <3>3 DEF AnswersOK, Due
    <2>4. events[i] = <<>>
      BY <1>9, <1>13 DEF EventsOK
    <2>5. EventsOK(i)'
      BY <1>6, <1>13, <2>4 DEF EventsOK, DueFrom
    <2>6. OpenOK(i)'
      BY <1>3, <1>13 DEF OpenOK
    <2> QED BY <1>11, <1>12, <2>3, <2>5, <2>6 DEF View
  <1>14. ASSUME kind[i] = "stream" PROVE View(i)'
    <2>1. PICK q \in Seq(C!Value) : q = events[i]
      BY <1>0, ViewTyped
    <2>2. PICK g \in Nat : g = Len(got[i])
      BY <1>0, ViewTyped
    <2>3. /\ Count(i) = g + Len(q) + 1 /\ g + Len(q) + 1 \in Nat
      BY <1>0, <1>9, <2>1, <2>2, ViewTyped
    <2>4. /\ Due(i, v, g + Len(q) + 1) /\ ItemsOnly(q) /\ ~Contract!Over(got[i])
          /\ DueFrom(i, q, g)
      BY <1>4, <1>9, <1>14, <2>1, <2>2, <2>3 DEF InHandOK, EventsOK
    <2>5. v \in C!Value
      BY <1>0, <2>3, <2>4, DueValue
    <2>6. PICK r \in Seq(C!Value) : r = Append(q, v)
      BY <2>5, AppendProperties
    <2>7. events'[i] = r
      BY <1>0, <1>6, <1>14, <2>1, <2>4, <2>6, HasRoom DEF C!Offer
    <2>8. /\ DueFrom(i, r, g) /\ (v.type = "item" => ItemsOnly(r))
          /\ Len(r) = Len(q) + 1
      BY <2>4, <2>5, <2>6, DueAppend
    <2>9. PICK o : o = got[i]
      OBVIOUS
    <2>10. EventsOK(i)'
      <3>1. kind'[i] # "unary" /\ got'[i] = o /\ Len(o) = g /\ ~Contract!Over(o)
        BY <1>3, <1>8, <1>14, <2>2, <2>4, <2>9
      <3> QED BY <1>0, <2>7, <2>8, <3>1, NextEvents
    <2>11. AnswersOK(i)'
      BY <1>0, <1>6, <1>9, <1>14, AnswersKept
    <2>12. OpenOK(i)'
      <3>1. Count(i)' = Count(i)
        <4>1. Len(got'[i]) = g /\ Len(events'[i]) = Len(q) + 1
          BY <1>8, <2>2, <2>7, <2>8
        <4>2. Count(i)' = g + (Len(q) + 1) + 0
          BY <1>12, <4>1 DEF Count
        <4>3. PICK l \in Nat : l = Len(q)
          BY LenProperties
        <4>4. g + (l + 1) + 0 = g + l + 1
          OBVIOUS
        <4> QED BY <2>3, <4>2, <4>3, <4>4
      <3>2. ASSUME i \in pending, i \notin over PROVE ReadOK(i, Count(i))'
        <4>1. PICK c \in Nat : c = Count(i)
          BY <2>3
        <4>2. ReadOK(i, c)
          BY <1>1, <1>9, <1>14, <3>2, <4>1 DEF OpenOK
        <4>3. ReadOK(i, c)'
          BY <1>0, <4>2 DEF ReadOK
        <4> QED BY <3>1, <4>1, <4>3 DEF ReadOK
      <3>3. i \notin over => ItemsOnly(events[i])'
        <4>1. i \notin over => v.type = "item"
          BY <1>1, <1>2, <1>4 DEF C!Outcome
        <4>2. ItemsOnly(events[i])' <=> ItemsOnly(r)
          BY <2>7 DEF ItemsOnly
        <4> QED BY <2>8, <4>1, <4>2
      <3>4. ~Contract!Over(got[i])'
        BY <1>8, <2>4 DEF Contract!Over
      <3> QED BY <1>3, <3>2, <3>3, <3>4 DEF OpenOK
    <2> QED BY <1>11, <1>12, <2>10, <2>11, <2>12 DEF View
  <1>15. View(i)'
    BY <1>0, <1>13, <1>14, CallTyped
  <1> QED BY <1>7, <1>8, <1>15

\* A client that fails tells the calls it knows, after what they have got.
LEMMA KeptNotify ==
    ASSUME IInv, ClientSteps, s_read' = s_read, C!NotifyAll
    PROVE  \A j \in Calls : got'[j] = got[j] /\ View(j)'
  <1> USE DEF C!callVars
  <1>0. /\ Ends /\ ReadsOK /\ ServerHalf /\ ClientHalf /\ GotTyped /\ Onward
        /\ recvErr
    BY ClientOnward DEF IInv, ClientHalf, OverOK, C!NotifyAll
  <1> SUFFICES ASSUME NEW i \in Calls PROVE got'[i] = got[i] /\ View(i)'
    OBVIOUS
  <1>1. /\ loop = "failing" /\ loop' = "exited"
        /\ UNCHANGED <<result, ctx, kind, phase, pending, over, resp>>
        /\ errc'[i] = IF i \in pending /\ kind[i] = "unary"
                        THEN C!Offer(errc[i], C!Down, 1) ELSE errc[i]
        /\ events'[i] = IF i \in pending /\ kind[i] = "stream"
                          THEN C!Offer(events[i], C!Down, StreamCap) ELSE events[i]
    BY DEF C!NotifyAll
  <1>2. got'[i] = got[i]
    BY <1>0, <1>1, ToldNothing, ClientActs
  <1>3. /\ ResultOK(i) /\ EventsOK(i) /\ AnswersOK(i) /\ OpenOK(i)
        /\ i \in pending => phase[i] # "unused"
        /\ resp[i] \in Seq(C!Value) /\ errc[i] \in Seq(C!Value)
        /\ kind[i] \in {"unary", "stream"}
    BY <1>0, CallFacts, CallTyped DEF ClientHalf, Begun
  <1>4. C!Down \in C!Value /\ \A k : Due(i, C!Down, k)
    BY <1>0, Constants DEF Due, C!Down, C!Plain, C!Value
  <1>5. InHandOK(i)' /\ OpenOK(i)'
    BY <1>1 DEF InHandOK, InHand, OpenOK
  <1>6. ResultOK(i)'
    <2>1. phase[i] = "unused" => events'[i] = <<>>
      BY <1>1, <1>3 DEF ResultOK
    <2>2. phase'[i] \in {"unused", "sending", "failed", "waiting"} => got[i] = <<>>
      BY <1>1, <1>3 DEF ResultOK
    <2> QED BY <1>0, <1>1, <1>2, <1>3, <2>1, <2>2, ResultSame
  <1>7. AnswersOK(i)'
    <2>1. PICK q : q = resp'[i]
      OBVIOUS
    <2>2. PICK r : r = errc'[i]
      OBVIOUS
    <2>3. r \in {errc[i], C!Offer(errc[i], C!Down, 1)} /\ q = resp[i]
      BY <1>1, <2>1, <2>2
    <2>4. /\ \A n \in DOMAIN q : Due(i, q[n], 1)'
          /\ \A n \in DOMAIN r : Due(i, r[n], 1)'
      BY <1>0, <1>3, <1>4, <2>3, AnswersGrow DEF AnswersOK
    <2> QED BY <2>1, <2>2, <2>4 DEF AnswersOK, Due
  <1>8. EventsOK(i)'
    <2>1. PICK q \in Seq(C!Value) : q = events[i]
      BY <1>0, ViewTyped
    <2>2. PICK g \in Nat : g = Len(got[i])
      BY <1>0, ViewTyped
    <2>3. PICK o : o = got[i]
      OBVIOUS
    <2>4. DueFrom(i, q, g) /\ (kind[i] = "unary" => q = <<>>)
          /\ (q # <<>> => ~Contract!Over(o) \/ phase[i] = "done")
      BY <1>3, <2>1, <2>2, <2>3 DEF EventsOK
    <2>5. CASE i \in pending /\ kind[i] = "stream"
      <3>1. ItemsOnly(q) /\ ~Contract!Over(o)
        BY <1>1, <1>3, <2>1, <2>3, <2>5 DEF OpenOK
      <3>2. PICK r \in Seq(C!Value) : r = Append(q, C!Down)
        BY <1>4, AppendProperties
      <3>3. events'[i] = r
        BY <1>0, <1>1, <2>1, <2>4, <2>5, <3>1, <3>2, HasRoom DEF C!Offer
      <3>4. DueFrom(i, r, g)
        BY <1>4, <2>4, <3>1, <3>2, DueAppend
      <3> QED BY <1>0, <1>1, <1>2, <2>2, <2>3, <2>5, <3>1, <3>3, <3>4, NextEvents
    <2>6. CASE ~(i \in pending /\ kind[i] = "stream")
      BY <1>0, <1>1, <1>2, <2>1, <2>2, <2>3, <2>4, <2>6, NextEvents
    <2> QED BY <2>5, <2>6
  <1> QED BY <1>2, <1>5, <1>6, <1>7, <1>8 DEF View

-----------------------------------------------------------------------------
(* The invariant. *)

\* What a step of the client does to what callers were told.
LEMMA ClientTells ==
    ASSUME IInv, ClientSteps
    PROVE  /\ \A j \in Calls : View(j)'
           /\ \/ \A j \in Calls : got'[j] = got[j]
              \/ \E i \in Calls, v \in C!Value :
                     /\ got'[i] = Append(got[i], v) /\ ~Contract!Over(got[i])
                     /\ \/ Due(i, v, Len(got[i]) + 1)
                        \/ v = C!Down /\ phase[i] = "failed"
                     /\ \A j \in Calls \ {i} : got'[j] = got[j]
  <1>0. /\ Ends /\ ReadsOK /\ ClientHalf /\ GotTyped /\ Onward
        /\ \A j \in Calls : View(j)
    BY ClientOnward DEF IInv, ClientHalf
  <1>1. ASSUME NEW j \in Calls, Untouched(j) PROVE got'[j] = got[j] /\ View(j)'
    BY <1>0, <1>1, ViewKept DEF Untouched, Calm
  <1>2. ASSUME NEW i \in Calls, s_read' = s_read,
               C!SendFailed(i) \/ C!UnaryResponse(i) \/ C!UnaryError(i) \/ C!RecvItem(i)
        PROVE  /\ \A j \in Calls : View(j)'
               /\ \E v \in C!Value :
                     /\ got'[i] = Append(got[i], v) /\ ~Contract!Over(got[i])
                     /\ \/ Due(i, v, Len(got[i]) + 1)
                        \/ v = C!Down /\ phase[i] = "failed"
               /\ \A j \in Calls \ {i} : got'[j] = got[j]
    <2>1. \A j \in Calls \ {i} : got'[j] = got[j] /\ View(j)'
      BY <1>1, <1>2, ToldOthers DEF Others
    <2>2. /\ View(i)'
          /\ \E v \in C!Value :
                 /\ got'[i] = Append(got[i], v) /\ ~Contract!Over(got[i])
                 /\ \/ Due(i, v, Len(got[i]) + 1)
                    \/ v = C!Down /\ phase[i] = "failed"
      <3>1. CASE C!SendFailed(i)
        <4>1. C!Down \in C!Value /\ phase[i] = "failed"
          BY <3>1, Constants DEF C!SendFailed, C!Down, C!Plain, C!Value
        <4> QED BY <1>2, <3>1, <4>1, KeptFailed
      <3>2. CASE C!UnaryResponse(i) \/ C!UnaryError(i)
        BY <1>2, <3>2, KeptAnswered
      <3>3. CASE C!RecvItem(i)
        BY <1>2, <3>3, KeptItem
      <3> QED BY <1>2, <3>1, <3>2, <3>3
    <2> QED BY <2>1, <2>2
  <1>3. CASE s_read < Len(s2c) /\ s_read' = s_read + 1 /\ C!Receive(s2c[s_read + 1])
    BY <1>3, KeptReceive
  <1>4. ASSUME s_read' = s_read,
               \/ \E k \in {"unary", "stream"} : C!CheckErr(k)
               \/ C!RunStart \/ C!Unlist \/ C!Fail
        PROVE  \A j \in Calls : got'[j] = got[j] /\ View(j)'
    BY <1>1, <1>4, LoopCalm
  <1>5. ASSUME s_read' = s_read, NEW k \in {"unary", "stream"}, C!Register(k)
        PROVE  \A j \in Calls : got'[j] = got[j] /\ View(j)'
    BY <1>5, KeptRegister
  <1>6. ASSUME s_read' = s_read, C!Handle \/ C!NotifyAll
        PROVE  \A j \in Calls : got'[j] = got[j] /\ View(j)'
    BY <1>6, KeptHandle, KeptNotify
  <1>7. ASSUME s_read' = s_read, NEW i \in Calls, Proceeds(i)
        PROVE  \A j \in Calls : got'[j] = got[j] /\ View(j)'
    BY <1>1, <1>7, ProceedsCalm
  <1>8. ASSUME s_read' = s_read, NEW i \in Calls, C!Caller(i) \/ C!CancelStream(i)
        PROVE  \/ Proceeds(i)
               \/ C!SendFailed(i) \/ C!UnaryResponse(i) \/ C!UnaryError(i) \/ C!RecvItem(i)
    BY <1>8, NoCtx DEF C!Caller, Proceeds
  <1>9. CASE s_read' = s_read /\ \E i \in Calls : C!Caller(i) \/ C!CancelStream(i)
    BY <1>2, <1>7, <1>8, <1>9
  <1>10. CASE s_read' = s_read /\ (C!Run \/ C!Fail)
    BY <1>4, <1>6, <1>10 DEF C!Run
  <1> QED BY <1>0, <1>3, <1>4, <1>5, <1>9, <1>10, ClientActs

\* What is over was read to its end, and what is in the map has begun.
LEMMA NextOver ==
    ASSUME IInv, ClientSteps
    PROVE  OverOK' /\ Begun'
  <1> USE DEF C!callVars, C!loopVars
  <1>0. /\ Ends /\ ReadsOK /\ OverOK /\ Begun /\ C!TypeOK /\ s2c' = s2c
        /\ s_read \in Nat
    BY ClientActs, EndsTyped DEF IInv, ClientHalf, svars, ReadsOK
  <1>1. /\ loop' = "failing" => loop = "failing" \/ recvErr'
        /\ recvErr => recvErr'
    BY ClientActs, ClientOnward
       DEF IInv, Onward, C!CheckErr, C!Register, C!Caller, C!CancelStream, C!Run,
           C!Fail, C!Receive, C!RunStart, C!Handle, C!Handled, C!Unlist, C!NotifyAll,
           C!WriteRequest, C!SendRequest, C!SendFailed, C!UnaryDone, C!UnaryResponse,
           C!UnaryError, C!RecvDone, C!RecvItem, C!SendCancel, C!Leave
  <1>2. \/ over' = over /\ s_read' = s_read
        \/ /\ s_read' = s_read + 1
           /\ over' = IF s2c[s_read + 1].type = "item" THEN over
                                                       ELSE over \cup {s2c[s_read + 1].id}
    BY ClientActs
       DEF IInv, C!CheckErr, C!Register, C!Caller, C!CancelStream, C!Run, C!Fail,
           C!Receive, C!RunStart, C!Handle, C!Unlist, C!NotifyAll, C!WriteRequest,
           C!SendRequest, C!SendFailed, C!UnaryDone, C!UnaryResponse, C!UnaryError,
           C!RecvDone, C!RecvItem, C!SendCancel, C!Leave
  <1>3. ASSUME NEW i \in over'
        PROVE  \E n \in 1..s_read' : s2c'[n].id = i /\ s2c'[n].type # "item"
    <2>1. CASE i \in over
      <3>1. PICK n \in 1..s_read : s2c[n].id = i /\ s2c[n].type # "item"
        BY <1>0, <2>1 DEF OverOK
      <3>2. n \in 1..s_read'
        BY <1>0, <1>2
      <3> QED BY <1>0, <3>1, <3>2
    <2>2. CASE i \notin over
      <3>1. /\ s_read' = s_read + 1 /\ s2c[s_read + 1].id = i
            /\ s2c[s_read + 1].type # "item"
        BY <1>2, <1>3, <2>2
      <3>2. s_read + 1 \in 1..s_read'
        BY <1>0, <3>1
      <3> QED BY <1>0, <3>1, <3>2
    <2> QED BY <2>1, <2>2
  <1>4. \/ pending' \subseteq pending
           /\ \A j \in Calls : phase'[j] = "unused" => phase[j] = "unused"
        \/ \E k \in {"unary", "stream"} : C!Register(k)
    <2>1. ASSUME NEW i \in Calls, C!Caller(i) \/ C!CancelStream(i)
          PROVE  /\ pending' \subseteq pending
                 /\ phase' = phase \/ \E h : h # "unused" /\ phase' = [phase EXCEPT ![i] = h]
      <3>1. CASE C!WriteRequest(i) \/ C!SendRequest(i) \/ C!SendFailed(i)
        BY <3>1 DEF C!WriteRequest, C!SendRequest, C!SendFailed
      <3>2. CASE C!UnaryDone(i) \/ C!UnaryResponse(i) \/ C!UnaryError(i)
        BY <3>2 DEF C!UnaryDone, C!UnaryResponse, C!UnaryError
      <3>3. CASE C!RecvDone(i) \/ C!RecvItem(i)
        BY <3>3 DEF C!RecvDone, C!RecvItem
      <3>4. CASE C!SendCancel(i) \/ C!CancelStream(i)
        BY <3>4 DEF C!SendCancel, C!CancelStream
      <3>5. CASE C!Leave(i)
        BY <3>5 DEF C!Leave
      <3> QED BY <2>1, <3>1, <3>2, <3>3, <3>4, <3>5 DEF C!Caller
    <2>2. ASSUME NEW i \in Calls, C!Caller(i) \/ C!CancelStream(i)
          PROVE  /\ pending' \subseteq pending
                 /\ \A j \in Calls : phase'[j] = "unused" => phase[j] = "unused"
      <3>1. DOMAIN phase = Calls
        BY <1>0 DEF C!TypeOK
      <3> QED BY <2>1, <2>2, <3>1
    <2>3. \A k \in {"unary", "stream"} :
              C!CheckErr(k) => pending' \subseteq pending /\ phase' = phase
      BY DEF C!CheckErr
    <2>4. C!Run \/ C!Fail \/ C!Receive(s2c[s_read + 1]) =>
              pending' \subseteq pending /\ phase' = phase
      BY DEF C!Run, C!Fail, C!Receive, C!RunStart, C!Handle, C!Unlist, C!NotifyAll
    <2> QED BY <1>0, <2>2, <2>3, <2>4, ClientActs
  <1>5. Begun'
    <2>1. CASE \E k \in {"unary", "stream"} : C!Register(k)
      <3>1. /\ pending' = pending \cup {next_id}
            /\ phase' = [phase EXCEPT ![next_id] = "sending"]
        BY <2>1 DEF C!Register
      <3>2. DOMAIN phase = Calls /\ next_id \in Calls
        BY <1>0, <2>1, NewId DEF C!TypeOK
      <3> QED BY <1>0, <3>1, <3>2 DEF Begun
    <2>2. pending \subseteq Calls
      BY <1>0 DEF C!TypeOK
    <2> QED BY <1>0, <1>4, <2>1, <2>2 DEF Begun
  <1> QED BY <1>0, <1>1, <1>3, <1>5 DEF OverOK

\* So the client keeps its half.
LEMMA ClientClient ==
    ASSUME IInv, ClientSteps
    PROVE  ClientHalf'
  <1>1. GotTyped'
    <2>1. got' = [i \in Calls |-> got[i] \o Told(i)] /\ GotTyped
      BY ClientActs DEF IInv, ClientHalf
    <2>2. ASSUME NEW j \in Calls PROVE got'[j] \in Seq(C!Value)
      <3>1. got'[j] = got[j] \/ \E v \in C!Value : got'[j] = Append(got[j], v)
        BY ClientTells
      <3>2. got[j] \in Seq(C!Value)
        BY <2>1 DEF GotTyped
      <3>3. \A v \in C!Value : Append(got[j], v) \in Seq(C!Value)
        BY <3>2, AppendProperties
      <3> QED BY <3>1, <3>2, <3>3
    <2>3. C!Value' = C!Value
      BY DEF C!Value
    <2> QED BY <2>1, <2>2 DEF GotTyped
  <1> QED BY <1>1, ClientTells, NextOver DEF ClientHalf

\* A client that takes no step keeps its view of every call.
LEMMA ShownNothing ==
    ASSUME IInv, Onward, UNCHANGED <<cvars, s_read, got>>, NEW j \in Calls
    PROVE  View(j)'
  <1>1. Ends /\ ReadsOK /\ GotTyped /\ View(j) /\ OpenOK(j)
    BY CallFacts
  <1>2. Calm(j)
    BY DEF cvars, Calm
  <1>3. LoopSame(j)
    BY <1>1 DEF cvars, LoopSame, InHand, OpenOK
  <1> QED BY <1>1, <1>2, <1>3, ViewKept DEF Skips

\* A step of the server shows the client nothing.
LEMMA ServerClient ==
    ASSUME IInv, ServerMove
    PROVE  ClientHalf'
  <1>0. Ends /\ ReadsOK /\ ClientHalf /\ GotTyped /\ OverOK /\ Begun /\ Onward
    BY ServerOnward DEF IInv, ClientHalf
  <1>1. UNCHANGED <<cvars, s_read, got>>
    BY DEF ServerMove, ServerRead, ServerTask, ServerExit, ServerStep
  <1>2. \A j \in Calls : View(j)'
    BY <1>0, <1>1, ShownNothing
  <1>3. OverOK'
    BY <1>0, <1>1 DEF OverOK, Onward, cvars
  <1>4. Begun' /\ GotTyped'
    BY <1>0, <1>1 DEF Begun, GotTyped, cvars
  <1> QED BY <1>2, <1>3, <1>4 DEF ClientHalf

\* Two ends that were just started satisfy the invariant.
LEMMA InitIInv == Init => IInv
  <1> SUFFICES ASSUME Init PROVE IInv
    OBVIOUS
  <1>0. /\ C!Init /\ S!Init /\ c2s = <<>> /\ c_read = 0 /\ s_read = 0
        /\ made = [i \in Calls |-> <<>>] /\ got = [i \in Calls |-> <<>>]
    BY DEF Init
  <1>1. Ends
    BY <1>0, SameServer, SameClient, SP!InitIInv, CP!InitIInv, Constants DEF Ends
  <1>2. /\ c2s = <<>> /\ s2c = <<>> /\ Len(<<>>) = 0 /\ DOMAIN s2c = {}
        /\ DOMAIN c2s = {}
    BY <1>0, EmptySeq DEF S!Init
  <1>3. ReadsOK
    BY <1>0, <1>2, EmptySeq DEF ReadsOK
  <1>4. AskedOK
    BY <1>0, <1>2 DEF S!Init, C!Init, AskedOK
  <1>5. \A i \in Calls : made[i] = <<>> /\ got[i] = <<>> /\ Len(<<>>) = 0
    BY <1>0, EmptySeq
  <1>6. ServerHalf
    <2>1. \A i \in Calls : handler[i] = "none" /\ items[i] = 0
      BY <1>0 DEF S!Init
    <2>2. \A i \in Calls : MadeOK(i) /\ LastItemWritten(i)
      BY <1>5, <2>1 DEF MadeOK, Returned, LastItemWritten
    <2>3. MadeTyped
      BY <1>0, EmptySeq DEF MadeTyped
    <2> QED BY <1>2, <2>2, <2>3 DEF ServerHalf
  <1>7. ClientHalf
    <2>1. GotTyped
      BY <1>0, EmptySeq DEF GotTyped
    <2>2. OverOK /\ Begun
      BY <1>0 DEF C!Init, OverOK, Begun
    <2>3. ASSUME NEW i \in Calls PROVE View(i)
      <3>1. /\ events[i] = <<>> /\ resp[i] = <<>> /\ errc[i] = <<>> /\ loop = "new"
            /\ pending = {} /\ phase[i] = "unused" /\ ctx[i] = "live"
            /\ result[i] = C!None /\ got[i] = <<>>
        BY <1>0 DEF C!Init
      <3>2. EventsOK(i) /\ AnswersOK(i)
        BY <3>1, EmptySeq DEF EventsOK, AnswersOK, DueFrom
      <3>3. InHandOK(i) /\ OpenOK(i)
        BY <3>1 DEF InHandOK, InHand, OpenOK
      <3>4. ResultOK(i)
        BY <3>1 DEF ResultOK, C!None, C!Down, C!Plain
      <3> QED BY <3>2, <3>3, <3>4 DEF View
    <2> QED BY <2>1, <2>2, <2>3 DEF ClientHalf
  <1> QED BY <1>1, <1>3, <1>4, <1>6, <1>7 DEF IInv

\* Every step keeps it.
LEMMA NextIInv == IInv /\ [Next]_vars => IInv'
  <1> SUFFICES ASSUME IInv, [Next]_vars PROVE IInv'
    OBVIOUS
  <1>1. Ends'
    BY NextEnds
  <1>2. CASE ServerMove
    BY <1>1, <1>2, ServerServer, ServerClient DEF IInv
  <1>3. CASE ClientSteps
    BY <1>1, <1>3, ClientServer, ClientClient DEF IInv
  <1>4. CASE UNCHANGED vars
    <2>1. ReadsOK' /\ AskedOK'
      BY <1>4 DEF IInv, vars, cvars, svars, ReadsOK, AskedOK
    <2>2. ServerHalf'
      BY <1>4 DEF IInv, vars, cvars, svars, ServerHalf, MadeTyped, MadeOK, Returned,
                  LastItemWritten, WellWritten
    <2>3. ClientHalf'
      <3>1. /\ Ends /\ ReadsOK /\ ClientHalf /\ GotTyped /\ OverOK /\ Begun
            /\ UNCHANGED <<cvars, s_read, s2c, made, got>>
        BY <1>4 DEF IInv, ClientHalf, vars, svars
      <3>2. Onward
        BY <3>1 DEF Onward, cvars
      <3>3. ASSUME NEW j \in Calls PROVE View(j)'
        BY <3>1, <3>2, ShownNothing
      <3> QED BY <3>1, <3>3 DEF ClientHalf, OverOK, Begun, GotTyped, cvars
    <2> QED BY <1>1, <2>1, <2>2, <2>3 DEF IInv
  <1> QED BY <1>2, <1>3, <1>4, Steps

-----------------------------------------------------------------------------
(* Callers get what CallContract promises. *)

\* The connection is up, as far as the client knows.
Up == ~recvErr /\ \A i \in Calls : phase[i] # "failed" /\ result[i] # C!Down

SameUp == Up' <=> Up

\* When a caller is told something no connection is found to be down.
LEMMA TellingIsAll ==
    ASSUME IInv, ClientSteps, NEW j \in Calls, got'[j] # got[j]
    PROVE  /\ recvErr' = recvErr
           /\ \A k \in Calls : phase'[k] = "failed" => phase[k] = "failed"
  <1> USE DEF C!callVars, C!loopVars
  <1>1. result' # result
    BY CallFacts, ClientActs, ToldNothing
  <1>2. PICK i \in Calls : C!SendFailed(i) \/ C!UnaryResponse(i) \/ C!UnaryError(i)
                           \/ C!RecvItem(i)
    <2>1. \A k \in {"unary", "stream"} : ~C!CheckErr(k) /\ ~C!Register(k)
      BY <1>1 DEF C!CheckErr, C!Register
    <2>2. ~C!Run /\ ~C!Fail /\ ~C!Receive(s2c[s_read + 1])
      BY <1>1 DEF C!Run, C!Fail, C!Receive, C!RunStart, C!Handle, C!Unlist, C!NotifyAll
    <2>3. PICK i \in Calls : C!Caller(i) \/ C!CancelStream(i)
      BY <2>1, <2>2, ClientActs DEF IInv
    <2>4. ~C!WriteRequest(i) /\ ~C!SendRequest(i) /\ ~C!SendCancel(i) /\ ~C!Leave(i)
          /\ ~C!CancelStream(i)
      BY <1>1 DEF C!WriteRequest, C!SendRequest, C!SendCancel, C!Leave, C!CancelStream
    <2> QED BY <2>3, <2>4, NoCtx DEF C!Caller
  <1>3. /\ recvErr' = recvErr
        /\ phase' = phase \/ \E h \in {"leaving", "done"} : phase' = [phase EXCEPT ![i] = h]
    BY <1>2 DEF C!SendFailed, C!UnaryResponse, C!UnaryError, C!RecvItem
  <1>4. DOMAIN phase = Calls
    BY CallFacts
  <1> QED BY <1>3, <1>4

\* A connection that is down stays so.
LEMMA StaysDown ==
    ASSUME IInv, ClientSteps, ~Up
    PROVE  ~Up'
  <1>0. (recvErr => recvErr') /\ C!Down' = C!Down
    BY ClientOnward DEF Onward, C!Down, C!Plain
  <1>1. CASE recvErr
    BY <1>0, <1>1 DEF Up
  <1>2. ASSUME NEW i \in Calls, phase[i] = "failed"
        PROVE  phase'[i] = "failed" \/ result'[i] = C!Down
    <2> USE DEF C!callVars
    <2>0. DOMAIN phase = Calls /\ DOMAIN result = Calls
      BY CallFacts
    <2>1. \A k \in {"unary", "stream"} : C!CheckErr(k) => phase' = phase
      BY DEF C!CheckErr
    <2>2. ASSUME NEW k \in {"unary", "stream"}, C!Register(k) PROVE phase'[i] = phase[i]
      <3>1. phase[next_id] = "unused" /\ phase' = [phase EXCEPT ![next_id] = "sending"]
        <4>1. next_id \in Calls /\ next_id \in Nat /\ CP!Fresh
          BY <2>2, NewId DEF IInv, Ends, CP!IInv
        <4>2. phase[next_id] = "unused"
          BY <4>1 DEF CP!Fresh
        <4> QED BY <2>2, <4>2 DEF C!Register
      <3> QED BY <1>2, <2>0, <3>1
    <2>3. C!Run \/ C!Fail \/ C!Receive(s2c[s_read + 1]) => phase' = phase
      BY DEF C!Run, C!Fail, C!Receive, C!RunStart, C!Handle, C!Unlist, C!NotifyAll
    <2>4. ASSUME NEW j \in Calls, C!Caller(j) \/ C!CancelStream(j)
          PROVE  phase'[i] = "failed" \/ result'[i] = C!Down
      <3>1. CASE C!SendFailed(j)
        BY <1>2, <2>0, <3>1 DEF C!SendFailed
      <3>2. CASE C!WriteRequest(j) \/ C!SendRequest(j) \/ C!SendCancel(j)
        BY <1>2, <2>0, <3>2 DEF C!WriteRequest, C!SendRequest, C!SendCancel
      <3>3. CASE C!Leave(j) \/ C!CancelStream(j)
        BY <1>2, <2>0, <3>3 DEF C!Leave, C!CancelStream
      <3>4. CASE C!UnaryResponse(j) \/ C!UnaryError(j) \/ C!RecvItem(j)
        BY <1>2, <2>0, <3>4 DEF C!UnaryResponse, C!UnaryError, C!RecvItem
      <3> QED BY <2>4, <3>1, <3>2, <3>3, <3>4, NoCtx DEF C!Caller
    <2> QED BY <1>2, <2>1, <2>2, <2>3, <2>4, ClientActs DEF IInv
  <1>3. ASSUME NEW i \in Calls, result[i] = C!Down, ~recvErr
        PROVE  result'[i] = C!Down
    <2>1. phase[i] = "done" /\ got[i] # <<>> /\ got[i][Len(got[i])] = C!Down
      BY <1>3, CallFacts DEF ResultOK, C!Down, C!None, C!Plain
    <2>2. Contract!Over(got[i])
      BY <2>1 DEF Contract!Over, C!Down, C!Plain
    <2>3. got'[i] = got[i]
      BY <2>2, ClientTells
    <2>4. ResultOK(i)' /\ C!None' = C!None
      BY ClientTells DEF View, C!None, C!Plain
    <2> QED BY <2>1, <2>3, <2>4 DEF ResultOK
  <1> QED BY <1>0, <1>1, <1>2, <1>3 DEF Up

\* Nor does it go down when a caller is told what its method produced.
LEMMA StaysUp ==
    ASSUME IInv, ClientSteps, Up, NEW i \in Calls, NEW v \in C!Value, v # C!Down,
           got'[i] = Append(got[i], v), \A j \in Calls \ {i} : got'[j] = got[j]
    PROVE  Up'
  <1>1. /\ GotTyped /\ Len(got[i]) \in Nat /\ C!Down' = C!Down /\ C!None' = C!None
        /\ \A j \in Calls : ResultOK(j) /\ ResultOK(j)'
    BY CallFacts, ViewTyped, ClientTells DEF View, C!Down, C!None, C!Plain
  <1>2. /\ Len(got'[i]) = Len(got[i]) + 1 /\ got'[i] # <<>>
        /\ got'[i][Len(got'[i])] = v
    BY <1>1, GotOne
  <1>3. got'[i] # got[i]
    BY <1>1, <1>2
  <1>4. ~recvErr' /\ \A j \in Calls : phase'[j] # "failed"
    BY <1>3, TellingIsAll DEF Up
  <1>5. result'[i] = v
    BY <1>1, <1>2 DEF ResultOK
  <1>6. \A j \in Calls \ {i} : result'[j] = result[j]
    BY <1>1 DEF ResultOK
  <1> QED BY <1>1, <1>4, <1>5, <1>6 DEF Up

\* Callers that are told nothing, and methods that produce nothing.
LEMMA StutterStep ==
    ASSUME SameUp, made' = made, got' = got
    PROVE  UNCHANGED Contract!vars
  BY DEF SameUp, Up, Contract!vars

\* The connection goes down.
LEMMA BreakStep ==
    ASSUME Up, ~Up', made' = made, got' = got
    PROVE  Contract!Next
  BY DEF Up, Contract!Break, Contract!Next

\* A caller is told the next outcome of its method.
LEMMA GetStep ==
    ASSUME NEW i \in Calls, NEW v, SameUp, made' = made, ~Contract!Over(got[i]),
           Len(got[i]) < Len(made[i]), v = Contract!Seen(made[i][Len(got[i]) + 1]),
           got' = [got EXCEPT ![i] = Append(got[i], v)]
    PROVE  Contract!Next
  <1>1. Contract!Get(i)
    BY DEF SameUp, Up, Contract!Get
  <1> QED BY <1>1 DEF Contract!Next

\* A caller is told that the connection is down.
LEMMA FailStep ==
    ASSUME NEW i \in Calls, ~Up, ~Up', made' = made, ~Contract!Over(got[i]),
           got' = [got EXCEPT ![i] = Append(got[i], C!Down)]
    PROVE  Contract!Next
  <1>1. Contract!Fail(i)
    BY DEF Up, Contract!Fail
  <1> QED BY <1>1 DEF Contract!Next

\* A method produces an outcome after items only.
LEMMA ProduceStep ==
    ASSUME Ends, ServerHalf, NEW i \in Calls, NEW v \in Outcomes, SameUp, got' = got,
           ~Returned(i), made' = [made EXCEPT ![i] = Append(made[i], v)]
    PROVE  Contract!Next
  <1>1. /\ MadeOK(i) /\ items[i] \in Nat /\ Len(made[i]) \in Nat
        /\ made[i] \in Seq(Outcomes)
    BY CallTyped, LenProperties DEF ServerHalf, MadeTyped
  <1>2. Len(made[i]) = items[i] /\ \A n \in 1..items[i] : made[i][n] = Item(n)
    BY <1>1 DEF MadeOK
  <1>3. ~Contract!Over(made[i])
    <2>1. ASSUME made[i] # <<>> PROVE made[i][Len(made[i])].type = "item"
      <3>1. Len(made[i]) \in 1..items[i]
        BY <1>1, <1>2, <2>1, EmptySeq
      <3>2. PICK n \in 1..items[i] : n = Len(made[i])
        BY <3>1
      <3>3. Item(n).type = "item"
        BY DEF Item
      <3> QED BY <1>2, <3>2, <3>3
    <2> QED BY <2>1 DEF Contract!Over
  <1>4. Contract!Produce(i, v)
    BY <1>3 DEF SameUp, Up, Contract!Produce
  <1> QED BY <1>4 DEF Contract!Next

\* A step of the server.
LEMMA ServerRefines ==
    ASSUME IInv, ServerMove
    PROVE  Contract!Next \/ UNCHANGED Contract!vars
  <1>0. Ends /\ ReadsOK /\ AskedOK /\ ServerHalf /\ MadeTyped
    BY DEF IInv, ServerHalf
  <1>1. /\ got' = got /\ UNCHANGED cvars
        /\ made' = [k \in Calls |-> made[k] \o Produced(k)]
        /\ made = [k \in Calls |-> made[k]]
    BY <1>0 DEF ServerMove, ServerRead, ServerTask, ServerExit, ServerStep, MadeTyped
  <1>2. SameUp
    BY <1>1 DEF cvars, SameUp, Up, C!Down, C!Plain
  <1>3. ASSUME \A k \in Calls : made'[k] = made[k]
        PROVE  UNCHANGED Contract!vars
    <2>1. made' = [k \in Calls |-> made'[k]]
      BY <1>1
    <2>2. made' = made
      BY <1>1, <1>3, <2>1, Zenon
    <2> QED BY <1>1, <1>2, <2>2, StutterStep
  <1>4. CASE \A k \in Calls : Quiet(k)
    BY <1>3, <1>4 DEF Quiet
  <1>5. ASSUME NEW i \in Calls, Moves(i), \A k \in Calls \ {i} : Quiet(k)
        PROVE  Contract!Next \/ UNCHANGED Contract!vars
    <2>1. ASSUME NEW v, made'[i] = Append(made[i], v)
          PROVE  made' = [made EXCEPT ![i] = Append(made[i], v)]
      BY <1>1, <1>5, <2>1 DEF Quiet
    <2>2. CASE made'[i] = made[i]
      BY <1>3, <1>5, <2>2 DEF Quiet
    <2>3. CASE Yields(i)
      <3>1. PICK v \in Outcomes : v = Item(items'[i])
        BY <2>3, OutcomesTyped DEF Yields
      <3>2. made'[i] = Append(made[i], v) /\ ~Returned(i)
        BY <2>3, <3>1 DEF Yields, Returned
      <3> QED BY <1>0, <1>1, <1>2, <2>1, <3>2, ProduceStep
    <2>4. CASE Finishes(i)
      <3>1. PICK v \in Outcomes : v = Final(reply'[i])
        BY <2>4, OutcomesTyped DEF Finishes
      <3>2. made'[i] = Append(made[i], v) /\ ~Returned(i)
        BY <2>4, <3>1 DEF Finishes, Returned
      <3> QED BY <1>0, <1>1, <1>2, <2>1, <3>2, ProduceStep
    <2> QED BY <1>5, <2>2, <2>3, <2>4 DEF Moves, Starts, Passes
  <1> QED BY <1>0, <1>4, <1>5, ServerMoves DEF ServerMove

\* A step of the client.
LEMMA ClientRefines ==
    ASSUME IInv, ClientSteps
    PROVE  Contract!Next \/ UNCHANGED Contract!vars
  <1>0. /\ made' = made /\ got' = [k \in Calls |-> got[k] \o Told(k)]
        /\ got = [k \in Calls |-> got[k]] /\ Ends /\ ServerHalf /\ GotTyped
    BY ClientActs DEF IInv, ClientHalf, GotTyped
  <1>1. CASE \A j \in Calls : got'[j] = got[j]
    <2>1. got' = [k \in Calls |-> got'[k]]
      BY <1>0
    <2>2. got' = got
      BY <1>0, <1>1, <2>1, Zenon
    <2> QED BY <1>0, <2>2, StutterStep, BreakStep, StaysDown DEF SameUp
  <1>2. ASSUME NEW i \in Calls, NEW v \in C!Value,
               got'[i] = Append(got[i], v), ~Contract!Over(got[i]),
               \/ Due(i, v, Len(got[i]) + 1)
               \/ v = C!Down /\ phase[i] = "failed",
               \A j \in Calls \ {i} : got'[j] = got[j]
        PROVE  Contract!Next
    <2>1. got' = [got EXCEPT ![i] = Append(got[i], v)]
      BY <1>0, <1>2
    <2>2. CASE v = C!Down /\ (recvErr \/ phase[i] = "failed")
      <3>1. ~Up /\ ~Up'
        BY <2>2, StaysDown DEF Up
      <3> QED BY <1>0, <1>2, <2>1, <2>2, <3>1, FailStep
    <2>3. CASE /\ Len(got[i]) + 1 \in 1..Len(made[i])
               /\ v = Contract!Seen(made[i][Len(got[i]) + 1])
      <3>1. PICK n \in 1..Len(made[i]) : n = Len(got[i]) + 1
        BY <2>3
      <3>2. made[i][n] \in Outcomes /\ Len(made[i]) \in Nat /\ Len(got[i]) \in Nat
        BY <1>0, ElementOfSeq, LenProperties DEF ServerHalf, MadeTyped, GotTyped
      <3>3. v # C!Down
        BY <2>3, <3>1, <3>2 DEF Outcomes, Contract!Seen, C!Closed, C!Down, C!Plain
      <3>4. SameUp
        BY <1>2, <3>3, StaysUp, StaysDown DEF SameUp
      <3>5. Len(got[i]) < Len(made[i])
        BY <3>1, <3>2
      <3> QED BY <1>0, <1>2, <2>1, <2>3, <3>4, <3>5, GetStep
    <2> QED BY <1>2, <2>2, <2>3 DEF Due
  <1> QED BY <1>1, <1>2, ClientTells

\* What both ends keep, whatever is given up and whichever end leaves Run: a
\* caller has the outcomes of its method in their order, its channels hold
\* the next ones, and every message on its way is what the method produced.
THEOREM Inductive == Spec => []IInv
  BY InitIInv, NextIInv, PTL DEF Spec

\* Every variable of the two ends and of what runs between them keeps its
\* type, and channels their bounds.
THEOREM Typed == Spec => []TypeOK
  <1>1. IInv => TypeOK
    BY EndsTyped
       DEF IInv, ReadsOK, ServerHalf, ClientHalf, MadeTyped, GotTyped, TypeOK
  <1> QED BY <1>1, Inductive, PTL

\* Callers get what the service methods of their calls produced, in order,
\* each once and none skipped, as long as no stream overflows its channel;
\* they are told that a call failed only when their end of the connection is
\* down.
THEOREM CallsAreHonest == Spec => ImplementsContract
  <1>1. Init => Contract!Init
    BY DEF Init, C!Init, Contract!Init, C!None, C!Down, C!Plain
  <1>2. IInv /\ [Next]_vars => [Contract!Next]_(Contract!vars)
    <2> SUFFICES ASSUME IInv, [Next]_vars
                 PROVE  Contract!Next \/ UNCHANGED Contract!vars
      OBVIOUS
    <2>1. CASE UNCHANGED vars
      <3>1. SameUp
        BY <2>1 DEF vars, cvars, SameUp, Up, C!Down, C!Plain
      <3> QED BY <2>1, <3>1, StutterStep DEF vars
    <2> QED BY <2>1, Steps, ServerRefines, ClientRefines
  <1> QED
    BY <1>1, <1>2, Inductive, PTL DEF Spec, ImplementsContract, Contract!Spec
=============================================================================

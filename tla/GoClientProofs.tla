--------------------------- MODULE GoClientProofs ---------------------------
(***************************************************************************)
(* Theorems about GoClient, for every number of calls and of items and     *)
(* every capacity of the channels of streams.                              *)
(***************************************************************************)
EXTENDS GoClient, SequenceTheorems, TLAPS

USE DEF Ids, Kinds

-----------------------------------------------------------------------------
(* The inductive invariant. *)

\* Callers that have passed the check find an id, and it is a new one.
Fresh ==
    /\ next_id + entering["unary"] + entering["stream"] <= MaxCalls + 1
    /\ \A i \in Ids : i >= next_id =>
           /\ phase[i] = "unused" /\ errc[i] = <<>>
           /\ i \notin pending /\ i \notin asked /\ i \notin stopped

\* What the loop holds is a message for a call of the right kind, and what
\* the peer is known to have sent to the end was asked for.
InHand ==
    /\ over \subseteq asked
    /\ loop \notin {"handling", "unlisting"} => hand = Idle
    /\ loop \in {"handling", "unlisting"} =>
           /\ hand \in ServerMsg /\ hand.id \in asked
           /\ hand.type = "item" <=> hand.id \notin over
           /\ hand.type \in IF kind[hand.id] = "unary"
                              THEN {"response", "error"}
                              ELSE {"item", "end", "error"}
    /\ loop = "unlisting" => hand.type \in {"end", "error"}

\* A unary call can be found until its answer has come, and has the answer
\* when the loop has handled it, whether or not Send has returned by then.
Listed ==
    \A i \in Ids :
        /\ phase[i] = "waiting" => kind[i] = "unary"
        /\ kind[i] = "unary" /\ phase[i] \in {"sending", "waiting"} =>
               /\ i \notin over => i \in pending
               /\ i \in over => Answered(i) \/ (loop = "handling" /\ hand.id = i)

\* What is still in the map while the loop runs is a call in progress: its
\* caller has not taken it out, no error waits for it, and its stream has not
\* ended, but for the call whose last message the loop has in hand.
InProgress ==
    /\ pending \cap stopped = {}
    /\ loop \notin {"failing", "exited"} => \A i \in pending :
           \/ loop = "unlisting" /\ hand.id = i
           \/ /\ phase[i] # "done" /\ errc[i] = <<>>
              /\ kind[i] = "stream" /\ i \in over =>
                     loop = "handling" /\ hand.id = i

IInv == TypeOK /\ Fresh /\ InHand /\ Listed /\ InProgress

-----------------------------------------------------------------------------
(* Types. *)

\* The values without a payload are values.
LEMMA PlainTyped ==
    /\ None \in Value /\ Closed \in Value /\ Down \in Value
    /\ Plain("ctx") \in Value
  BY GoClientAssumption DEF None, Closed, Down, Plain, Value

\* What the loop makes of a message is a value.
LEMMA OutcomeTyped == ASSUME NEW m \in ServerMsg PROVE Outcome(m) \in Value
  BY DEF ServerMsg, Outcome, Value

\* Offering a value to a channel keeps it one of values and within its bound,
\* and never leaves it empty.
LEMMA OfferTyped ==
    ASSUME NEW c \in Seq(Value), NEW v \in Value, NEW cap \in Nat \ {0},
           Len(c) <= cap
    PROVE  /\ Offer(c, v, cap) \in Seq(Value) /\ Len(Offer(c, v, cap)) <= cap
           /\ Offer(c, v, cap) # <<>>
  BY AppendProperties, LenProperties, EmptySeq DEF Offer

\* Taking the first value out of a channel, or the only one.
LEMMA TakeTyped ==
    ASSUME NEW c \in Seq(Value), c # <<>>
    PROVE  /\ Head(c) \in Value /\ Tail(c) \in Seq(Value)
           /\ \A cap \in Nat : Len(c) <= cap => Len(Tail(c)) <= cap
           /\ <<>> \in Seq(Value) /\ Len(<<>>) = 0
  BY HeadTailProperties, LenProperties, EmptySeq

\* A new PacketClient satisfies the invariant.
LEMMA InitIInv == Init => IInv
  <1> SUFFICES ASSUME Init PROVE IInv
    OBVIOUS
  <1> USE GoClientAssumption DEF Init
  <1>1. TypeOK
    <2>1. <<>> \in Seq(Value) /\ Len(<<>>) = 0
      BY EmptySeq
    <2>2. next_id \in 1..(MaxCalls + 1) /\ entering \in [Kinds -> 0..MaxCalls]
      OBVIOUS
    <2>3. /\ resp \in [Ids -> Seq(Value)] /\ errc \in [Ids -> Seq(Value)]
          /\ events \in [Ids -> Seq(Value)]
          /\ \A i \in Ids : /\ Len(resp[i]) <= 1 /\ Len(errc[i]) <= 1
                            /\ Len(events[i]) <= StreamCap
      BY <2>1
    <2> QED BY <2>2, <2>3, PlainTyped DEF TypeOK
  <1>2. Fresh /\ InHand
    BY DEF Fresh, InHand
  <1>3. Listed /\ InProgress
    BY DEF Listed, InProgress
  <1> QED BY <1>1, <1>2, <1>3 DEF IInv

\* The steps of callers and applications keep the types.
LEMMA CallerTyped ==
    IInv /\ (Calling \/ \E i \in Ids : Caller(i) \/ Abandon(i)) => TypeOK'
  <1> SUFFICES ASSUME IInv, Calling \/ \E i \in Ids : Caller(i) \/ Abandon(i)
               PROVE  TypeOK'
    OBVIOUS
  <1> USE GoClientAssumption DEF callVars, chanVars, loopVars, wireVars
  <1>0. TypeOK /\ Fresh
    BY DEF IInv
  <1>1. ASSUME NEW k \in Kinds, CheckErr(k) PROVE TypeOK'
    <2>1. entering[k] + 1 \in 0..MaxCalls
      <3>1. /\ entering["unary"] \in Nat /\ entering["stream"] \in Nat
            /\ next_id \in Nat \ {0}
            /\ next_id + entering["unary"] + entering["stream"] <= MaxCalls
        BY <1>0, <1>1 DEF CheckErr, TypeOK
      <3>2. k = "unary" \/ k = "stream"
        OBVIOUS
      <3> QED BY <3>1, <3>2
    <2>2. entering' \in [Kinds -> 0..MaxCalls]
      BY <1>0, <1>1, <2>1 DEF CheckErr, TypeOK
    <2> QED BY <1>0, <1>1, <2>2 DEF CheckErr, TypeOK
  <1>2. ASSUME NEW k \in Kinds, Register(k) PROVE TypeOK'
    <2>1. next_id \in Ids /\ next_id' \in 1..(MaxCalls + 1)
      BY <1>0, <1>2 DEF Register, TypeOK, Fresh
    <2>2. entering' \in [Kinds -> 0..MaxCalls]
      BY <1>0, <1>2 DEF Register, TypeOK
    <2> QED BY <1>0, <1>2, <2>1, <2>2 DEF Register, TypeOK
  <1>3. ASSUME NEW i \in Ids, WriteRequest(i) \/ SendRequest(i) PROVE TypeOK'
    BY <1>0, <1>3 DEF WriteRequest, SendRequest, TypeOK
  <1>4. ASSUME NEW i \in Ids, SendFailed(i) PROVE TypeOK'
    BY <1>0, <1>4, PlainTyped DEF SendFailed, TypeOK
  <1>5. ASSUME NEW i \in Ids, UnaryDone(i) \/ RecvDone(i) PROVE TypeOK'
    <2>1. result' \in [Ids -> Value]
      <3>1. result' = [result EXCEPT ![i] = Plain("ctx")]
        BY <1>5 DEF UnaryDone, RecvDone
      <3> QED BY <1>0, <3>1, PlainTyped DEF TypeOK
    <2>2. phase' \in [Ids -> {"unused", "sending", "failed", "waiting", "open",
                             "cancelling", "leaving", "done"}]
      BY <1>0, <1>5 DEF UnaryDone, RecvDone, TypeOK
    <2> QED BY <1>0, <1>5, <2>1, <2>2 DEF UnaryDone, RecvDone, TypeOK
  <1>6. ASSUME NEW i \in Ids, UnaryResponse(i) PROVE TypeOK'
    <2>1. resp[i] \in Seq(Value) /\ resp[i] # <<>>
      BY <1>0, <1>6 DEF UnaryResponse, TypeOK
    <2>2. Head(resp[i]) \in Value /\ <<>> \in Seq(Value) /\ Len(<<>>) = 0
      BY <2>1, TakeTyped
    <2>3. /\ resp' \in [Ids -> Seq(Value)] /\ result' \in [Ids -> Value]
          /\ \A j \in Ids : Len(resp'[j]) <= 1
      BY <1>0, <1>6, <2>2 DEF UnaryResponse, TypeOK
    <2> QED BY <1>0, <1>6, <2>3 DEF UnaryResponse, TypeOK
  <1>7. ASSUME NEW i \in Ids, UnaryError(i) PROVE TypeOK'
    <2>1. errc[i] \in Seq(Value) /\ errc[i] # <<>>
      BY <1>0, <1>7 DEF UnaryError, TypeOK
    <2>2. Head(errc[i]) \in Value /\ <<>> \in Seq(Value) /\ Len(<<>>) = 0
      BY <2>1, TakeTyped
    <2>3. /\ errc' \in [Ids -> Seq(Value)] /\ result' \in [Ids -> Value]
          /\ \A j \in Ids : Len(errc'[j]) <= 1
      BY <1>0, <1>7, <2>2 DEF UnaryError, TypeOK
    <2> QED BY <1>0, <1>7, <2>3 DEF UnaryError, TypeOK
  <1>8. ASSUME NEW i \in Ids, RecvItem(i) PROVE TypeOK'
    <2>1. events[i] \in Seq(Value) /\ events[i] # <<>>
          /\ Len(events[i]) <= StreamCap
      BY <1>0, <1>8 DEF RecvItem, TypeOK
    <2>2. Head(events[i]) \in Value /\ Tail(events[i]) \in Seq(Value)
          /\ Len(Tail(events[i])) <= StreamCap
      BY <2>1, TakeTyped
    <2> QED BY <1>0, <1>8, <2>2 DEF RecvItem, TypeOK
  <1>9. ASSUME NEW i \in Ids, SendCancel(i) \/ Leave(i) PROVE TypeOK'
    BY <1>0, <1>9 DEF SendCancel, Leave, TypeOK
  <1>10. ASSUME NEW i \in Ids, CancelStream(i) \/ CtxDone(i) PROVE TypeOK'
    BY <1>0, <1>10 DEF CancelStream, CtxDone, TypeOK
  <1> QED
    BY <1>1, <1>2, <1>3, <1>4, <1>5, <1>6, <1>7, <1>8, <1>9, <1>10
       DEF Calling, Caller, Abandon

\* The steps of the loop keep the types.
LEMMA LoopTyped ==
    IInv /\ (Run \/ Fail \/ \E m \in ServerMsg : Fits(m) /\ Receive(m)) => TypeOK'
  <1> SUFFICES ASSUME IInv,
                      Run \/ Fail \/ \E m \in ServerMsg : Fits(m) /\ Receive(m)
               PROVE  TypeOK'
    OBVIOUS
  <1> USE GoClientAssumption DEF callVars, chanVars, loopVars, wireVars
  <1>0. TypeOK /\ InHand
    BY DEF IInv
  <1>1. ASSUME RunStart \/ Fail PROVE TypeOK'
    BY <1>0, <1>1 DEF RunStart, Fail, TypeOK
  <1>2. ASSUME NEW m \in ServerMsg, Receive(m) PROVE TypeOK'
    <2>1. m.id \in Ids
      BY DEF ServerMsg
    <2> QED BY <1>0, <1>2, <2>1 DEF Receive, TypeOK
  <1>3. ASSUME Unlist PROVE TypeOK'
    BY <1>0, <1>3 DEF Unlist, TypeOK
  <1>4. ASSUME Handle PROVE TypeOK'
    <2>1. hand \in ServerMsg /\ hand.id \in Ids /\ Outcome(hand) \in Value
      BY <1>0, <1>4, OutcomeTyped DEF Handle, InHand, ServerMsg
    <2>2. /\ loop' \in {"receiving", "unlisting"}
          /\ hand' \in ServerMsg \cup {Idle}
      BY <1>4, <2>1 DEF Handle, Handled
    <2>3. /\ Offer(resp[hand.id], Outcome(hand), 1) \in Seq(Value)
          /\ Len(Offer(resp[hand.id], Outcome(hand), 1)) <= 1
          /\ Offer(errc[hand.id], Outcome(hand), 1) \in Seq(Value)
          /\ Len(Offer(errc[hand.id], Outcome(hand), 1)) <= 1
          /\ Offer(events[hand.id], Outcome(hand), StreamCap) \in Seq(Value)
          /\ Len(Offer(events[hand.id], Outcome(hand), StreamCap)) <= StreamCap
      <3>1. /\ resp[hand.id] \in Seq(Value) /\ Len(resp[hand.id]) <= 1
            /\ errc[hand.id] \in Seq(Value) /\ Len(errc[hand.id]) <= 1
            /\ events[hand.id] \in Seq(Value)
            /\ Len(events[hand.id]) <= StreamCap
        BY <1>0, <2>1 DEF TypeOK
      <3>2. /\ Offer(resp[hand.id], Outcome(hand), 1) \in Seq(Value)
            /\ Len(Offer(resp[hand.id], Outcome(hand), 1)) <= 1
        BY <2>1, <3>1, OfferTyped
      <3>3. /\ Offer(errc[hand.id], Outcome(hand), 1) \in Seq(Value)
            /\ Len(Offer(errc[hand.id], Outcome(hand), 1)) <= 1
        BY <2>1, <3>1, OfferTyped
      <3>4. /\ Offer(events[hand.id], Outcome(hand), StreamCap) \in Seq(Value)
            /\ Len(Offer(events[hand.id], Outcome(hand), StreamCap)) <= StreamCap
        BY <2>1, <3>1, OfferTyped
      <3> QED BY <3>2, <3>3, <3>4
    <2>4. /\ resp' \in [Ids -> Seq(Value)] /\ errc' \in [Ids -> Seq(Value)]
          /\ events' \in [Ids -> Seq(Value)]
      <3>1. CASE /\ resp' = [resp EXCEPT ![hand.id] = Offer(@, Outcome(hand), 1)]
                 /\ UNCHANGED <<errc, events>>
        BY <1>0, <2>1, <2>3, <3>1 DEF TypeOK
      <3>2. CASE /\ errc' = [errc EXCEPT ![hand.id] = Offer(@, Outcome(hand), 1)]
                 /\ UNCHANGED <<resp, events>>
        BY <1>0, <2>1, <2>3, <3>2 DEF TypeOK
      <3>3. CASE /\ events' = [events EXCEPT ![hand.id] =
                                  Offer(@, Outcome(hand), StreamCap)]
                 /\ UNCHANGED <<resp, errc>>
        BY <1>0, <2>1, <2>3, <3>3 DEF TypeOK
      <3> QED BY <1>4, <3>1, <3>2, <3>3 DEF Handle
    <2>5. \A i \in Ids : /\ Len(resp'[i]) <= 1 /\ Len(errc'[i]) <= 1
                         /\ Len(events'[i]) <= StreamCap
      BY <1>0, <1>4, <2>1, <2>3 DEF Handle, TypeOK
    <2> QED BY <1>0, <1>4, <2>2, <2>4, <2>5 DEF Handle, TypeOK
  <1>5. ASSUME NotifyAll PROVE TypeOK'
    <2>1. \A i \in Ids :
              /\ Offer(errc[i], Down, 1) \in Seq(Value)
              /\ Len(Offer(errc[i], Down, 1)) <= 1
              /\ Offer(events[i], Down, StreamCap) \in Seq(Value)
              /\ Len(Offer(events[i], Down, StreamCap)) <= StreamCap
      BY <1>0, OfferTyped, PlainTyped DEF TypeOK
    <2>2. \A i \in Ids : /\ errc'[i] \in Seq(Value) /\ Len(errc'[i]) <= 1
                         /\ events'[i] \in Seq(Value)
                         /\ Len(events'[i]) <= StreamCap
      BY <1>0, <1>5, <2>1 DEF NotifyAll, TypeOK
    <2>3. errc' \in [Ids -> Seq(Value)] /\ events' \in [Ids -> Seq(Value)]
      BY <1>5, <2>2 DEF NotifyAll
    <2> QED BY <1>0, <1>5, <2>2, <2>3 DEF NotifyAll, TypeOK
  <1> QED BY <1>1, <1>2, <1>3, <1>4, <1>5 DEF Run

\* Every step of PacketClient keeps the types.
LEMMA NextTyped == IInv /\ [Next]_vars => TypeOK'
  <1>1. IInv /\ UNCHANGED vars => TypeOK'
    BY DEF IInv, TypeOK, vars
  <1> QED BY <1>1, CallerTyped, LoopTyped DEF Next

-----------------------------------------------------------------------------
(* The steps. *)

\* An id that is taken was new, and the ids that are left stay new: nothing
\* is written, listed or told for a call before it has its id.
LEMMA NextFresh == IInv /\ [Next]_vars => Fresh'
  <1> SUFFICES ASSUME IInv, [Next]_vars PROVE Fresh'
    OBVIOUS
  <1> USE GoClientAssumption DEF callVars, chanVars, loopVars, wireVars
  <1>0. TypeOK /\ Fresh /\ InHand
    BY DEF IInv
  <1>1. ASSUME NEW k \in Kinds, CheckErr(k) PROVE Fresh'
    <2>1. next_id' + entering'["unary"] + entering'["stream"] <= MaxCalls + 1
      <3>1. entering'["unary"] + entering'["stream"]
                = entering["unary"] + entering["stream"] + 1
        <4>1. CASE k = "unary"
          BY <1>0, <1>1, <4>1 DEF CheckErr, TypeOK
        <4>2. CASE k = "stream"
          BY <1>0, <1>1, <4>2 DEF CheckErr, TypeOK
        <4> QED BY <4>1, <4>2
      <3>2. /\ entering["unary"] \in Nat /\ entering["stream"] \in Nat
            /\ next_id' \in Nat
            /\ next_id' + entering["unary"] + entering["stream"] <= MaxCalls
        BY <1>0, <1>1 DEF CheckErr, TypeOK
      <3>3. entering'["unary"] \in Int /\ entering'["stream"] \in Int
        <4>1. entering' = [entering EXCEPT ![k] = @ + 1]
              /\ entering \in [Kinds -> Int]
          BY <1>0, <1>1 DEF CheckErr, TypeOK
        <4> QED BY <4>1
      <3> QED BY <3>1, <3>2, <3>3
    <2> QED BY <1>0, <1>1, <2>1 DEF CheckErr, Fresh
  <1>2. ASSUME NEW k \in Kinds, Register(k) PROVE Fresh'
    <2>1. next_id' + entering'["unary"] + entering'["stream"] <= MaxCalls + 1
      <3>1. entering'["unary"] + entering'["stream"]
                = entering["unary"] + entering["stream"] - 1
        <4>1. CASE k = "unary"
          BY <1>0, <1>2, <4>1 DEF Register, TypeOK
        <4>2. CASE k = "stream"
          BY <1>0, <1>2, <4>2 DEF Register, TypeOK
        <4> QED BY <4>1, <4>2
      <3>2. /\ entering["unary"] \in Nat /\ entering["stream"] \in Nat
            /\ next_id \in Nat /\ next_id' = next_id + 1
            /\ next_id + entering["unary"] + entering["stream"] <= MaxCalls + 1
        BY <1>0, <1>2 DEF Register, TypeOK, Fresh
      <3>3. entering'["unary"] \in Int /\ entering'["stream"] \in Int
        <4>1. entering' = [entering EXCEPT ![k] = @ - 1]
              /\ entering \in [Kinds -> Int]
          BY <1>0, <1>2 DEF Register, TypeOK
        <4> QED BY <4>1
      <3> QED BY <3>1, <3>2, <3>3
    <2>2. \A i \in Ids : i >= next_id' => i # next_id /\ i >= next_id
      BY <1>0, <1>2 DEF Register, TypeOK
    <2>3. \A i \in Ids : i # next_id => phase'[i] = phase[i]
      BY <1>0, <1>2 DEF Register, TypeOK
    <2>4. /\ pending' \subseteq pending \cup {next_id}
          /\ UNCHANGED <<errc, asked, stopped>>
      BY <1>2 DEF Register
    <2> QED BY <1>0, <2>1, <2>2, <2>3, <2>4 DEF Fresh
  <1>3. ASSUME NEW i \in Ids, Caller(i) \/ Abandon(i) PROVE Fresh'
    <2>1. i < next_id /\ UNCHANGED <<next_id, entering>>
      <3>1. phase[i] # "unused"
        BY <1>3 DEF Caller, Abandon, WriteRequest, SendRequest, SendFailed,
                    UnaryDone, UnaryResponse, UnaryError, RecvDone, RecvItem,
                    SendCancel, Leave, CancelStream, CtxDone
      <3>2. next_id \in Int /\ i \in Int
        BY <1>0 DEF TypeOK
      <3>3. i < next_id
        BY <1>0, <3>1, <3>2 DEF Fresh
      <3>4. UNCHANGED <<next_id, entering>>
        BY <1>3 DEF Caller, Abandon, WriteRequest, SendRequest, SendFailed,
                    UnaryDone, UnaryResponse, UnaryError, RecvDone, RecvItem,
                    SendCancel, Leave, CancelStream, CtxDone
      <3> QED BY <3>3, <3>4
    <2>2. \A j \in Ids \ {i} : UNCHANGED <<phase[j], errc[j]>>
      <3>1. CASE WriteRequest(i)
        BY <1>0, <3>1 DEF WriteRequest, TypeOK
      <3>2. CASE SendRequest(i)
        BY <1>0, <3>2 DEF SendRequest, TypeOK
      <3>3. CASE SendFailed(i)
        BY <1>0, <3>3 DEF SendFailed, TypeOK
      <3>4. CASE UnaryDone(i)
        BY <1>0, <3>4 DEF UnaryDone, TypeOK
      <3>5. CASE UnaryResponse(i)
        BY <1>0, <3>5 DEF UnaryResponse, TypeOK
      <3>6. CASE UnaryError(i)
        BY <1>0, <3>6 DEF UnaryError, TypeOK
      <3>7. CASE RecvDone(i)
        BY <1>0, <3>7 DEF RecvDone, TypeOK
      <3>8. CASE RecvItem(i)
        BY <1>0, <3>8 DEF RecvItem, TypeOK
      <3>9. CASE SendCancel(i)
        BY <1>0, <3>9 DEF SendCancel, TypeOK
      <3>10. CASE Leave(i)
        BY <1>0, <3>10 DEF Leave, TypeOK
      <3>11. CASE CancelStream(i)
        BY <1>0, <3>11 DEF CancelStream, TypeOK
      <3>12. CASE CtxDone(i)
        BY <1>0, <3>12 DEF CtxDone, TypeOK
      <3> QED BY <1>3, <3>1, <3>2, <3>3, <3>4, <3>5, <3>6,
             <3>7, <3>8, <3>9, <3>10, <3>11, <3>12 DEF Caller, Abandon
    <2>3. /\ pending' \subseteq pending /\ asked' \subseteq asked \cup {i}
          /\ stopped' \subseteq stopped \cup {i}
      <3>1. CASE WriteRequest(i)
        BY <1>0, <3>1 DEF WriteRequest
      <3>2. CASE SendRequest(i)
        BY <1>0, <3>2 DEF SendRequest
      <3>3. CASE SendFailed(i)
        BY <1>0, <3>3 DEF SendFailed
      <3>4. CASE UnaryDone(i)
        BY <1>0, <3>4 DEF UnaryDone
      <3>5. CASE UnaryResponse(i)
        BY <1>0, <3>5 DEF UnaryResponse
      <3>6. CASE UnaryError(i)
        BY <1>0, <3>6 DEF UnaryError
      <3>7. CASE RecvDone(i)
        BY <1>0, <3>7 DEF RecvDone
      <3>8. CASE RecvItem(i)
        BY <1>0, <3>8 DEF RecvItem
      <3>9. CASE SendCancel(i)
        BY <1>0, <3>9 DEF SendCancel
      <3>10. CASE Leave(i)
        BY <1>0, <3>10 DEF Leave
      <3>11. CASE CancelStream(i)
        BY <1>0, <3>11 DEF CancelStream
      <3>12. CASE CtxDone(i)
        BY <1>0, <3>12 DEF CtxDone
      <3> QED BY <1>3, <3>1, <3>2, <3>3, <3>4, <3>5, <3>6,
             <3>7, <3>8, <3>9, <3>10, <3>11, <3>12 DEF Caller, Abandon
    <2>4. \A j \in Ids : j >= next_id => j # i
      BY <1>0, <2>1 DEF TypeOK
    <2> QED BY <1>0, <2>1, <2>2, <2>3, <2>4 DEF Fresh
  <1>4. ASSUME Handle PROVE Fresh'
    <2>1. hand.id \in asked
      BY <1>0, <1>4 DEF Handle, InHand
    <2>2. \A i \in Ids : i # hand.id => errc'[i] = errc[i]
      BY <1>0, <1>4 DEF Handle, TypeOK
    <2>3. \A i \in Ids : i >= next_id => i # hand.id
      BY <1>0, <2>1 DEF Fresh
    <2> QED BY <1>0, <1>4, <2>2, <2>3 DEF Handle, Fresh
  <1>5. ASSUME NotifyAll PROVE Fresh'
    BY <1>0, <1>5 DEF NotifyAll, TypeOK, Fresh
  <1>6. ASSUME RunStart \/ Unlist \/ Fail PROVE Fresh'
    BY <1>0, <1>6 DEF RunStart, Unlist, Fail, TypeOK, Fresh
  <1>7. ASSUME NEW m \in ServerMsg, Receive(m) PROVE Fresh'
    BY <1>0, <1>7 DEF Receive, Fresh
  <1>8. CASE UNCHANGED vars
    BY <1>0, <1>8 DEF vars, Fresh
  <1> QED
    BY <1>1, <1>2, <1>3, <1>4, <1>5, <1>6, <1>7, <1>8 DEF Next, Calling, Run

\* Callers leave the loop's message alone, and the kind of a call it is for
\* is settled before its request is sent.
LEMMA NextInHand == IInv /\ [Next]_vars => InHand'
  <1> SUFFICES ASSUME IInv, [Next]_vars PROVE InHand'
    OBVIOUS
  <1> USE GoClientAssumption DEF callVars, chanVars, loopVars, wireVars
  <1>0. TypeOK /\ Fresh /\ InHand
    BY DEF IInv
  <1>1. ASSUME NEW k \in Kinds, CheckErr(k) PROVE InHand'
    BY <1>0, <1>1 DEF CheckErr, InHand
  <1>2. ASSUME NEW k \in Kinds, Register(k) PROVE InHand'
    <2>1. next_id \in Ids /\ next_id \notin asked
      BY <1>0, <1>2 DEF Register, TypeOK, Fresh
    <2>2. \A i \in asked : kind'[i] = kind[i]
      BY <1>0, <1>2, <2>1 DEF Register, TypeOK
    <2> QED BY <1>0, <1>2, <2>2 DEF Register, InHand
  <1>3. ASSUME NEW i \in Ids, Caller(i) \/ Abandon(i) PROVE InHand'
    <2>1. asked \subseteq asked' /\ UNCHANGED <<kind, loop, hand, over>>
      BY <1>3
         DEF Caller, Abandon, WriteRequest, SendRequest, SendFailed, UnaryDone,
             UnaryResponse, UnaryError, RecvDone, RecvItem, SendCancel, Leave,
             CancelStream, CtxDone
    <2> QED BY <1>0, <2>1 DEF InHand
  <1>4. ASSUME Handle PROVE InHand'
    BY <1>0, <1>4 DEF Handle, Handled, InHand
  <1>5. ASSUME RunStart \/ Unlist \/ Fail \/ NotifyAll PROVE InHand'
    BY <1>0, <1>5 DEF RunStart, Unlist, Fail, NotifyAll, InHand
  <1>6. ASSUME NEW m \in ServerMsg, Fits(m), Receive(m) PROVE InHand'
    BY <1>0, <1>6 DEF Fits, Receive, InHand, ServerMsg
  <1>7. CASE UNCHANGED vars
    BY <1>0, <1>7 DEF vars, InHand
  <1> QED
    BY <1>1, <1>2, <1>3, <1>4, <1>5, <1>6, <1>7 DEF Next, Calling, Run

\* The answer of a unary call meets its entry and finds room.
LEMMA NextListed == IInv /\ [Next]_vars => Listed'
  <1> SUFFICES ASSUME IInv, [Next]_vars PROVE Listed'
    OBVIOUS
  <1> USE GoClientAssumption
          DEF callVars, chanVars, loopVars, wireVars, Answered
  <1>0. TypeOK /\ Fresh /\ InHand /\ Listed
    BY DEF IInv
  <1>1. ASSUME NEW k \in Kinds, CheckErr(k) PROVE Listed'
    BY <1>0, <1>1 DEF CheckErr, Listed
  <1>2. ASSUME NEW k \in Kinds, Register(k) PROVE Listed'
    <2>1. next_id \in Ids /\ next_id \notin over
      BY <1>0, <1>2 DEF Register, TypeOK, Fresh, InHand
    <2> QED BY <1>0, <1>2, <2>1 DEF Register, TypeOK, Listed
  <1>3. ASSUME NEW i \in Ids,
               WriteRequest(i) \/ SendRequest(i) \/ SendFailed(i) \/ UnaryDone(i)
        PROVE  Listed'
    <2>1. CASE WriteRequest(i)
      BY <1>0, <2>1 DEF WriteRequest, TypeOK, Listed
    <2>2. CASE SendRequest(i)
      <3>1. \A j \in Ids \ {i} : phase'[j] = phase[j]
        BY <1>0, <2>2 DEF SendRequest, TypeOK
      <3>2. phase[i] = "sending" /\ (phase'[i] = "waiting" => kind[i] = "unary")
        BY <1>0, <2>2 DEF SendRequest, TypeOK
      <3>3. UNCHANGED <<kind, pending, over, loop, hand, resp, errc>>
        BY <2>2 DEF SendRequest
      <3> QED BY <1>0, <3>1, <3>2, <3>3 DEF Listed
    <2>3. CASE SendFailed(i)
      BY <1>0, <2>3 DEF SendFailed, TypeOK, Listed
    <2>4. CASE UnaryDone(i)
      BY <1>0, <2>4 DEF UnaryDone, TypeOK, Listed
    <2> QED BY <1>3, <2>1, <2>2, <2>3, <2>4
  <1>4. ASSUME NEW i \in Ids,
               UnaryResponse(i) \/ UnaryError(i) \/ RecvDone(i) \/ RecvItem(i)
        PROVE  Listed'
    <2>1. \A j \in Ids : phase'[j] \in {"sending", "waiting"} =>
              UNCHANGED <<phase[j], resp[j], errc[j]>>
      <3>1. CASE UnaryResponse(i)
        BY <1>0, <3>1 DEF UnaryResponse, TypeOK
      <3>2. CASE UnaryError(i)
        BY <1>0, <3>2 DEF UnaryError, TypeOK
      <3>3. CASE RecvDone(i)
        BY <1>0, <3>3 DEF RecvDone, TypeOK
      <3>4. CASE RecvItem(i)
        BY <1>0, <3>4 DEF RecvItem, TypeOK
      <3> QED BY <1>4, <3>1, <3>2, <3>3, <3>4
    <2>2. UNCHANGED <<kind, pending, over, loop, hand>>
      BY <1>4 DEF UnaryResponse, UnaryError, RecvDone, RecvItem
    <2> QED BY <1>0, <2>1, <2>2 DEF Listed
  <1>5. ASSUME NEW i \in Ids, SendCancel(i) \/ Leave(i) \/ Abandon(i) PROVE Listed'
    <2>1. CASE SendCancel(i)
      BY <1>0, <2>1 DEF SendCancel, TypeOK, Listed
    <2>2. CASE Leave(i)
      <3>1. /\ \A j \in Ids \ {i} : phase'[j] = phase[j]
            /\ phase'[i] \notin {"sending", "waiting"}
        BY <1>0, <2>2 DEF Leave, TypeOK
      <3>2. /\ UNCHANGED <<kind, over, loop, hand, resp, errc>>
            /\ pending' = pending \ {i}
        BY <2>2 DEF Leave
      <3> QED BY <1>0, <3>1, <3>2 DEF Listed
    <2>3. CASE CancelStream(i)
      BY <1>0, <2>3 DEF CancelStream, TypeOK, Listed
    <2>4. CASE CtxDone(i)
      BY <1>0, <2>4 DEF CtxDone, TypeOK, Listed
    <2> QED BY <1>5, <2>1, <2>2, <2>3, <2>4 DEF Abandon
  <1>6. ASSUME Handle PROVE Listed'
    <2>1. /\ hand \in ServerMsg /\ hand.id \in Ids
          /\ Outcome(hand) \in Value
      BY <1>0, <1>6, OutcomeTyped DEF Handle, InHand, ServerMsg
    <2>2. /\ Offer(resp[hand.id], Outcome(hand), 1) # <<>>
          /\ Offer(errc[hand.id], Outcome(hand), 1) # <<>>
      <3>1. /\ resp[hand.id] \in Seq(Value) /\ Len(resp[hand.id]) <= 1
            /\ errc[hand.id] \in Seq(Value) /\ Len(errc[hand.id]) <= 1
        BY <1>0, <2>1 DEF TypeOK
      <3> QED BY <2>1, <3>1, OfferTyped
    <2>3. \A i \in Ids : i # hand.id => UNCHANGED <<resp[i], errc[i]>>
      BY <1>0, <1>6 DEF Handle, TypeOK
    <2>4. kind[hand.id] = "unary" => resp'[hand.id] # <<>> \/ errc'[hand.id] # <<>>
      BY <1>0, <1>6, <2>1, <2>2 DEF Handle, InHand, TypeOK
    <2> QED BY <1>0, <1>6, <2>1, <2>3, <2>4 DEF Handle, Listed
  <1>7. ASSUME Unlist PROVE Listed'
    BY <1>0, <1>7 DEF Unlist, InHand, Listed
  <1>8. ASSUME NotifyAll PROVE Listed'
    <2>1. \A i \in Ids : Offer(errc[i], Down, 1) # <<>>
      BY <1>0, OfferTyped, PlainTyped DEF TypeOK
    <2>2. \A i \in Ids : errc[i] # <<>> => errc'[i] # <<>>
      BY <1>0, <1>8, <2>1 DEF NotifyAll, TypeOK
    <2> QED BY <1>0, <1>8, <2>2 DEF NotifyAll, Listed
  <1>9. ASSUME RunStart \/ Fail PROVE Listed'
    BY <1>0, <1>9 DEF RunStart, Fail, Listed
  <1>10. ASSUME NEW m \in ServerMsg, Fits(m), Receive(m) PROVE Listed'
    BY <1>0, <1>10 DEF Fits, Receive, Listed, ServerMsg
  <1>11. CASE UNCHANGED vars
    BY <1>0, <1>11 DEF vars, Listed
  <1> QED
    BY <1>1, <1>2, <1>3, <1>4, <1>5, <1>6, <1>7, <1>8, <1>9, <1>10, <1>11
       DEF Next, Calling, Caller, Run

\* What ends a call takes it out of the map.
LEMMA NextInProgress == IInv /\ [Next]_vars => InProgress'
  <1> SUFFICES ASSUME IInv, [Next]_vars PROVE InProgress'
    OBVIOUS
  <1> USE GoClientAssumption DEF callVars, chanVars, loopVars, wireVars
  <1>0. TypeOK /\ Fresh /\ InHand /\ InProgress
    BY DEF IInv
  <1>1. ASSUME NEW k \in Kinds, CheckErr(k) PROVE InProgress'
    BY <1>0, <1>1 DEF CheckErr, InProgress
  <1>2. ASSUME NEW k \in Kinds, Register(k) PROVE InProgress'
    <2>1. /\ next_id \in Ids /\ next_id \notin over /\ next_id \notin stopped
          /\ errc[next_id] = <<>>
      BY <1>0, <1>2 DEF Register, TypeOK, Fresh, InHand
    <2>2. /\ phase' = [phase EXCEPT ![next_id] = "sending"]
          /\ pending' = pending \cup {next_id}
          /\ UNCHANGED <<stopped, errc, over, loop, hand>>
      BY <1>2 DEF Register
    <2>3. \A i \in Ids : i # next_id => kind'[i] = kind[i]
      BY <1>0, <1>2 DEF Register, TypeOK
    <2>4. /\ phase'[next_id] = "sending"
          /\ \A i \in Ids : i # next_id => phase'[i] = phase[i]
      BY <1>0, <2>1, <2>2 DEF TypeOK
    <2>5. pending' \cap stopped' = {}
      BY <1>0, <2>1, <2>2 DEF InProgress
    <2>6. ASSUME loop' \notin {"failing", "exited"}, NEW i \in pending'
          PROVE  \/ loop' = "unlisting" /\ hand'.id = i
                 \/ /\ phase'[i] # "done" /\ errc'[i] = <<>>
                    /\ kind'[i] = "stream" /\ i \in over' =>
                           loop' = "handling" /\ hand'.id = i
      <3>1. CASE i = next_id
        BY <2>1, <2>2, <2>4, <3>1
      <3>2. CASE i # next_id
        BY <1>0, <2>2, <2>3, <2>4, <2>6, <3>2 DEF TypeOK, InProgress
      <3> QED BY <3>1, <3>2
    <2> QED BY <2>5, <2>6 DEF InProgress
  <1>3. ASSUME NEW i \in Ids,
               WriteRequest(i) \/ SendRequest(i) \/ SendFailed(i) \/ UnaryDone(i)
        PROVE  InProgress'
    <2>1. CASE WriteRequest(i)
      BY <1>0, <2>1 DEF WriteRequest, TypeOK, InProgress
    <2>2. CASE SendRequest(i)
      <3>1. /\ \A j \in Ids \ {i} : phase'[j] = phase[j]
            /\ phase'[i] # "done"
        BY <1>0, <2>2 DEF SendRequest, TypeOK
      <3>2. UNCHANGED <<kind, pending, stopped, over, loop, hand, errc>>
        BY <2>2 DEF SendRequest
      <3>3. pending \subseteq Ids
        BY <1>0 DEF TypeOK
      <3> QED BY <1>0, <3>1, <3>2, <3>3 DEF InProgress
    <2>3. CASE SendFailed(i)
      BY <1>0, <2>3 DEF SendFailed, TypeOK, InProgress
    <2>4. CASE UnaryDone(i)
      BY <1>0, <2>4 DEF UnaryDone, TypeOK, InProgress
    <2> QED BY <1>3, <2>1, <2>2, <2>3, <2>4
  <1>4. ASSUME NEW i \in Ids,
               UnaryResponse(i) \/ UnaryError(i) \/ RecvDone(i) \/ RecvItem(i)
        PROVE  InProgress'
    <2>1. CASE UnaryResponse(i)
      BY <1>0, <2>1 DEF UnaryResponse, TypeOK, InProgress
    <2>2. CASE UnaryError(i)
      BY <1>0, <2>2 DEF UnaryError, TypeOK, InProgress
    <2>3. CASE RecvDone(i)
      BY <1>0, <2>3 DEF RecvDone, TypeOK, InProgress
    <2>4. CASE RecvItem(i)
      BY <1>0, <2>4 DEF RecvItem, TypeOK, InProgress
    <2> QED BY <1>4, <2>1, <2>2, <2>3, <2>4
  <1>5. ASSUME NEW i \in Ids, SendCancel(i) \/ Leave(i) \/ Abandon(i)
        PROVE  InProgress'
    <2>1. CASE SendCancel(i)
      BY <1>0, <2>1 DEF SendCancel, TypeOK, InProgress
    <2>2. CASE Leave(i)
      BY <1>0, <2>2 DEF Leave, TypeOK, InProgress
    <2>3. CASE CancelStream(i)
      BY <1>0, <2>3 DEF CancelStream, TypeOK, InProgress
    <2>4. CASE CtxDone(i)
      BY <1>0, <2>4 DEF CtxDone, TypeOK, InProgress
    <2> QED BY <1>5, <2>1, <2>2, <2>3, <2>4 DEF Abandon
  <1>6. ASSUME Handle PROVE InProgress'
    <2>1. \A i \in Ids : i # hand.id => errc'[i] = errc[i]
      BY <1>0, <1>6 DEF Handle, TypeOK
    <2>2. CASE hand.type \in {"end", "error"}
      <3>1. /\ loop = "handling" /\ loop' = "unlisting"
            /\ UNCHANGED <<hand, pending, stopped, phase, kind, over>>
        BY <1>6, <2>2 DEF Handle, Handled
      <3>2. pending \subseteq Ids
        BY <1>0 DEF TypeOK
      <3> QED BY <1>0, <2>1, <3>1, <3>2 DEF InProgress
    <2>3. CASE hand.type \in {"response", "item"}
      <3>1. UNCHANGED errc /\ loop' = "receiving"
        BY <1>0, <1>6, <2>3 DEF Handle, Handled, InHand
      <3>2. kind[hand.id] = "stream" => hand.id \notin over
        BY <1>0, <1>6, <2>3 DEF Handle, InHand, TypeOK
      <3> QED BY <1>0, <1>6, <3>1, <3>2 DEF Handle, InProgress, TypeOK
    <2> QED BY <1>0, <1>6, <2>2, <2>3 DEF Handle, Handled
  <1>7. ASSUME Unlist PROVE InProgress'
    BY <1>0, <1>7 DEF Unlist, InProgress
  <1>8. ASSUME RunStart \/ Fail \/ NotifyAll PROVE InProgress'
    BY <1>0, <1>8 DEF RunStart, Fail, NotifyAll, InProgress
  <1>9. ASSUME NEW m \in ServerMsg, Receive(m) PROVE InProgress'
    BY <1>0, <1>9 DEF Receive, InHand, InProgress, ServerMsg
  <1>10. CASE UNCHANGED vars
    BY <1>0, <1>10 DEF vars, InProgress
  <1> QED
    BY <1>1, <1>2, <1>3, <1>4, <1>5, <1>6, <1>7, <1>8, <1>9, <1>10
       DEF Next, Calling, Caller, Run

-----------------------------------------------------------------------------
\* IInv holds in every state of PacketClient.
THEOREM Inductive == Spec => []IInv
  <1>1. IInv /\ [Next]_vars => IInv'
    BY NextTyped, NextFresh, NextInHand, NextListed, NextInProgress DEF IInv
  <1> QED BY InitIInv, <1>1, PTL DEF Spec

\* The state of PacketClient is well typed: no channel ever holds more than
\* its capacity, and every id is one of a call that was made.
THEOREM Typed == Spec => []TypeOK
  <1>1. IInv => TypeOK
    BY DEF IInv
  <1> QED BY Inductive, <1>1, PTL

\* Whatever the goroutines of callers and the loop do between each other's
\* critical sections, the last message of a unary call reaches its caller.
THEOREM AnswersReachCallers == Spec => []AnswersAreKept
  <1>1. IInv => AnswersAreKept
    BY DEF IInv, AnswersAreKept, Listed, InHand, TypeOK
  <1> QED BY Inductive, <1>1, PTL

\* The pending map does not grow with calls that are over.
THEOREM CallsLeaveTheMap == Spec => []CallsAreForgotten
  <1>1. IInv => CallsAreForgotten
    BY DEF IInv, CallsAreForgotten, InProgress, TypeOK
  <1> QED BY Inductive, <1>1, PTL
=============================================================================

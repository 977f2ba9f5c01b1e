--------------------------- MODULE TsClientProofs ---------------------------
(***************************************************************************)
(* Theorems about TsClient, for every number of calls, of items and of     *)
(* calls of recv().                                                        *)
(***************************************************************************)
EXTENDS TsClient, SequenceTheorems, TLAPS

USE DEF Ids, Kinds

-----------------------------------------------------------------------------
(***************************************************************************)
(* The inductive invariant.  Its heart is MapOK: the map holds a call      *)
(* exactly as long as nobody has left it an ending.                        *)
(***************************************************************************)
Used(i) == phase[i] # "unused"

\* Of a call that was not made there is nothing, neither here nor with the
\* peer.
FreshOK(i) ==
    /\ Used(i) <=> i < next_id
    /\ i \in over => i \in asked
    /\ ~Used(i) => /\ i \notin asked /\ i \notin listening
                   /\ promise[i] = None /\ sent[i] = 0
                   /\ told[i] = <<>> /\ queue[i] = <<>> /\ waiters[i] = 0

\* A call has a promise or a queue, as its kind says; recv() waits only
\* while nothing is queued.
KindOK(i) ==
    /\ kind[i] = "unary" => /\ phase[i] # "open"
                            /\ queue[i] = <<>> /\ waiters[i] = 0
                            /\ Ending(promise[i])
                            /\ \A n \in DOMAIN told[i] : Ending(told[i][n])
    /\ kind[i] = "stream" => promise[i] = None /\ phase[i] # "waiting"
    /\ waiters[i] > 0 => queue[i] = <<>>

\* What takes a call out of the map leaves its caller an ending, and what
\* leaves an ending takes it out.
MapOK(i) ==
    /\ i \in pending <=> Used(i) /\ ~HasEnding(i)
    /\ i \in pending => /\ i \notin over /\ loop # "failed"
                        /\ ~(i \in listening /\ signal[i] = "aborted")

\* A stream in the map has all that the peer sent.
StreamOK(i) ==
    i \in pending /\ kind[i] = "stream" => Len(Events(i)) = sent[i]

Ordered(e) == \A n \in DOMAIN e : ~Ending(e[n]) =>
    e[n].body = n /\ \A k \in 1..n : ~Ending(e[k])

CallOK(i) ==
    FreshOK(i) /\ KindOK(i) /\ MapOK(i) /\ StreamOK(i) /\ Ordered(Events(i))

IInv == TypeOK /\ \A i \in Ids : CallOK(i)

-----------------------------------------------------------------------------
(* Values, and sequences of them. *)

\* Values are typed.
LEMMA Values ==
    /\ None \in Value /\ Ending(None)
    /\ Plain("down") \in Value /\ Ending(Plain("down"))
    /\ Plain("aborted") \in Value /\ Ending(Plain("aborted"))
    /\ Plain("down") # None /\ Plain("aborted") # None
    /\ \A v \in Value : v = [type |-> v.type, body |-> v.body]
  <1>1. 0 \in 0..MaxItems
    BY TsClientAssumption
  <1> QED BY <1>1 DEF None, Plain, Value, Ending

\* A message is an event: an item is the next one of its stream.
LEMMA EventTyped ==
    ASSUME TypeOK, NEW m \in ServerMsg, Fits(m)
    PROVE  LET v == [type |-> m.type, body |-> m.body] IN
           /\ v \in Value /\ v # None
           /\ Ending(v) <=> m.type # "item"
           /\ ~Ending(v) => v.body = sent[m.id] + 1
  BY DEF ServerMsg, Value, Fits, Ending, None, Plain

\* What a stream's callers were and will be told is a sequence.
LEMMA EventsTyped ==
    ASSUME TypeOK, NEW i \in Ids
    PROVE  /\ told[i] \in Seq(Value) /\ queue[i] \in Seq(Value)
           /\ Events(i) \in Seq(Value) /\ Len(Events(i)) \in Nat
           /\ DOMAIN Events(i) = 1..Len(Events(i))
  <1>1. told[i] \in Seq(Value) /\ queue[i] \in Seq(Value)
    BY DEF TypeOK
  <1>2. Events(i) \in Seq(Value)
    BY <1>1, ConcatProperties DEF Events
  <1> QED BY <1>1, <1>2, LenProperties

\* The sequence f is e and the event v behind it, once or more often.
Extends(f, e, v) ==
    /\ f \in Seq(Value) /\ Len(f) > Len(e)
    /\ \A n \in 1..Len(f) : f[n] = IF n <= Len(e) THEN e[n] ELSE v

\* One event behind the others.
LEMMA AppendExtends ==
    ASSUME NEW e \in Seq(Value), NEW v \in Value
    PROVE  Extends(Append(e, v), e, v) /\ Len(Append(e, v)) = Len(e) + 1
  <1>1. Len(e) \in Nat
    BY LenProperties
  <1>2. /\ Append(e, v) \in Seq(Value) /\ Len(Append(e, v)) = Len(e) + 1
        /\ \A n \in 1..Len(e) : Append(e, v)[n] = e[n]
        /\ Append(e, v)[Len(e) + 1] = v
    BY AppendProperties
  <1>3. ASSUME NEW n \in 1..(Len(e) + 1)
        PROVE  Append(e, v)[n] = IF n <= Len(e) THEN e[n] ELSE v
    <2>1. n \in 1..Len(e) \/ (n = Len(e) + 1 /\ ~(n <= Len(e)))
      BY <1>1
    <2> QED BY <1>1, <1>2, <2>1
  <1> QED BY <1>1, <1>2, <1>3 DEF Extends

\* An event behind the second of two sequences is behind both.
LEMMA ConcatAppend ==
    ASSUME NEW a \in Seq(Value), NEW q \in Seq(Value), NEW v \in Value
    PROVE  a \o Append(q, v) = Append(a \o q, v)
  <1>1. <<v>> \in Seq(Value) /\ Append(q, v) = q \o <<v>>
    BY AppendIsConcat
  <1>2. a \o (q \o <<v>>) = (a \o q) \o <<v>>
    BY <1>1, ConcatAssociative
  <1>3. a \o q \in Seq(Value)
    BY ConcatProperties
  <1>4. (a \o q) \o <<v>> = Append(a \o q, v)
    BY <1>3, AppendIsConcat
  <1> QED BY <1>1, <1>2, <1>4

\* The head of the second of two sequences may go behind the first.
LEMMA HeadMoves ==
    ASSUME NEW a \in Seq(Value), NEW q \in Seq(Value), q # <<>>
    PROVE  Append(a, Head(q)) \o Tail(q) = a \o q
  <1>1. PICK h \in Value, t \in Seq(Value) : h = Head(q) /\ t = Tail(q)
    BY HeadTailProperties
  <1>2. <<h>> \in Seq(Value) /\ q = <<h>> \o t
    BY <1>1
  <1>3. Append(a, h) = a \o <<h>>
    BY AppendIsConcat
  <1>4. (a \o <<h>>) \o t = a \o (<<h>> \o t)
    BY <1>2, ConcatAssociative
  <1> QED BY <1>1, <1>2, <1>3, <1>4

\* One event, told as often as there are waiters.
LEMMA Repeated ==
    ASSUME NEW k \in Nat, NEW v \in Value
    PROVE  \E w \in Seq(Value) :
               /\ w = [n \in 1..k |-> v] /\ Len(w) = k
               /\ \A n \in 1..Len(w) : w[n] = v
  <1> DEFINE w == [n \in 1..k |-> v]
  <1>1. w \in Seq(Value) /\ Len(w) = k
    OBVIOUS
  <1> QED BY <1>1

\* More of the same event.
LEMMA ExtendsOver ==
    ASSUME NEW e \in Seq(Value), NEW g \in Seq(Value), NEW f, NEW v \in Value,
           Len(e) <= Len(g), Extends(f, g, v),
           \A n \in 1..Len(g) : g[n] = IF n <= Len(e) THEN e[n] ELSE v
    PROVE  Extends(f, e, v)
  <1>1. Len(e) \in Nat /\ Len(g) \in Nat /\ Len(f) \in Nat
    BY LenProperties DEF Extends
  <1>2. ASSUME NEW n \in 1..Len(f)
        PROVE  f[n] = IF n <= Len(e) THEN e[n] ELSE v
    <2>1. CASE n <= Len(g)
      BY <1>1, <2>1 DEF Extends
    <2>2. CASE ~(n <= Len(g))
      BY <1>1, <2>2 DEF Extends
    <2> QED BY <2>1, <2>2
  <1> QED BY <1>1, <1>2 DEF Extends

\* WakeAll: the event goes to the calls of recv() that wait and to the queue,
\* which is empty when there are any.
LEMMA WakeExtends ==
    ASSUME NEW a \in Seq(Value), NEW q \in Seq(Value), NEW w \in Seq(Value),
           NEW v \in Value, Len(w) > 0 => q = <<>>,
           \A n \in 1..Len(w) : w[n] = v
    PROVE  Extends((a \o w) \o Append(q, v), a \o q, v)
  <1>0. Len(a) \in Nat /\ Len(w) \in Nat
    BY LenProperties
  <1>1. CASE Len(w) = 0
    <2>1. w = <<>>
      BY <1>1, EmptySeq
    <2>2. a \o w = a
      BY <2>1, ConcatEmptySeq
    <2>3. a \o q \in Seq(Value)
      BY ConcatProperties
    <2>4. (a \o w) \o Append(q, v) = Append(a \o q, v)
      BY <2>2, ConcatAppend
    <2> QED BY <2>3, <2>4, AppendExtends
  <1>2. CASE Len(w) > 0
    <2>1. q = <<>>
      BY <1>2
    <2>2. a \o q = a
      BY <2>1, ConcatEmptySeq
    <2>3. PICK g \in Seq(Value) :
              /\ g = a \o w /\ Len(g) = Len(a) + Len(w)
              /\ \A n \in 1..(Len(a) + Len(w)) :
                     g[n] = IF n <= Len(a) THEN a[n] ELSE w[n - Len(a)]
      <3> DEFINE c == a \o w
      <3>1. /\ c \in Seq(Value) /\ Len(c) = Len(a) + Len(w)
            /\ \A n \in 1..(Len(a) + Len(w)) :
                   c[n] = IF n <= Len(a) THEN a[n] ELSE w[n - Len(a)]
        BY ConcatProperties
      <3> HIDE DEF c
      <3>2. c = a \o w
        BY DEF c
      <3> QED BY <3>1, <3>2
    <2>4. ASSUME NEW n \in 1..Len(g)
          PROVE  g[n] = IF n <= Len(a) THEN a[n] ELSE v
      <3>1. n \in 1..(Len(a) + Len(w))
        BY <2>3
      <3>2. n <= Len(a) \/ (~(n <= Len(a)) /\ n - Len(a) \in 1..Len(w))
        BY <1>0, <3>1
      <3>3. CASE n <= Len(a)
        BY <2>3, <3>1, <3>3
      <3>4. CASE ~(n <= Len(a)) /\ n - Len(a) \in 1..Len(w)
        <4>1. g[n] = w[n - Len(a)]
          BY <2>3, <3>1, <3>4
        <4>2. w[n - Len(a)] = v
          BY <3>4
        <4> QED BY <3>4, <4>1, <4>2
      <3> QED BY <3>2, <3>3, <3>4
    <2>5. Append(q, v) = <<v>> /\ g \o <<v>> = Append(g, v)
      BY <2>1, AppendIsConcat
    <2>6. Extends(Append(g, v), g, v)
      BY AppendExtends
    <2>7. Len(a) <= Len(g)
      BY <1>0, <2>3
    <2>8. Extends(Append(g, v), a, v)
      BY <2>4, <2>6, <2>7, ExtendsOver
    <2> QED BY <2>2, <2>3, <2>5, <2>8
  <1> QED BY <1>0, <1>1, <1>2

\* The events of a stream that WakeAll tells.
LEMMA WokenExtends ==
    ASSUME TypeOK, NEW i \in Ids, NEW v \in Value,
           waiters[i] > 0 => queue[i] = <<>>,
           told'[i] = told[i] \o [n \in 1..waiters[i] |-> v],
           queue'[i] = Append(queue[i], v)
    PROVE  Extends(Events(i)', Events(i), v)
  <1>1. /\ told[i] \in Seq(Value) /\ queue[i] \in Seq(Value)
        /\ waiters[i] \in Nat
    BY TsClientAssumption DEF TypeOK
  <1>2. PICK w \in Seq(Value) :
               /\ w = [n \in 1..waiters[i] |-> v] /\ Len(w) = waiters[i]
               /\ \A n \in 1..Len(w) : w[n] = v
    BY <1>1, Repeated
  <1>3. Extends((told[i] \o w) \o Append(queue[i], v), told[i] \o queue[i], v)
    BY <1>1, <1>2, WakeExtends
  <1>4. Events(i)' = (told[i] \o w) \o Append(queue[i], v)
    BY <1>2, Zenon DEF Events
  <1> QED BY <1>3, <1>4 DEF Events

\* A function stays typed when one of its values changes.
LEMMA ExceptTyped ==
    ASSUME NEW S, NEW T, NEW f \in [S -> T], NEW x, NEW y \in T
    PROVE  [f EXCEPT ![x] = y] \in [S -> T]
  OBVIOUS

\* The event that Push delivers is behind the others, once.
LEMMA PushExtends ==
    ASSUME TypeOK, NEW i \in Ids, NEW v \in Value,
           waiters[i] > 0 => queue[i] = <<>>, Push(i, v)
    PROVE  /\ Extends(Events(i)', Events(i), v)
           /\ Len(Events(i)') = Len(Events(i)) + 1
           /\ \A j \in Ids \ {i} : UNCHANGED <<told[j], queue[j], waiters[j]>>
           /\ waiters'[i] > 0 => queue'[i] = <<>>
           /\ told' \in [Ids -> Seq(Value)] /\ queue' \in [Ids -> Seq(Value)]
           /\ waiters' \in [Ids -> 0..MaxRecvs]
  <1>1. /\ told \in [Ids -> Seq(Value)] /\ queue \in [Ids -> Seq(Value)]
        /\ waiters \in [Ids -> 0..MaxRecvs] /\ MaxRecvs \in Nat
    BY TsClientAssumption DEF TypeOK
  <1>2. told[i] \in Seq(Value) /\ queue[i] \in Seq(Value)
    BY <1>1
  <1>w. waiters[i] \in Nat
    BY <1>1
  <1>d. DOMAIN told = Ids /\ DOMAIN queue = Ids /\ DOMAIN waiters = Ids
    BY <1>1
  <1>3. Events(i)' = Append(Events(i), v)
    <2>1. CASE waiters[i] > 0
      <3>1. told'[i] = Append(told[i], v) /\ queue[i] = <<>> /\ queue' = queue
        <4>1. told' = [told EXCEPT ![i] = Append(@, v)] /\ queue' = queue
          BY <2>1 DEF Push
        <4> QED BY <1>d, <2>1, <4>1
      <3>2. Append(told[i], v) \in Seq(Value)
        BY <1>2, AppendProperties
      <3> QED BY <1>2, <3>1, <3>2, ConcatEmptySeq DEF Events
    <2>2. CASE waiters[i] = 0
      <3>1. told' = told /\ queue'[i] = Append(queue[i], v)
        <4>1. told' = told /\ queue' = [queue EXCEPT ![i] = Append(@, v)]
          BY <2>2 DEF Push
        <4> QED BY <1>d, <4>1
      <3>2. told[i] \o Append(queue[i], v) = Append(told[i] \o queue[i], v)
        BY <1>2, ConcatAppend
      <3> QED BY <3>1, <3>2 DEF Events
    <2> QED BY <1>1, <2>1, <2>2
  <1>4. /\ Extends(Events(i)', Events(i), v)
        /\ Len(Events(i)') = Len(Events(i)) + 1
    BY <1>3, EventsTyped, AppendExtends
  <1>5. /\ \A j \in Ids \ {i} : UNCHANGED <<told[j], queue[j], waiters[j]>>
        /\ waiters'[i] > 0 => queue'[i] = <<>>
    <2>1. CASE waiters[i] > 0
      <3>1. /\ told' = [told EXCEPT ![i] = Append(@, v)] /\ queue' = queue
            /\ waiters' = [waiters EXCEPT ![i] = @ - 1]
        BY <2>1 DEF Push
      <3> QED BY <1>d, <2>1, <3>1
    <2>2. CASE waiters[i] = 0
      <3>1. /\ told' = told /\ waiters' = waiters
            /\ queue' = [queue EXCEPT ![i] = Append(@, v)]
        BY <2>2 DEF Push
      <3> QED BY <1>d, <2>2, <3>1
    <2> QED BY <1>w, <2>1, <2>2
  <1>6. Append(told[i], v) \in Seq(Value) /\ Append(queue[i], v) \in Seq(Value)
    BY <1>2, AppendProperties
  <1>7. /\ told' = told \/ told' = [told EXCEPT ![i] = Append(told[i], v)]
        /\ queue' = queue \/ queue' = [queue EXCEPT ![i] = Append(queue[i], v)]
        /\ \/ waiters' = waiters
           \/ waiters[i] > 0 /\ waiters' = [waiters EXCEPT ![i] = waiters[i] - 1]
    BY DEF Push
  <1>8. told' \in [Ids -> Seq(Value)]
    BY <1>1, <1>6, <1>7, ExceptTyped
  <1>9. queue' \in [Ids -> Seq(Value)]
    BY <1>1, <1>6, <1>7, ExceptTyped
  <1>10. waiters' \in [Ids -> 0..MaxRecvs]
    BY <1>1, <1>7
  <1> QED BY <1>4, <1>5, <1>8, <1>9, <1>10

\* An ending, however often it is told, leaves the items in order.
LEMMA EndingKept ==
    ASSUME NEW e \in Seq(Value), NEW f, NEW v \in Value, Ordered(e),
           Extends(f, e, v), Ending(v)
    PROVE  Ordered(f) /\ \E n \in DOMAIN f : Ending(f[n])
  <1>1. /\ DOMAIN e = 1..Len(e) /\ DOMAIN f = 1..Len(f)
        /\ Len(e) \in Nat /\ Len(f) \in Nat /\ Len(e) < Len(f)
    BY LenProperties DEF Extends
  <1>2. Len(f) \in DOMAIN f /\ Ending(f[Len(f)])
    BY <1>1 DEF Extends
  <1>3. ASSUME NEW n \in DOMAIN f, ~Ending(f[n])
        PROVE  f[n].body = n /\ \A k \in 1..n : ~Ending(f[k])
    <2>1. n \in DOMAIN e /\ f[n] = e[n] /\ \A k \in 1..n : k \in DOMAIN f /\ f[k] = e[k]
      BY <1>1, <1>3 DEF Extends
    <2> QED BY <1>3, <2>1 DEF Ordered
  <1> QED BY <1>2, <1>3 DEF Ordered

\* So does an item that has the next number, behind items only.
LEMMA ItemKept ==
    ASSUME NEW e \in Seq(Value), NEW f, NEW v \in Value, Ordered(e),
           Extends(f, e, v), Len(f) = Len(e) + 1, ~Ending(v),
           v.body = Len(e) + 1, \A n \in DOMAIN e : ~Ending(e[n])
    PROVE  Ordered(f) /\ \A n \in DOMAIN f : ~Ending(f[n])
  <1>1. /\ DOMAIN e = 1..Len(e) /\ DOMAIN f = 1..(Len(e) + 1)
        /\ Len(e) \in Nat
    BY LenProperties DEF Extends
  <1>2. ASSUME NEW n \in DOMAIN f
        PROVE  ~Ending(f[n]) /\ f[n].body = n
    <2>1. CASE n \in DOMAIN e
      <3>1. f[n] = e[n]
        BY <1>1, <2>1 DEF Extends
      <3> QED BY <2>1, <3>1 DEF Ordered
    <2>2. CASE n = Len(e) + 1
      <3>1. f[n] = v
        BY <1>1, <2>2 DEF Extends
      <3> QED BY <2>2, <3>1
    <2> QED BY <1>1, <2>1, <2>2
  <1>3. \A n \in DOMAIN f : \A k \in 1..n : k \in DOMAIN f
    BY <1>1
  <1> QED BY <1>2, <1>3 DEF Ordered

-----------------------------------------------------------------------------
(* The steps keep the types. *)

\* WakeAll keeps the types.
LEMMA WakeTyped ==
    ASSUME TypeOK, NEW S \in SUBSET Ids, NEW v \in Value, WakeAll(S, v)
    PROVE  /\ told' \in [Ids -> Seq(Value)] /\ queue' \in [Ids -> Seq(Value)]
           /\ waiters' \in [Ids -> 0..MaxRecvs]
  <1>1. /\ told \in [Ids -> Seq(Value)] /\ queue \in [Ids -> Seq(Value)]
        /\ waiters \in [Ids -> 0..MaxRecvs] /\ MaxRecvs \in Nat
    BY TsClientAssumption DEF TypeOK
  <1>2. ASSUME NEW i \in Ids
        PROVE  /\ told[i] \o [n \in 1..waiters[i] |-> v] \in Seq(Value)
               /\ Append(queue[i], v) \in Seq(Value)
    <2>1. waiters[i] \in Nat
      BY <1>1
    <2>2. PICK w \in Seq(Value) : w = [n \in 1..waiters[i] |-> v]
      BY <2>1, Repeated
    <2>3. told[i] \in Seq(Value) /\ queue[i] \in Seq(Value)
      BY <1>1
    <2>4. told[i] \o w \in Seq(Value)
      BY <2>3, ConcatProperties
    <2>5. Append(queue[i], v) \in Seq(Value)
      BY <2>3, AppendProperties
    <2> QED BY <2>2, <2>4, <2>5, Zenon
  <1>3. told' \in [Ids -> Seq(Value)]
    BY <1>1, <1>2, Zenon DEF WakeAll
  <1>4. queue' \in [Ids -> Seq(Value)]
    BY <1>1, <1>2, Zenon DEF WakeAll
  <1>5. waiters' \in [Ids -> 0..MaxRecvs]
    BY <1>1 DEF WakeAll
  <1> QED BY <1>3, <1>4, <1>5

\* Every call of the program and of its callers keeps the types.
LEMMA CallsTyped ==
    ASSUME TypeOK, NEW i \in Ids,
           \/ RunStart
           \/ \E k \in Kinds, s \in {"none", "live"} : Call(k, s)
           \/ Sent(i) \/ SendFailed(i)
    PROVE  TypeOK'
  <1>1. /\ next_id \in 1..(MaxCalls + 1) /\ MaxCalls \in Nat
        /\ kind \in [Ids -> Kinds] /\ signal \in [Ids -> {"none", "live", "aborted"}]
        /\ phase \in [Ids -> {"unused", "sending", "waiting", "open", "done"}]
    BY TsClientAssumption DEF TypeOK
  <1>2. CASE RunStart
    BY <1>2 DEF TypeOK, RunStart, callVars, streamVars, abortVars, peerVars
  <1>3. ASSUME NEW k \in Kinds, NEW s \in {"none", "live"}, Call(k, s)
        PROVE  TypeOK'
    <2>1. next_id \in Ids /\ next_id' \in 1..(MaxCalls + 1)
      BY <1>1, <1>3 DEF Call
    <2>2. /\ kind' \in [Ids -> Kinds] /\ signal' \in [Ids -> {"none", "live", "aborted"}]
          /\ phase' \in [Ids -> {"unused", "sending", "waiting", "open", "done"}]
      BY <1>1, <1>3 DEF Call
    <2>3. pending' \in SUBSET Ids /\ asked' \in SUBSET Ids
      BY <1>3, <2>1 DEF Call, TypeOK
    <2> QED BY <1>3, <2>1, <2>2, <2>3 DEF Call, TypeOK, streamVars, peerVars
  <1>4. CASE Sent(i)
    BY <1>4 DEF TypeOK, Sent, callVars, streamVars, peerVars
  <1>5. CASE SendFailed(i)
    BY <1>5 DEF TypeOK, SendFailed, callVars, streamVars, abortVars, peerVars
  <1> QED BY <1>2, <1>3, <1>4, <1>5

\* So do the answers that the callers take, and an abort.
LEMMA AnswersTyped ==
    ASSUME TypeOK, NEW i \in Ids, Return(i) \/ Recv(i) \/ Abort(i)
    PROVE  TypeOK'
  <1>1. /\ told \in [Ids -> Seq(Value)] /\ queue \in [Ids -> Seq(Value)]
        /\ waiters \in [Ids -> 0..MaxRecvs] /\ promise \in [Ids -> Value]
        /\ MaxRecvs \in Nat
    BY TsClientAssumption DEF TypeOK
  <1>2. told[i] \in Seq(Value) /\ queue[i] \in Seq(Value) /\ Len(told[i]) \in Nat
    BY <1>1, LenProperties
  <1>3. CASE Return(i)
    <2>1. Append(told[i], promise[i]) \in Seq(Value)
      BY <1>1, <1>2, AppendProperties
    <2>2. told' \in [Ids -> Seq(Value)]
      BY <1>1, <1>3, <2>1, ExceptTyped DEF Return
    <2>3. phase' \in [Ids -> {"unused", "sending", "waiting", "open", "done"}]
      BY <1>3 DEF Return, TypeOK
    <2> QED BY <1>3, <2>2, <2>3 DEF Return, TypeOK, callVars, abortVars, peerVars
  <1>4. CASE Recv(i) /\ queue[i] # <<>>
    <2>1. Head(queue[i]) \in Value /\ Tail(queue[i]) \in Seq(Value)
      BY <1>2, <1>4, HeadTailProperties
    <2>2. Append(told[i], Head(queue[i])) \in Seq(Value)
      BY <1>2, <2>1, AppendProperties
    <2>3. told' \in [Ids -> Seq(Value)]
      <3>1. told' = [told EXCEPT ![i] = Append(told[i], Head(queue[i]))]
        BY <1>4 DEF Recv
      <3> QED BY <1>1, <2>2, <3>1, ExceptTyped
    <2>4. queue' \in [Ids -> Seq(Value)]
      <3>1. queue' = [queue EXCEPT ![i] = Tail(queue[i])]
        BY <1>4 DEF Recv
      <3> QED BY <1>1, <2>1, <3>1, ExceptTyped
    <2>5. UNCHANGED <<next_id, kind, waiters, pending, phase, promise, signal,
                      listening, cancelled, loop, asked, sent, over>>
      BY <1>4 DEF Recv, callVars, abortVars, peerVars
    <2> QED BY <2>3, <2>4, <2>5 DEF TypeOK
  <1>5. CASE Recv(i) /\ queue[i] = <<>>
    <2>1. waiters' = [waiters EXCEPT ![i] = waiters[i] + 1] /\ UNCHANGED <<told, queue>>
      BY <1>5 DEF Recv
    <2>2. waiters[i] + 1 \in 0..MaxRecvs
      <3>1. Len(told[i]) + waiters[i] < MaxRecvs /\ waiters[i] \in 0..MaxRecvs
        BY <1>1, <1>5 DEF Recv
      <3> QED BY <1>1, <1>2, <3>1
    <2>3. waiters' \in [Ids -> 0..MaxRecvs]
      BY <1>1, <2>1, <2>2, ExceptTyped
    <2> QED BY <1>5, <2>1, <2>3 DEF Recv, TypeOK, callVars, abortVars, peerVars
  <1>6. CASE Abort(i)
    <2>1. /\ signal' \in [Ids -> {"none", "live", "aborted"}]
          /\ pending' \in SUBSET Ids /\ cancelled' \in SUBSET Ids
      <3>1. /\ signal \in [Ids -> {"none", "live", "aborted"}]
            /\ pending \in SUBSET Ids /\ cancelled \in SUBSET Ids
        BY DEF TypeOK
      <3>2. /\ signal' = [signal EXCEPT ![i] = "aborted"]
            /\ pending' = pending \/ pending' = pending \ {i}
            /\ cancelled' = cancelled \/ cancelled' = cancelled \cup {i}
        BY <1>6 DEF Abort
      <3> QED BY <3>1, <3>2
    <2>2. promise' \in [Ids -> Value]
      BY <1>1, <1>6, Values, ExceptTyped DEF Abort
    <2>3. /\ told' \in [Ids -> Seq(Value)] /\ queue' \in [Ids -> Seq(Value)]
          /\ waiters' \in [Ids -> 0..MaxRecvs]
      <3>1. WakeAll({i}, Plain("aborted")) \/ UNCHANGED <<told, queue, waiters>>
        BY <1>6 DEF Abort, streamVars
      <3> QED BY <1>1, <3>1, WakeTyped, Values
    <2> QED BY <1>6, <2>1, <2>2, <2>3 DEF Abort, TypeOK, callVars, peerVars
  <1> QED BY <1>3, <1>4, <1>5, <1>6

\* So do a message and the end of the connection.
LEMMA LoopTyped ==
    ASSUME TypeOK,
           \/ RunFail
           \/ \E m \in ServerMsg : Fits(m) /\ HandleMessage(m)
                /\ (waiters[m.id] > 0 => queue[m.id] = <<>>)
    PROVE  TypeOK'
  <1>1. /\ promise \in [Ids -> Value] /\ sent \in [Ids -> 0..MaxItems]
        /\ pending \in SUBSET Ids /\ over \in SUBSET Ids
    BY DEF TypeOK
  <1>2. CASE RunFail
    <2>1. promise' \in [Ids -> Value]
      BY <1>1, <1>2, Values DEF RunFail
    <2>2. /\ told' \in [Ids -> Seq(Value)] /\ queue' \in [Ids -> Seq(Value)]
          /\ waiters' \in [Ids -> 0..MaxRecvs]
      <3>1. /\ WakeAll({j \in pending : kind[j] = "stream"}, Plain("down"))
            /\ {j \in pending : kind[j] = "stream"} \in SUBSET Ids
        BY <1>1, <1>2 DEF RunFail
      <3> QED BY <3>1, WakeTyped, Values
    <2>3. pending' \in SUBSET Ids
      BY <1>2 DEF RunFail
    <2> QED BY <1>2, <2>1, <2>2, <2>3 DEF RunFail, TypeOK, callVars, abortVars, peerVars
  <1>3. ASSUME NEW m \in ServerMsg, Fits(m), HandleMessage(m),
               waiters[m.id] > 0 => queue[m.id] = <<>>
        PROVE  TypeOK'
    <2> DEFINE v == [type |-> m.type, body |-> m.body]
    <2>1. m.id \in Ids /\ m.body \in 0..MaxItems /\ v \in Value
      BY EventTyped, <1>3 DEF ServerMsg
    <2>2. promise' = promise \/ promise' = [promise EXCEPT ![m.id] = v]
      BY <1>3, Zenon DEF HandleMessage
    <2>3. promise' \in [Ids -> Value]
      BY <1>1, <2>1, <2>2, ExceptTyped
    <2>4. Push(m.id, v) \/ UNCHANGED <<told, queue, waiters>>
      BY <1>3, Zenon DEF HandleMessage, streamVars
    <2>5. /\ told' \in [Ids -> Seq(Value)] /\ queue' \in [Ids -> Seq(Value)]
          /\ waiters' \in [Ids -> 0..MaxRecvs]
      <3>1. CASE Push(m.id, v)
        BY <1>3, <2>1, <3>1, PushExtends
      <3>2. CASE UNCHANGED <<told, queue, waiters>>
        BY <3>2 DEF TypeOK
      <3> QED BY <2>4, <3>1, <3>2
    <2>6. /\ sent' \in [Ids -> 0..MaxItems]
          /\ pending' \in SUBSET Ids /\ over' \in SUBSET Ids
      <3>1. /\ sent' = sent \/ sent' = [sent EXCEPT ![m.id] = m.body]
            /\ pending' = pending \/ pending' = pending \ {m.id}
            /\ over' = over \/ over' = over \cup {m.id}
        <4>1. /\ sent' = [sent EXCEPT ![m.id] = IF m.type = "item" THEN m.body ELSE @]
              /\ pending' = IF m.type = "item" THEN pending ELSE pending \ {m.id}
              /\ over' = IF m.type = "item" THEN over ELSE over \cup {m.id}
          BY <1>3, Zenon DEF HandleMessage
        <4> QED BY <1>1, <2>1, <4>1
      <3>2. sent' \in [Ids -> 0..MaxItems]
        BY <1>1, <2>1, <3>1, ExceptTyped
      <3> QED BY <1>1, <2>1, <3>1, <3>2
    <2> QED BY <1>3, <2>3, <2>5, <2>6 DEF HandleMessage, TypeOK, callVars, abortVars
  <1> QED BY <1>2, <1>3

-----------------------------------------------------------------------------
(* The steps keep every call in order. *)

\* A step that does nothing to a call keeps it in order.
LEMMA Untouched ==
    ASSUME NEW j \in Ids, CallOK(j),
           kind'[j] = kind[j], phase'[j] = phase[j], promise'[j] = promise[j],
           told'[j] = told[j], queue'[j] = queue[j], waiters'[j] = waiters[j],
           signal'[j] = signal[j], sent'[j] = sent[j],
           j \in listening' <=> j \in listening, j \in asked' <=> j \in asked,
           j \in pending' <=> j \in pending, j \in over' <=> j \in over,
           j < next_id' <=> j < next_id, j \in pending => loop' # "failed"
    PROVE  CallOK(j)'
  <1>1. Events(j)' = Events(j)
    BY DEF Events
  <1>2. FreshOK(j)'
    BY DEF CallOK, FreshOK, Used
  <1>3. KindOK(j)'
    BY DEF CallOK, KindOK
  <1>4. MapOK(j)'
    BY <1>1 DEF CallOK, MapOK, Used, HasEnding
  <1>5. StreamOK(j)'
    BY <1>1 DEF CallOK, StreamOK
  <1> QED BY <1>1, <1>2, <1>3, <1>4, <1>5 DEF CallOK

\* Nothing happened to a new call.
LEMMA FreshCall ==
    ASSUME NEW i \in Ids, i < next_id', kind'[i] \in Kinds,
           phase'[i] = "sending", i \in pending', i \notin over',
           i \notin listening', loop' # "failed",
           promise'[i] = None, sent'[i] = 0,
           told'[i] = <<>>, queue'[i] = <<>>, waiters'[i] = 0
    PROVE  CallOK(i)'
  <1>1. Events(i)' = <<>> /\ Len(Events(i)') = 0 /\ DOMAIN Events(i)' = {}
    <2>1. <<>> \o <<>> = <<>>
      BY ConcatEmptySeq, EmptySeq
    <2>2. Events(i)' = <<>>
      BY <2>1 DEF Events
    <2> QED BY <2>2, EmptySeq
  <1>2. FreshOK(i)'
    BY DEF FreshOK, Used
  <1>3. KindOK(i)'
    BY Values DEF KindOK
  <1>4. MapOK(i)'
    BY <1>1 DEF MapOK, HasEnding, Used
  <1>5. StreamOK(i)' /\ Ordered(Events(i)')
    BY <1>1 DEF StreamOK, Ordered
  <1> QED BY <1>2, <1>3, <1>4, <1>5 DEF CallOK

\* A call is made: the next one.
LEMMA CallKeeps ==
    ASSUME IInv, NEW k \in Kinds, NEW s \in {"none", "live"}, Call(k, s),
           NEW i \in Ids
    PROVE  CallOK(i)'
  <1>1. /\ next_id \in 1..MaxCalls /\ MaxCalls \in Nat /\ next_id' = next_id + 1
        /\ DOMAIN kind = Ids /\ DOMAIN signal = Ids /\ DOMAIN phase = Ids
    BY TsClientAssumption DEF IInv, TypeOK, Call
  <1>2. CallOK(i)
    BY DEF IInv
  <1>3. CASE i = next_id
    <2>1. /\ ~Used(i) /\ i \notin asked /\ i \notin over /\ i \notin listening
          /\ promise[i] = None /\ sent[i] = 0
          /\ told[i] = <<>> /\ queue[i] = <<>> /\ waiters[i] = 0
      BY <1>1, <1>2, <1>3 DEF CallOK, FreshOK
    <2>2. /\ Used(i)' /\ i < next_id' /\ kind'[i] = k /\ phase'[i] = "sending"
          /\ i \in pending' /\ loop' # "failed"
          /\ UNCHANGED <<promise, told, queue, waiters, listening, sent, over>>
      BY <1>1, <1>3 DEF Call, Used, streamVars, peerVars
    <2>3. promise'[i] = None /\ sent'[i] = 0 /\ i \notin over' /\ i \notin listening'
      BY <2>1, <2>2
    <2>4. told'[i] = <<>> /\ queue'[i] = <<>> /\ waiters'[i] = 0
      BY <2>1, <2>2
    <2> QED BY <2>2, <2>3, <2>4, FreshCall
  <1>4. CASE i # next_id
    <2>1. /\ kind'[i] = kind[i] /\ phase'[i] = phase[i] /\ signal'[i] = signal[i]
          /\ UNCHANGED <<promise, told, queue, waiters, listening, sent, over>>
          /\ i \in asked' <=> i \in asked
          /\ i \in pending' <=> i \in pending
          /\ loop' # "failed"
      BY <1>1, <1>4 DEF Call, streamVars, peerVars
    <2>2. i < next_id' <=> i < next_id
      BY <1>1, <1>4
    <2> QED BY <1>2, <2>1, <2>2, Untouched
  <1> QED BY <1>3, <1>4

\* send resolves or rejects, and callUnary returns.
LEMMA ProgressKeeps ==
    ASSUME IInv, NEW i \in Ids, Sent(i) \/ SendFailed(i) \/ Return(i),
           NEW j \in Ids
    PROVE  CallOK(j)'
  <1>1. /\ CallOK(j) /\ kind[j] \in Kinds /\ phase \in [Ids ->
               {"unused", "sending", "waiting", "open", "done"}]
        /\ told \in [Ids -> Seq(Value)] /\ promise[j] \in Value
    BY DEF IInv, TypeOK
  <1>2. CASE j # i
    <2>1. /\ UNCHANGED <<next_id, kind, promise, queue, waiters, signal, sent,
                         asked, over, loop>>
          /\ phase'[j] = phase[j] /\ told'[j] = told[j]
          /\ j \in listening' <=> j \in listening
          /\ j \in pending' <=> j \in pending
      BY <1>1, <1>2 DEF Sent, SendFailed, Return, callVars, streamVars, abortVars, peerVars
    <2> QED BY <1>1, <2>1, Untouched DEF CallOK, MapOK
  <1>3. CASE j = i /\ Sent(i)
    <2>1. /\ UNCHANGED <<next_id, kind, pending, promise, told, queue, waiters,
                         signal, sent, asked, over, loop>>
          /\ phase[j] = "sending"
          /\ phase'[j] = IF kind[j] = "unary" THEN "waiting" ELSE "open"
          /\ j \in listening' => j \in listening \/ signal[j] = "live"
      BY <1>1, <1>3 DEF Sent, callVars, streamVars, peerVars
    <2>2. Events(j)' = Events(j) /\ (HasEnding(j)' <=> HasEnding(j))
      BY <2>1 DEF Events, HasEnding
    <2>3. FreshOK(j)'
      BY <1>1, <2>1 DEF CallOK, FreshOK, Used
    <2>4. KindOK(j)'
      BY <1>1, <2>1 DEF CallOK, KindOK, Kinds
    <2>5. MapOK(j)' /\ StreamOK(j)' /\ Ordered(Events(j))'
      BY <1>1, <2>1, <2>2 DEF CallOK, MapOK, StreamOK, Used
    <2> QED BY <2>3, <2>4, <2>5 DEF CallOK
  <1>4. CASE j = i /\ SendFailed(i)
    <2>1. /\ UNCHANGED <<next_id, kind, promise, told, queue, waiters, signal,
                         listening, sent, asked, over, loop>>
          /\ phase[j] = "sending" /\ phase'[j] = "done" /\ j \notin pending'
      BY <1>1, <1>4 DEF SendFailed, callVars, streamVars, abortVars, peerVars
    <2>2. Events(j)' = Events(j) /\ HasEnding(j)'
      BY <2>1 DEF Events, HasEnding
    <2>3. FreshOK(j)' /\ KindOK(j)'
      BY <1>1, <2>1 DEF CallOK, FreshOK, KindOK, Used
    <2>4. MapOK(j)' /\ StreamOK(j)' /\ Ordered(Events(j))'
      BY <1>1, <2>1, <2>2 DEF CallOK, MapOK, StreamOK, Used
    <2> QED BY <2>3, <2>4 DEF CallOK
  <1>5. CASE j = i /\ Return(i)
    <2>1. /\ UNCHANGED <<next_id, kind, pending, promise, queue, waiters, signal,
                         listening, sent, asked, over, loop>>
          /\ phase[j] = "waiting" /\ phase'[j] = "done" /\ promise[j] # None
          /\ told'[j] = Append(told[j], promise[j])
      BY <1>1, <1>5 DEF Return, callVars, abortVars, peerVars
    <2>2. /\ kind[j] = "unary" /\ queue[j] = <<>> /\ Ending(promise[j])
          /\ \A n \in DOMAIN told[j] : Ending(told[j][n])
      BY <1>1, <2>1 DEF CallOK, KindOK
    <2>3. told[j] \in Seq(Value)
      BY <1>1
    <2>4. Append(told[j], promise[j]) \in Seq(Value)
      BY <1>1, <2>3, AppendProperties
    <2>5. Events(j)' = told'[j]
      BY <2>1, <2>2, <2>4, ConcatEmptySeq DEF Events
    <2>6. \A n \in DOMAIN told'[j] : Ending(told'[j][n])
      <3>1. PICK t \in Seq(Value) : t = told[j]
        BY <2>3
      <3> QED BY <1>1, <2>1, <2>2, <3>1
    <2>7. j \notin pending /\ HasEnding(j)'
      BY <1>1, <2>1 DEF CallOK, MapOK, HasEnding
    <2>8. FreshOK(j)'
      BY <1>1, <2>1 DEF CallOK, FreshOK, Used
    <2>9. KindOK(j)'
      BY <1>1, <2>1, <2>2, <2>6 DEF CallOK, KindOK
    <2>10. MapOK(j)' /\ StreamOK(j)' /\ Ordered(Events(j))'
      BY <1>1, <2>1, <2>5, <2>6, <2>7 DEF CallOK, MapOK, StreamOK, Ordered, Used
    <2> QED BY <2>8, <2>9, <2>10 DEF CallOK
  <1> QED BY <1>2, <1>3, <1>4, <1>5

\* recv() is called: the events are the same ones, wherever they are.
LEMMA RecvKeeps ==
    ASSUME IInv, NEW i \in Ids, Recv(i), NEW j \in Ids
    PROVE  CallOK(j)'
  <1>1. /\ CallOK(j) /\ kind[j] \in Kinds /\ waiters[j] \in Nat
        /\ told[j] \in Seq(Value) /\ queue[j] \in Seq(Value)
    BY TsClientAssumption DEF IInv, TypeOK
  <1>2. DOMAIN told = Ids /\ DOMAIN queue = Ids /\ DOMAIN waiters = Ids
    BY DEF IInv, TypeOK
  <1>3. UNCHANGED <<next_id, kind, pending, phase, promise, signal, listening,
                    sent, asked, over, loop>>
    BY DEF Recv, callVars, abortVars, peerVars
  <1>4. CASE j # i
    <2>1. told'[j] = told[j] /\ queue'[j] = queue[j] /\ waiters'[j] = waiters[j]
      BY <1>2, <1>4 DEF Recv
    <2> QED BY <1>1, <1>3, <2>1, Untouched DEF CallOK, MapOK
  <1>5. CASE j = i
    <2>1. Events(j)' = Events(j) /\ (waiters'[j] > 0 => queue'[j] = <<>>)
      <3>1. CASE queue[j] = <<>>
        <4>1. told' = told /\ queue' = queue
          BY <1>5, <3>1 DEF Recv
        <4> QED BY <3>1, <4>1 DEF Events
      <3>2. CASE queue[j] # <<>>
        <4>1. /\ told'[j] = Append(told[j], Head(queue[j]))
              /\ queue'[j] = Tail(queue[j]) /\ waiters' = waiters
          <5>1. /\ told' = [told EXCEPT ![i] = Append(@, Head(queue[i]))]
                /\ queue' = [queue EXCEPT ![i] = Tail(@)] /\ waiters' = waiters
            BY <1>5, <3>2 DEF Recv
          <5> QED BY <1>2, <1>5, <5>1
        <4>2. Append(told[j], Head(queue[j])) \o Tail(queue[j]) = told[j] \o queue[j]
          BY <1>1, <3>2, HeadMoves
        <4> QED BY <1>1, <3>2, <4>1, <4>2 DEF Events, CallOK, KindOK
      <3> QED BY <3>1, <3>2
    <2>2. HasEnding(j)' <=> HasEnding(j)
      BY <1>3, <2>1 DEF HasEnding
    <2>3. kind[j] = "stream" /\ phase[j] = "open"
      BY <1>1, <1>5 DEF Recv, CallOK, KindOK, Kinds
    <2>4. FreshOK(j)' /\ KindOK(j)'
      BY <1>1, <1>3, <2>1, <2>3 DEF CallOK, FreshOK, KindOK, Used
    <2>5. MapOK(j)' /\ StreamOK(j)' /\ Ordered(Events(j))'
      BY <1>1, <1>3, <2>1, <2>2 DEF CallOK, MapOK, StreamOK, Used
    <2> QED BY <2>4, <2>5 DEF CallOK
  <1> QED BY <1>4, <1>5

\* The events of a call in order, of one that an event has ended: the call
\* leaves the map.
LEMMA StreamEnds ==
    ASSUME TypeOK, NEW j \in Ids, CallOK(j), NEW v \in Value, Ending(v),
           Used(j), kind[j] = "stream", Extends(Events(j)', Events(j), v),
           UNCHANGED <<next_id, kind, phase, listening>>,
           promise'[j] = promise[j], j \notin pending',
           j \in over' => j \in over \/ j \in asked,
           asked' = asked, waiters'[j] > 0 => queue'[j] = <<>>
    PROVE  CallOK(j)'
  <1>1. Events(j) \in Seq(Value) /\ Ordered(Events(j))
    BY EventsTyped DEF CallOK
  <1>2. PICK f : f = Events(j)' /\ Extends(f, Events(j), v)
    OBVIOUS
  <1>3. Ordered(f) /\ \E n \in DOMAIN f : Ending(f[n])
    BY <1>1, <1>2, EndingKept
  <1>4. Ordered(Events(j))' /\ HasEnding(j)'
    BY <1>2, <1>3 DEF HasEnding, Ordered
  <1>5. FreshOK(j)' /\ KindOK(j)'
    BY DEF CallOK, FreshOK, KindOK, Used
  <1>6. MapOK(j)' /\ StreamOK(j)'
    BY <1>4 DEF MapOK, StreamOK, Used
  <1> QED BY <1>4, <1>5, <1>6 DEF CallOK

\* So does a unary call whose promise is settled.
LEMMA UnaryEnds ==
    ASSUME TypeOK, NEW j \in Ids, CallOK(j), NEW v \in Value, Ending(v),
           v # None, Used(j), kind[j] = "unary", promise'[j] = v,
           UNCHANGED <<next_id, kind, phase, listening>>,
           told'[j] = told[j], queue'[j] = queue[j], waiters'[j] = waiters[j],
           j \notin pending', j \in over' => j \in over \/ j \in asked,
           asked' = asked
    PROVE  CallOK(j)'
  <1>1. Events(j)' = Events(j) /\ HasEnding(j)'
    BY DEF Events, HasEnding
  <1>2. FreshOK(j)' /\ KindOK(j)'
    BY DEF CallOK, FreshOK, KindOK, Used
  <1>3. MapOK(j)' /\ StreamOK(j)' /\ Ordered(Events(j))'
    BY <1>1 DEF CallOK, MapOK, StreamOK, Used
  <1> QED BY <1>2, <1>3 DEF CallOK

\* What WakeAll does to one stream.
LEMMA Woken ==
    ASSUME TypeOK, NEW S, NEW v \in Value, WakeAll(S, v), NEW j \in Ids,
           waiters[j] > 0 => queue[j] = <<>>
    PROVE  /\ j \in S => /\ Extends(Events(j)', Events(j), v)
                         /\ waiters'[j] = 0
           /\ j \notin S => /\ told'[j] = told[j] /\ queue'[j] = queue[j]
                            /\ waiters'[j] = waiters[j]
  <1>1. CASE j \in S
    <2>1. /\ told'[j] = told[j] \o [n \in 1..waiters[j] |-> v]
          /\ queue'[j] = Append(queue[j], v) /\ waiters'[j] = 0
      BY <1>1, Zenon DEF WakeAll
    <2> QED BY <1>1, <2>1, WokenExtends
  <1>2. CASE j \notin S
    BY <1>2, Zenon DEF WakeAll
  <1> QED BY <1>1, <1>2

\* The application aborts a call.
LEMMA AbortKeeps ==
    ASSUME IInv, NEW i \in Ids, Abort(i), NEW j \in Ids
    PROVE  CallOK(j)'
  <1>1. /\ TypeOK /\ CallOK(j) /\ kind[j] \in Kinds
        /\ DOMAIN signal = Ids /\ DOMAIN promise = Ids
        /\ waiters[j] > 0 => queue[j] = <<>>
    BY DEF IInv, TypeOK, CallOK, KindOK
  <1>2. /\ UNCHANGED <<next_id, kind, phase, listening, sent, asked, over, loop>>
        /\ signal[i] = "live"
        /\ signal' = [signal EXCEPT ![i] = "aborted"]
    BY DEF Abort, callVars, peerVars
  <1>3. CASE i \in listening /\ kind[i] = "stream"
    <2>1. /\ pending' = pending \ {i} /\ promise' = promise
          /\ WakeAll({i}, Plain("aborted"))
      BY <1>3 DEF Abort
    <2>2. CASE j = i
      <3>1. Used(j)
        BY <1>1, <1>3, <2>2 DEF CallOK, FreshOK
      <3>2. Extends(Events(j)', Events(j), Plain("aborted")) /\ waiters'[j] = 0
        BY <1>1, <2>1, <2>2, Woken, Values
      <3> QED BY <1>1, <1>2, <1>3, <2>1, <2>2, <3>1, <3>2, StreamEnds, Values
    <2>3. CASE j # i
      <3>1. told'[j] = told[j] /\ queue'[j] = queue[j] /\ waiters'[j] = waiters[j]
        BY <1>1, <2>1, <2>3, Woken, Values
      <3>2. signal'[j] = signal[j] /\ (j \in pending' <=> j \in pending)
        BY <1>1, <1>2, <2>1, <2>3
      <3> QED BY <1>1, <1>2, <2>1, <3>1, <3>2, Untouched DEF CallOK, MapOK
    <2> QED BY <2>2, <2>3
  <1>4. CASE i \in listening /\ kind[i] = "unary" /\ i \in pending
    <2>1. /\ pending' = pending \ {i} /\ UNCHANGED <<told, queue, waiters>>
          /\ promise' = [promise EXCEPT ![i] = Plain("aborted")]
      BY <1>4 DEF Abort, streamVars
    <2>2. CASE j = i
      <3>1. Used(j)
        BY <1>1, <1>4, <2>2 DEF CallOK, MapOK
      <3>2. promise'[j] = Plain("aborted")
        BY <1>1, <2>1, <2>2
      <3> QED BY <1>1, <1>2, <1>4, <2>1, <2>2, <3>1, <3>2, UnaryEnds, Values
    <2>3. CASE j # i
      <3>1. /\ promise'[j] = promise[j] /\ signal'[j] = signal[j]
            /\ j \in pending' <=> j \in pending
        BY <1>1, <1>2, <2>1, <2>3
      <3> QED BY <1>1, <1>2, <2>1, <3>1, Untouched DEF CallOK, MapOK
    <2> QED BY <2>2, <2>3
  <1>5. CASE i \notin listening \/ (kind[i] = "unary" /\ i \notin pending)
    <2>1. UNCHANGED <<pending, promise, told, queue, waiters>>
      BY <1>5 DEF Abort, streamVars
    <2>2. CASE j # i
      <3>1. signal'[j] = signal[j]
        BY <1>1, <1>2, <2>2
      <3> QED BY <1>1, <1>2, <2>1, <3>1, Untouched DEF CallOK, MapOK
    <2>3. CASE j = i
      <3>1. Events(j)' = Events(j) /\ (HasEnding(j)' <=> HasEnding(j))
        BY <1>2, <2>1 DEF Events, HasEnding
      <3>2. FreshOK(j)' /\ KindOK(j)'
        BY <1>1, <1>2, <2>1 DEF CallOK, FreshOK, KindOK, Used
      <3>3. MapOK(j)' /\ StreamOK(j)' /\ Ordered(Events(j))'
        BY <1>1, <1>2, <1>5, <2>1, <2>3, <3>1 DEF CallOK, MapOK, StreamOK, Used
      <3> QED BY <3>2, <3>3 DEF CallOK
    <2> QED BY <2>2, <2>3
  <1> QED BY <1>3, <1>4, <1>5 DEF Abort

\* The connection fails.
LEMMA RunFailKeeps ==
    ASSUME IInv, RunFail, NEW j \in Ids
    PROVE  CallOK(j)'
  <1>1. /\ TypeOK /\ CallOK(j) /\ kind[j] \in Kinds
        /\ waiters[j] > 0 => queue[j] = <<>>
    BY DEF IInv, TypeOK, CallOK, KindOK
  <1>2. /\ UNCHANGED <<next_id, kind, phase, signal, listening, sent, asked, over>>
        /\ pending' = {}
        /\ promise'[j] = IF j \in pending /\ kind[j] = "unary"
                           THEN Plain("down") ELSE promise[j]
        /\ WakeAll({i \in pending : kind[i] = "stream"}, Plain("down"))
    BY DEF RunFail, callVars, abortVars, peerVars
  <1>3. /\ j \in pending /\ kind[j] = "stream" =>
               Extends(Events(j)', Events(j), Plain("down")) /\ waiters'[j] = 0
        /\ ~(j \in pending /\ kind[j] = "stream") =>
               told'[j] = told[j] /\ queue'[j] = queue[j] /\ waiters'[j] = waiters[j]
    BY <1>1, <1>2, Woken, Values
  <1>4. CASE j \in pending /\ kind[j] = "stream"
    BY <1>1, <1>2, <1>3, <1>4, StreamEnds, Values DEF CallOK, MapOK
  <1>5. CASE j \in pending /\ kind[j] = "unary"
    BY <1>1, <1>2, <1>3, <1>5, UnaryEnds, Values DEF CallOK, MapOK
  <1>6. CASE j \notin pending
    BY <1>1, <1>2, <1>3, <1>6, Untouched
  <1> QED BY <1>1, <1>4, <1>5, <1>6

\* A message arrives: an item behind the other events of its stream, an
\* ending for a call that leaves the map, or one for nobody.
LEMMA MessageKeeps ==
    ASSUME IInv, NEW m \in ServerMsg, Fits(m), HandleMessage(m), NEW j \in Ids
    PROVE  CallOK(j)'
  <1> DEFINE i == m.id
             v == [type |-> m.type, body |-> m.body]
  <1>1. /\ TypeOK /\ CallOK(j) /\ kind[j] \in Kinds /\ i \in Ids
        /\ DOMAIN promise = Ids /\ DOMAIN sent = Ids
        /\ waiters[j] > 0 => queue[j] = <<>>
    BY DEF IInv, TypeOK, CallOK, KindOK, ServerMsg
  <1>2. /\ UNCHANGED <<next_id, kind, phase, signal, listening, asked, loop>>
        /\ over' = IF m.type = "item" THEN over ELSE over \cup {i}
        /\ sent' = [sent EXCEPT ![i] = IF m.type = "item" THEN m.body ELSE @]
        /\ pending' = IF m.type = "item" THEN pending ELSE pending \ {i}
    BY DEF HandleMessage, callVars, abortVars
  <1>3. /\ v \in Value /\ v # None /\ (Ending(v) <=> m.type # "item")
        /\ i \in asked \ over
        /\ m.type = "item" => kind[i] # "unary" /\ v.body = sent[i] + 1
                              /\ m.body = sent[i] + 1
    BY EventTyped, <1>1 DEF Fits
  <1>4. \/ i \in pending /\ kind[i] = "unary"
             /\ promise' = [promise EXCEPT ![i] = v]
             /\ UNCHANGED <<told, queue, waiters>>
        \/ i \in pending /\ kind[i] = "stream" /\ Push(i, v) /\ promise' = promise
        \/ i \notin pending /\ UNCHANGED <<promise, told, queue, waiters>>
    BY Zenon DEF HandleMessage, streamVars
  <1> HIDE DEF v
  <1>5. CASE j # i
    <2>1. \A k \in Ids : waiters[k] > 0 => queue[k] = <<>>
      BY DEF IInv, CallOK, KindOK
    <2>2. told'[j] = told[j] /\ queue'[j] = queue[j] /\ waiters'[j] = waiters[j]
      BY <1>1, <1>3, <1>4, <1>5, <2>1, PushExtends
    <2>3. /\ promise'[j] = promise[j] /\ sent'[j] = sent[j]
          /\ j \in pending' <=> j \in pending
          /\ j \in over' <=> j \in over
      BY <1>1, <1>2, <1>4, <1>5
    <2> QED BY <1>1, <1>2, <2>2, <2>3, Untouched DEF CallOK, MapOK
  <1>6. CASE j = i
    <2>1. Used(j)
      BY <1>1, <1>3, <1>6 DEF CallOK, FreshOK
    <2>2. CASE j \in pending /\ kind[j] = "stream" /\ m.type # "item"
      <3>1. /\ Extends(Events(j)', Events(j), v)
            /\ waiters'[j] > 0 => queue'[j] = <<>>
        BY <1>1, <1>3, <1>4, <1>6, <2>2, PushExtends
      <3>2. promise' = promise /\ j \notin pending' /\ j \in asked /\ asked' = asked
        BY <1>2, <1>3, <1>4, <1>6, <2>2
      <3> QED BY <1>1, <1>2, <1>3, <2>1, <2>2, <3>1, <3>2, StreamEnds
    <2>3. CASE j \in pending /\ kind[j] = "stream" /\ m.type = "item"
      <3>1. /\ Extends(Events(j)', Events(j), v)
            /\ Len(Events(j)') = Len(Events(j)) + 1
            /\ waiters'[j] > 0 => queue'[j] = <<>>
        BY <1>1, <1>3, <1>4, <1>6, <2>3, PushExtends
      <3>2. /\ promise' = promise /\ pending' = pending /\ over' = over
            /\ sent'[j] = sent[j] + 1
        BY <1>1, <1>2, <1>3, <1>4, <1>6, <2>3
      <3>3. /\ Events(j) \in Seq(Value) /\ Ordered(Events(j))
            /\ Len(Events(j)) = sent[j] /\ \A n \in DOMAIN Events(j) : ~Ending(Events(j)[n])
            /\ promise[j] = None /\ phase[j] # "done"
        BY <1>1, <2>3, EventsTyped DEF CallOK, KindOK, MapOK, StreamOK, HasEnding
      <3>4. PICK f : f = Events(j)' /\ Extends(f, Events(j), v)
                     /\ Len(f) = Len(Events(j)) + 1
        BY <3>1
      <3>5. Ordered(f) /\ \A n \in DOMAIN f : ~Ending(f[n])
        BY <1>3, <1>6, <2>3, <3>3, <3>4, ItemKept
      <3>6. Ordered(Events(j))' /\ ~HasEnding(j)'
        BY <1>2, <3>2, <3>3, <3>4, <3>5 DEF HasEnding, Ordered
      <3>7. FreshOK(j)' /\ KindOK(j)'
        BY <1>1, <1>2, <2>1, <2>3, <3>1, <3>2 DEF CallOK, FreshOK, KindOK, Used
      <3>8. MapOK(j)'
        BY <1>1, <1>2, <2>1, <2>3, <3>2, <3>6 DEF CallOK, MapOK, Used
      <3>9. StreamOK(j)'
        BY <3>1, <3>2, <3>3 DEF StreamOK
      <3> QED BY <3>6, <3>7, <3>8, <3>9 DEF CallOK
    <2>4. CASE j \in pending /\ kind[j] = "unary"
      <3>1. /\ m.type # "item" /\ promise'[j] = v
            /\ UNCHANGED <<told, queue, waiters>>
        BY <1>1, <1>3, <1>4, <1>6, <2>4
      <3>2. j \notin pending' /\ j \in asked
        BY <1>2, <1>3, <1>6, <3>1
      <3> QED BY <1>1, <1>2, <1>3, <2>1, <2>4, <3>1, <3>2, UnaryEnds
    <2>5. CASE j \notin pending
      <3>1. UNCHANGED <<promise, told, queue, waiters>> /\ j \notin pending'
            /\ (j \in over' => j \in asked)
        BY <1>1, <1>2, <1>3, <1>4, <1>6, <2>5 DEF CallOK, FreshOK
      <3>2. Events(j)' = Events(j) /\ (HasEnding(j)' <=> HasEnding(j))
        BY <1>2, <3>1 DEF Events, HasEnding
      <3>3. FreshOK(j)' /\ KindOK(j)'
        BY <1>1, <1>2, <2>1, <3>1 DEF CallOK, FreshOK, KindOK, Used
      <3>4. MapOK(j)' /\ StreamOK(j)' /\ Ordered(Events(j))'
        BY <1>1, <1>2, <2>1, <2>5, <3>1, <3>2 DEF CallOK, MapOK, StreamOK, Used
      <3> QED BY <3>3, <3>4 DEF CallOK
    <2> QED BY <1>1, <2>2, <2>3, <2>4, <2>5
  <1> QED BY <1>5, <1>6

-----------------------------------------------------------------------------
(* The invariant holds, and what it says. *)

\* Init establishes the invariant: there is no call.
LEMMA InitOK == Init => IInv
  <1> SUFFICES ASSUME Init PROVE IInv
    OBVIOUS
  <1>1. TypeOK
    <2>1. 1 \in 1..(MaxCalls + 1) /\ 0 \in 0..MaxRecvs /\ 0 \in 0..MaxItems
      BY TsClientAssumption
    <2>2. <<>> \in Seq(Value)
      BY EmptySeq
    <2> QED BY <2>1, <2>2, Values DEF Init, TypeOK
  <1>2. ASSUME NEW i \in Ids PROVE CallOK(i)
    <2>1. Events(i) = <<>>
      <3>1. told[i] = <<>> /\ queue[i] = <<>> /\ <<>> \o <<>> = <<>>
        BY ConcatEmptySeq, EmptySeq DEF Init
      <3> QED BY <3>1 DEF Events
    <2>2. ~(i < 1)
      BY TsClientAssumption
    <2>3. FreshOK(i) /\ KindOK(i)
      BY <2>2, Values DEF Init, FreshOK, KindOK, Used
    <2>4. MapOK(i) /\ StreamOK(i) /\ Ordered(Events(i))
      BY <2>1 DEF Init, MapOK, StreamOK, Ordered, Used
    <2> QED BY <2>3, <2>4 DEF CallOK
  <1> QED BY <1>1, <1>2 DEF IInv

\* Every step keeps the invariant.
LEMMA NextOK == IInv /\ [Next]_vars => IInv'
  <1> SUFFICES ASSUME IInv, [Next]_vars PROVE IInv'
    OBVIOUS
  <1>0. TypeOK /\ \A i \in Ids : CallOK(i)
    BY DEF IInv
  <1>1. CASE RunStart
    <2>1. TypeOK'
      <3>1. CASE Ids = {}
        BY <1>0, <1>1 DEF TypeOK, RunStart, callVars, streamVars, abortVars, peerVars
      <3>2. CASE Ids # {}
        BY <1>0, <1>1, <3>2, CallsTyped
      <3> QED BY <3>1, <3>2
    <2>2. ASSUME NEW j \in Ids PROVE CallOK(j)'
      BY <1>0, <1>1, Untouched
         DEF RunStart, callVars, streamVars, abortVars, peerVars
    <2> QED BY <2>1, <2>2 DEF IInv
  <1>2. CASE RunFail
    <2>1. TypeOK'
      BY <1>0, <1>2, LoopTyped
    <2> QED BY <1>2, <2>1, RunFailKeeps DEF IInv
  <1>3. CASE \E k \in Kinds, s \in {"none", "live"} : Call(k, s)
    <2>1. next_id \in Ids
      BY <1>0, <1>3, TsClientAssumption DEF TypeOK, Call
    <2>2. TypeOK'
      BY <1>0, <1>3, <2>1, CallsTyped
    <2> QED BY <1>3, <2>2, CallKeeps DEF IInv
  <1>4. ASSUME NEW i \in Ids, Sent(i) \/ SendFailed(i) \/ Return(i) \/ Recv(i) \/ Abort(i)
        PROVE  IInv'
    <2>1. TypeOK'
      BY <1>0, <1>4, CallsTyped, AnswersTyped
    <2> QED BY <1>4, <2>1, ProgressKeeps, RecvKeeps, AbortKeeps DEF IInv
  <1>5. ASSUME NEW m \in ServerMsg, Fits(m), HandleMessage(m)
        PROVE  IInv'
    <2>1. waiters[m.id] > 0 => queue[m.id] = <<>>
      BY <1>0 DEF ServerMsg, CallOK, KindOK
    <2>2. TypeOK'
      BY <1>0, <1>5, <2>1, LoopTyped
    <2> QED BY <1>5, <2>2, MessageKeeps DEF IInv
  <1>6. CASE UNCHANGED vars
    <2>1. TypeOK'
      BY <1>0, <1>6 DEF TypeOK, vars
    <2>2. ASSUME NEW j \in Ids PROVE CallOK(j)'
      BY <1>0, <1>6, Untouched DEF vars, CallOK, MapOK
    <2> QED BY <2>1, <2>2 DEF IInv
  <1> QED BY <1>1, <1>2, <1>3, <1>4, <1>5, <1>6 DEF Next

\* The invariant is one of the program.
LEMMA Invariant == Spec => []IInv
  <1> QED BY InitOK, NextOK, PTL DEF Spec

\* The state of the TypeScript client is of the types rpc.ts gives it.
THEOREM Typed == Spec => []TypeOK
  <1>1. IInv => TypeOK
    BY DEF IInv
  <1> QED BY <1>1, Invariant, PTL

\* The calls of recv() of a stream are told the items in order, without a gap
\* and none after an ending: handleMessage, the abort listener and the end of
\* run() may come in any order.
THEOREM ItemsOrdered == Spec => []ItemsInOrder
  <1>1. IInv => ItemsInOrder
    BY DEF IInv, CallOK, Ordered, ItemsInOrder
  <1> QED BY <1>1, Invariant, PTL

\* recv() waits only while nothing is queued for it, and for a stream that is
\* in the map or whose caller was told that it is over.
THEOREM RecvsServed == Spec => []RecvsAreServed
  <1>1. ASSUME IInv, NEW i \in Ids, waiters[i] > 0
        PROVE  queue[i] = <<>> /\ (i \in pending \/ HasEnding(i))
    <2>1. CallOK(i) /\ waiters[i] # 0
      BY <1>1, TsClientAssumption DEF IInv, TypeOK
    <2> QED BY <1>1, <2>1 DEF CallOK, FreshOK, KindOK, MapOK
  <1>2. IInv => RecvsAreServed
    BY <1>1 DEF RecvsAreServed
  <1> QED BY <1>2, Invariant, PTL

\* The last message, the end of run() and an abort all leave the caller of
\* the call an ending.
THEOREM CallsEnd == Spec => []EveryCallEnds
  <1>1. IInv => EveryCallEnds
    BY DEF IInv, EveryCallEnds, CallOK, MapOK, Used
  <1> QED BY <1>1, Invariant, PTL

\* A call that was left an ending is not in the map any more.
THEOREM CallsForgotten == Spec => []CallsAreForgotten
  <1>1. IInv => CallsAreForgotten
    BY DEF IInv, CallsAreForgotten, CallOK, MapOK, TypeOK
  <1> QED BY <1>1, Invariant, PTL
=============================================================================

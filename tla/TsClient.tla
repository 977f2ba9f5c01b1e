------------------------------ MODULE TsClient ------------------------------
(***************************************************************************)
(* PacketClient of runtime-typescript/rpc.ts.                              *)
(*                                                                         *)
(* There is one event loop: a step is what one function does between two   *)
(* awaits, and what may come between are other calls, messages, the end of *)
(* the connection and abort signals, in any order.                         *)
(*                                                                         *)
(* The peer answers requests it was sent, with the messages doc/           *)
(* rpc_transport.md allows for their kind of call.  A rejected promise     *)
(* that nobody awaits yet is not taken for the end of the process.         *)
(***************************************************************************)
EXTENDS Integers, Sequences

CONSTANTS
    MaxCalls,   \* bound: calls made on one connection
    MaxItems,   \* bound: items the peer sends in a stream
    MaxRecvs    \* bound: calls of recv() on one stream

ASSUME TsClientAssumption ==
    MaxCalls \in Nat /\ MaxItems \in Nat /\ MaxRecvs \in Nat

Ids   == 1..MaxCalls
Kinds == {"unary", "stream"}

\* The payload of an item is its number in the stream.
ServerMsg == [type : {"response", "item", "end", "error"}, id : Ids,
              body : 0..MaxItems]

(***************************************************************************)
(* What a call or a recv() settles with: "end" is RpcError.streamClosed,   *)
(* "error" what the peer sent, "down" the error recv() or send() of the    *)
(* transport failed with, "aborted" the caller's own doing.                *)
(***************************************************************************)
Value == [type : {"none", "response", "item", "end", "error", "down",
                  "aborted"},
          body : 0..MaxItems]

Plain(t) == [type |-> t, body |-> 0]
None     == Plain("none")

VARIABLES
    next_id,    \* nextId
    pending,    \* the keys of the pending map
    kind,       \* the type of an entry
    phase,      \* how far callUnary or callStream has got
    promise,    \* what responsePromise of a unary call is settled with
    told,       \* what responsePromise, or the calls of recv(), returned or threw
    queue,      \* queue of a stream
    waiters,    \* the number of waiters of a stream
    signal,     \* the signal a call was given
    listening,  \* the calls whose abort listener was installed in time
    loop,       \* run(); "failed" stands for recvError too
    asked,      \* the ids whose REQUEST was sent
    cancelled,  \* the ids whose CANCEL was sent
    sent,       \* how many items the peer has sent
    over        \* the ids the peer has sent the last message for

callVars   == <<next_id, kind>>
streamVars == <<told, queue, waiters>>
abortVars  == <<signal, listening, cancelled>>
peerVars   == <<sent, over>>
vars == <<next_id, pending, kind, phase, promise, told, queue, waiters, signal,
          listening, loop, asked, cancelled, sent, over>>

TypeOK ==
    /\ next_id \in 1..(MaxCalls + 1)
    /\ pending \in SUBSET Ids
    /\ kind    \in [Ids -> Kinds]
    /\ phase   \in [Ids -> {"unused", "sending", "waiting", "open", "done"}]
    /\ promise \in [Ids -> Value]
    /\ told    \in [Ids -> Seq(Value)]
    /\ queue   \in [Ids -> Seq(Value)]
    /\ waiters \in [Ids -> 0..MaxRecvs]
    /\ signal  \in [Ids -> {"none", "live", "aborted"}]
    /\ listening \in SUBSET Ids
    /\ loop    \in {"new", "running", "failed"}
    /\ asked \in SUBSET Ids /\ cancelled \in SUBSET Ids
    /\ sent    \in [Ids -> 0..MaxItems]
    /\ over    \in SUBSET Ids

Init ==
    /\ next_id = 1
    /\ pending = {}
    /\ kind    = [i \in Ids |-> "unary"]
    /\ phase   = [i \in Ids |-> "unused"]
    /\ promise = [i \in Ids |-> None]
    /\ told    = [i \in Ids |-> <<>>]
    /\ queue   = [i \in Ids |-> <<>>]
    /\ waiters = [i \in Ids |-> 0]
    /\ signal  = [i \in Ids |-> "none"]
    /\ listening = {}
    /\ loop    = "new"
    /\ asked = {} /\ cancelled = {}
    /\ sent    = [i \in Ids |-> 0]
    /\ over    = {}

-----------------------------------------------------------------------------
(***************************************************************************)
(* Callers.                                                                *)
(***************************************************************************)

\* callUnary and callStream up to the await of send.  A signal that is
\* aborted already, and recvError, end the call before it starts.
Call(k, s) ==
    /\ next_id <= MaxCalls /\ loop # "failed"
    /\ next_id' = next_id + 1
    /\ kind'    = [kind EXCEPT ![next_id] = k]
    /\ signal'  = [signal EXCEPT ![next_id] = s]
    /\ pending' = pending \cup {next_id}
    /\ phase'   = [phase EXCEPT ![next_id] = "sending"]
    /\ asked' \in {asked, asked \cup {next_id}}
    /\ UNCHANGED <<promise, streamVars, listening, loop, cancelled, peerVars>>

\* send resolves.  The listener is installed now: one that is installed on
\* an aborted signal is never called.
Sent(i) ==
    /\ phase[i] = "sending" /\ i \in asked
    /\ listening' = IF signal[i] = "live" THEN listening \cup {i} ELSE listening
    /\ phase' = [phase EXCEPT ![i] = IF kind[i] = "unary" THEN "waiting"
                                                        ELSE "open"]
    /\ UNCHANGED <<callVars, pending, promise, streamVars, signal, loop, asked,
                   cancelled, peerVars>>

\* send rejects, and the call throws: nobody gets a receiver.  The peer may
\* have got the request.
SendFailed(i) ==
    /\ phase[i] = "sending"
    /\ pending' = pending \ {i}
    /\ phase' = [phase EXCEPT ![i] = "done"]
    /\ UNCHANGED <<callVars, promise, streamVars, abortVars, loop, asked,
                   peerVars>>

\* The await of responsePromise: callUnary returns.
Return(i) ==
    /\ phase[i] = "waiting" /\ promise[i] # None
    /\ phase' = [phase EXCEPT ![i] = "done"]
    /\ told' = [told EXCEPT ![i] = Append(@, promise[i])]
    /\ UNCHANGED <<callVars, pending, promise, queue, waiters, abortVars, loop,
                   asked, peerVars>>

\* recv() of a StreamReceiver: nothing keeps a caller from calling it again
\* while one call waits, or after the stream is over.
Recv(i) ==
    /\ phase[i] = "open" /\ Len(told[i]) + waiters[i] < MaxRecvs
    /\ \/ /\ queue[i] # <<>>
          /\ told' = [told EXCEPT ![i] = Append(@, Head(queue[i]))]
          /\ queue' = [queue EXCEPT ![i] = Tail(@)]
          /\ UNCHANGED waiters
       \/ /\ queue[i] = <<>>
          /\ waiters' = [waiters EXCEPT ![i] = @ + 1]
          /\ UNCHANGED <<told, queue>>
    /\ UNCHANGED <<callVars, pending, phase, promise, abortVars, loop, asked,
                   peerVars>>

\* Mutant of WakeAll: nothing is queued for the calls of recv() to come.
WakeWaiters(S, v) ==
    /\ told' = [i \in Ids |-> IF i \in S
                    THEN told[i] \o [n \in 1..waiters[i] |-> v] ELSE told[i]]
    /\ waiters' = [i \in Ids |-> IF i \in S THEN 0 ELSE waiters[i]]
    /\ UNCHANGED queue

\* Every waiter of the streams S gets the event v, and so does the next call
\* of recv().
WakeAll(S, v) ==
    /\ told' = [i \in Ids |-> IF i \in S
                    THEN told[i] \o [n \in 1..waiters[i] |-> v] ELSE told[i]]
    /\ waiters' = [i \in Ids |-> IF i \in S THEN 0 ELSE waiters[i]]
    /\ queue' = [i \in Ids |-> IF i \in S THEN Append(queue[i], v)
                                          ELSE queue[i]]

\* Mutant of Abort: a stream stays in the map.
AbortListed(i) ==
    /\ signal[i] = "live" /\ phase[i] # "done"
    /\ signal' = [signal EXCEPT ![i] = "aborted"]
    /\ \/ /\ i \in listening /\ kind[i] = "stream"
          /\ WakeAll({i}, Plain("aborted"))
          /\ cancelled' \in {cancelled, cancelled \cup {i}}
          /\ UNCHANGED <<pending, promise>>
       \/ /\ i \in listening /\ kind[i] = "unary" /\ i \in pending
          /\ pending' = pending \ {i}
          /\ promise' = [promise EXCEPT ![i] = Plain("aborted")]
          /\ cancelled' \in {cancelled, cancelled \cup {i}}
          /\ UNCHANGED streamVars
       \/ /\ i \notin listening \/ (kind[i] = "unary" /\ i \notin pending)
          /\ UNCHANGED <<pending, promise, streamVars, cancelled>>
    /\ UNCHANGED <<callVars, phase, listening, loop, asked, peerVars>>

\* The application aborts the signal of a call: the listener of a stream does
\* not ask whether the stream is over.  sendCancel may fail, unnoticed.
Abort(i) ==
    /\ signal[i] = "live" /\ phase[i] # "done"
    /\ signal' = [signal EXCEPT ![i] = "aborted"]
    /\ \/ /\ i \in listening /\ kind[i] = "stream"
          /\ pending' = pending \ {i}
          /\ WakeAll({i}, Plain("aborted"))
          /\ cancelled' \in {cancelled, cancelled \cup {i}}
          /\ UNCHANGED promise
       \/ /\ i \in listening /\ kind[i] = "unary" /\ i \in pending
          /\ pending' = pending \ {i}
          /\ promise' = [promise EXCEPT ![i] = Plain("aborted")]
          /\ cancelled' \in {cancelled, cancelled \cup {i}}
          /\ UNCHANGED streamVars
       \/ /\ i \notin listening \/ (kind[i] = "unary" /\ i \notin pending)
          /\ UNCHANGED <<pending, promise, streamVars, cancelled>>
    /\ UNCHANGED <<callVars, phase, listening, loop, asked, peerVars>>

-----------------------------------------------------------------------------
(***************************************************************************)
(* run().                                                                  *)
(***************************************************************************)
RunStart ==
    /\ loop = "new"
    /\ loop' = "running"
    /\ UNCHANGED <<callVars, pending, phase, promise, streamVars, abortVars,
                   asked, peerVars>>

\* Mutant of Push: a call of recv() that waits is not served.
PushToQueue(i, v) ==
    /\ queue' = [queue EXCEPT ![i] = Append(@, v)]
    /\ UNCHANGED <<told, waiters>>

\* An event goes to the first waiter, else into the queue.
Push(i, v) ==
    \/ /\ waiters[i] > 0
       /\ told' = [told EXCEPT ![i] = Append(@, v)]
       /\ waiters' = [waiters EXCEPT ![i] = @ - 1]
       /\ UNCHANGED queue
    \/ /\ waiters[i] = 0
       /\ queue' = [queue EXCEPT ![i] = Append(@, v)]
       /\ UNCHANGED <<told, waiters>>

\* The messages a peer may send next.
Fits(m) ==
    /\ m.id \in asked \ over
    /\ m.type \in IF kind[m.id] = "unary" THEN {"response", "error"}
                                          ELSE {"item", "end", "error"}
    /\ m.body = IF m.type = "item" THEN sent[m.id] + 1 ELSE 0

\* Mutant of HandleMessage: STREAM_END and ERROR leave the entry in the map.
HandleListed(m) ==
    LET i == m.id  v == [type |-> m.type, body |-> m.body] IN
    /\ loop = "running"
    /\ over' = IF m.type = "item" THEN over ELSE over \cup {i}
    /\ sent' = [sent EXCEPT ![i] = IF m.type = "item" THEN m.body ELSE @]
    /\ \/ /\ i \in pending /\ kind[i] = "unary"
          /\ promise' = [promise EXCEPT ![i] = v]
          /\ UNCHANGED streamVars
       \/ /\ i \in pending /\ kind[i] = "stream"
          /\ Push(i, v)
          /\ UNCHANGED promise
       \/ /\ i \notin pending
          /\ UNCHANGED <<promise, streamVars>>
    /\ UNCHANGED <<callVars, pending, phase, abortVars, loop, asked>>

\* handleMessage: a message for an id that is not in the map is ignored.
HandleMessage(m) ==
    LET i == m.id  v == [type |-> m.type, body |-> m.body] IN
    /\ loop = "running"
    /\ over' = IF m.type = "item" THEN over ELSE over \cup {i}
    /\ sent' = [sent EXCEPT ![i] = IF m.type = "item" THEN m.body ELSE @]
    /\ pending' = IF m.type = "item" THEN pending ELSE pending \ {i}
    /\ \/ /\ i \in pending /\ kind[i] = "unary"
          /\ promise' = [promise EXCEPT ![i] = v]
          /\ UNCHANGED streamVars
       \/ /\ i \in pending /\ kind[i] = "stream"
          /\ Push(i, v)
          /\ UNCHANGED promise
       \/ /\ i \notin pending
          /\ UNCHANGED <<promise, streamVars>>
    /\ UNCHANGED <<callVars, phase, abortVars, loop, asked>>

\* recv() of the transport rejects: recvError is set, every registered call
\* is told, and run() throws.
RunFail ==
    /\ loop = "running"
    /\ loop' = "failed"
    /\ pending' = {}
    /\ promise' = [i \in Ids |-> IF i \in pending /\ kind[i] = "unary"
                                   THEN Plain("down") ELSE promise[i]]
    /\ WakeAll({i \in pending : kind[i] = "stream"}, Plain("down"))
    /\ UNCHANGED <<callVars, phase, abortVars, asked, peerVars>>

-----------------------------------------------------------------------------
Next ==
    \/ RunStart \/ RunFail
    \/ \E k \in Kinds, s \in {"none", "live"} : Call(k, s)
    \/ \E i \in Ids : Sent(i) \/ SendFailed(i) \/ Return(i) \/ Recv(i) \/ Abort(i)
    \/ \E m \in ServerMsg : Fits(m) /\ HandleMessage(m)

Spec == Init /\ [][Next]_vars

-----------------------------------------------------------------------------
(***************************************************************************)
(* Properties.                                                             *)
(***************************************************************************)
Ending(v) == v.type # "item"

\* All that a stream's calls of recv() were told and will be told.
Events(i) == told[i] \o queue[i]

HasEnding(i) ==
    \/ phase[i] = "done" \/ promise[i] # None
    \/ \E n \in DOMAIN Events(i) : Ending(Events(i)[n])

\* Calls of recv() are told the items in order and without a gap, whether
\* they waited or found them in the queue, and no item after an ending,
\* whoever ended the stream: the peer, the connection or an abort.
ItemsInOrder ==
    \A i \in Ids : LET e == Events(i) IN
        \A n \in DOMAIN e : ~Ending(e[n]) =>
            e[n].body = n /\ \A k \in 1..n : ~Ending(e[k])

\* recv() waits for events that can still come: while nothing is queued, and
\* the stream is in the map or another recv() was told that it is over.
RecvsAreServed ==
    \A i \in Ids : waiters[i] > 0 =>
        /\ queue[i] = <<>>
        /\ i \in pending \/ HasEnding(i)

\* A call that can get no more messages is over for its caller as well: the
\* last message, the end of run() and an abort all leave an ending where the
\* caller, now in send, in recv() or elsewhere, finds it.
EveryCallEnds ==
    \A i \in Ids :
        /\ phase[i] # "unused"
        /\ \/ i \in over
           \/ loop = "failed"
           \/ i \in listening /\ signal[i] = "aborted"
        => HasEnding(i)

\* The map holds calls in progress only.
CallsAreForgotten == \A i \in pending : ~HasEnding(i)
=============================================================================

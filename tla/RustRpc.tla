------------------------------- MODULE RustRpc -------------------------------
(***************************************************************************)
(* A PacketClient and a PacketServer joined by a reliable FIFO connection  *)
(* (TCP, WebSocket).  Each end may leave run() at any time; what was       *)
(* written and not read by then may be lost with the connection.           *)
(*                                                                         *)
(* c2s and s2c keep every packet written; c_read and s_read say how much   *)
(* of them the other end has read.  made and got are history variables:    *)
(* they record what service methods produced and what callers were told.   *)
(***************************************************************************)
EXTENDS Naturals, Sequences

CONSTANTS
    MaxItems, TxCap, StreamCap, OutCap, ItemCap,  \* see RustClient, RustServer
    Script,  \* bound: the calls the application makes, a sequence of kinds
    FaultSets \* bound: what may happen besides, in a run: sets of "drop" (of
              \* calls by the application), "client", "server" (leaves run())

ASSUME RpcAssumption ==
    /\ MaxItems \in Nat
    /\ {TxCap, StreamCap, OutCap, ItemCap} \subseteq Nat \ {0}
    /\ Script \in Seq({"unary", "stream"})
    /\ FaultSets \subseteq SUBSET {"drop", "client", "server"}

MaxCalls == Len(Script)

VARIABLES next_id, pending, kind, phase, result, resp, events, cancel, run,
          rx, tx, c2s
VARIABLES cancel_txs, signal, method, handler, reply, items, sq, fwd, held,
          refusal, outq, srv, s2c
VARIABLES c_read, s_read, made, got
VARIABLE faults   \* the set of this run

C == INSTANCE RustClient WITH Bodies <- 1..MaxItems, NoBody <- 0
S == INSTANCE RustServer

Calls == 1..MaxCalls

cvars == <<next_id, pending, kind, phase, result, resp, events, cancel, run,
           rx, tx, c2s>>
svars == <<cancel_txs, signal, method, handler, reply, items, sq, fwd, held,
           refusal, outq, srv, s2c>>
vars  == <<cvars, svars, c_read, s_read, made, got, faults>>

TypeOK ==
    /\ C!TypeOK /\ S!TypeOK
    /\ c_read \in 0..Len(c2s) /\ s_read \in 0..Len(s2c)
    /\ made \in [Calls -> Seq(C!Value)] /\ got \in [Calls -> Seq(C!Value)]
    /\ faults \in FaultSets

Init ==
    /\ C!Init /\ S!Init
    /\ c_read = 0 /\ s_read = 0
    /\ made = [i \in Calls |-> <<>>]
    /\ got  = [i \in Calls |-> <<>>]
    /\ faults \in FaultSets

-----------------------------------------------------------------------------
(***************************************************************************)
(* What a step of the server makes call i's service method produce, and    *)
(* what a step of the client tells call i's caller.                        *)
(***************************************************************************)
Produced(i) ==
    IF items'[i] # items[i] THEN <<[type |-> "item", body |-> items'[i]]>>
    ELSE IF handler'[i] = handler[i] THEN <<>>
    ELSE CASE handler'[i] \in {"refused", "failing"} -> <<C!Plain("error")>>
           [] handler'[i] = "replying" -> <<C!Event(reply'[i][1])>>
           [] handler[i] = "streaming" /\ handler'[i] = "done" ->
                  <<C!Plain("end")>>
           [] OTHER -> <<>>

\* After its ending a stream says "closed" for ever: not news.
Ended(i) == got[i] # <<>> /\ got[i][Len(got[i])].type # "item"

Told(i) ==
    IF result'[i] = result[i] \/ (Ended(i) /\ result'[i] = C!Closed)
      THEN <<>> ELSE <<result'[i]>>

ServerStep(A) ==
    /\ A
    /\ made' = [i \in Calls |-> made[i] \o Produced(i)]
    /\ UNCHANGED <<cvars, s_read, got, faults>>

ClientStep(A) ==
    /\ A
    /\ got' = [i \in Calls |-> got[i] \o Told(i)]
    /\ UNCHANGED <<svars, c_read, made, faults>>

-----------------------------------------------------------------------------
\* The server reads a packet.
ServerRead ==
    /\ c_read < Len(c2s)
    /\ c_read' = c_read + 1
    /\ LET p == c2s[c_read + 1] IN
         \/ p.type = "request" /\ ServerStep(S!RecvRequest(p.id, p.kind))
         \/ p.type = "cancel"  /\ ServerStep(S!RecvCancel(p.id))

\* The client reads a message.
ClientRead ==
    /\ s_read < Len(s2c)
    /\ s_read' = s_read + 1
    /\ ClientStep(C!Receive(s2c[s_read + 1]))

ClientCall ==
    /\ next_id <= MaxCalls
    /\ \/ Script[next_id] = "unary"  /\ ClientStep(C!CallUnary)
       \/ Script[next_id] = "stream" /\ ClientStep(C!CallStream)
    /\ UNCHANGED s_read

ClientTask == ClientStep(\E i \in Calls : C!Caller(i)) /\ UNCHANGED s_read
ClientDrop == ClientStep(\E i \in Calls : C!Abandon(i)) /\ UNCHANGED s_read
ClientRun  == ClientStep(C!Loops) /\ UNCHANGED s_read
ClientExit == ClientStep(C!RunExit) /\ UNCHANGED s_read
ServerTask == ServerStep(\E i \in Calls : S!Task(i)) /\ UNCHANGED c_read
ServerRun  == ServerStep(S!Loops) /\ UNCHANGED c_read
ServerExit == ServerStep(S!Exit) /\ UNCHANGED c_read

Next ==
    \/ ServerRead \/ ServerTask \/ ServerRun
    \/ ClientRead \/ ClientTask \/ ClientRun \/ ClientCall
    \/ "drop"   \in faults /\ ClientDrop
    \/ "client" \in faults /\ ClientExit
    \/ "server" \in faults /\ ServerExit

Spec == Init /\ [][Next]_vars

(***************************************************************************)
(* Futures that can move are polled, connections carry what is written,    *)
(* and the application keeps reading its streams.                          *)
(***************************************************************************)
Fairness ==
    /\ WF_vars(ClientRead) /\ WF_vars(ClientRun)
    /\ WF_vars(ServerRead) /\ WF_vars(ServerRun)
    /\ \A i \in Calls :
         /\ WF_vars(ClientStep(C!UnaryResult(i) \/ C!StreamRecv(i))
                    /\ UNCHANGED s_read)
         /\ WF_vars(ServerStep(S!CancelHandler(i)) /\ UNCHANGED c_read)

FairSpec == Spec /\ Fairness

-----------------------------------------------------------------------------
Contract == INSTANCE CallContract
    WITH Outcomes <- {o \in C!Value : o.type \in {"ok", "item", "end", "error"}},
         Closed <- C!Closed, Down <- C!Down, up <- (run # "exited")

\* Callers get what the service methods of their calls produced, as
\* CallContract says, through the queues, the cancellations and the exits
\* of both ends.
ImplementsContract == Contract!Spec

\* An answered unary call completes although streams share its connection
\* and hold up its receive loop, as long as the application reads them.
AnswersArrive ==
    \A i \in Calls :
        (phase[i] = "waiting" /\ \E n \in DOMAIN s2c : s2c[n].id = i)
            ~> (phase[i] # "waiting" \/ run = "exited")

\* Once a CANCEL is written, the handler of the call stops: the CANCEL
\* finds its call in the server's map, or the handler has ended.
CancelReachesHandler ==
    \A i \in Calls :
        (\E n \in DOMAIN c2s : c2s[n] = C!Cancel(i))
            ~> (handler[i] \notin S!Live \/ srv # "running")
=============================================================================

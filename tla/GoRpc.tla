------------------------------- MODULE GoRpc -------------------------------
(***************************************************************************)
(* A Go PacketClient and a Go PacketServer joined by a reliable FIFO       *)
(* connection.  Either end may leave Run at any time.  Contexts are left   *)
(* to GoClient and GoServer: here streams are given up by Cancel.          *)
(*                                                                         *)
(* c2s and s2c keep every packet written; c_read and s_read say how much   *)
(* of them the other end has read.  made and got record what service       *)
(* methods produced and what callers were told.                            *)
(***************************************************************************)
EXTENDS Naturals, Sequences

CONSTANTS
    MaxItems, StreamCap,  \* see GoClient, GoServer
    Script,  \* bound: the calls the application makes, a sequence of kinds
    Faults   \* bound: what happens besides, among "drop" (of streams by
             \* the application), "client" and "server" (that end leaves Run)

\* No item is dropped for want of room: a stream's channel holds all of it.
ASSUME GoRpcAssumption ==
    /\ Script \in Seq({"unary", "stream"})
    /\ Faults \subseteq {"drop", "client", "server"}
    /\ MaxItems \in Nat /\ StreamCap \in Nat /\ MaxItems < StreamCap

MaxCalls == Len(Script)

VARIABLES next_id, entering, pending, kind, phase, ctx, result, stopped, resp,
          errc, events, recvErr, loop, hand, asked, given_up, over
VARIABLES activeCalls, runCtx, callCtx, method, handler, reply, items, srv,
          refusing, s2c
VARIABLES c2s, c_read, s_read, made, got

C == INSTANCE GoClient
S == INSTANCE GoServer

Calls == 1..MaxCalls

cvars == <<next_id, entering, pending, kind, phase, ctx, result, stopped,
           resp, errc, events, recvErr, loop, hand, asked, given_up, over>>
svars == <<activeCalls, runCtx, callCtx, method, handler, reply, items, srv,
           refusing, s2c>>
vars  == <<cvars, svars, c2s, c_read, s_read, made, got>>

Outcomes == [type : {"ok", "item", "end", "error"}, body : 0..MaxItems]

TypeOK ==
    /\ C!TypeOK /\ S!TypeOK
    /\ c2s \in Seq([type : {"request", "cancel"}, id : Calls])
    /\ c_read \in 0..Len(c2s) /\ s_read \in 0..Len(s2c)
    /\ made \in [Calls -> Seq(Outcomes)] /\ got \in [Calls -> Seq(C!Value)]

Init ==
    /\ C!Init /\ S!Init
    /\ c2s = <<>> /\ c_read = 0 /\ s_read = 0
    /\ made = [i \in Calls |-> <<>>]
    /\ got  = [i \in Calls |-> <<>>]

-----------------------------------------------------------------------------
\* What a step of the server makes call i's service method produce, and what
\* a step of the client tells call i's caller.  The error of a context is the
\* caller's own doing.
Produced(i) ==
    IF items'[i] # items[i] THEN <<[type |-> "item", body |-> items'[i]]>>
    ELSE IF handler'[i] = "replying" /\ handler[i] # "replying"
      THEN <<C!Plain(IF reply'[i] = "response" THEN "ok" ELSE reply'[i])>>
      ELSE <<>>

Told(i) ==
    IF result'[i] = result[i] \/ result'[i].type = "ctx"
      THEN <<>> ELSE <<result'[i]>>

\* What a step of the client writes.
Wrote ==
    LET new == {[type |-> "request", id |-> i] : i \in asked' \ asked} \cup
               {[type |-> "cancel", id |-> i] : i \in given_up' \ given_up}
    IN  IF new = {} THEN UNCHANGED c2s
                    ELSE \E p \in new : c2s' = Append(c2s, p)

ServerStep(A) ==
    /\ A
    /\ made' = [i \in Calls |-> made[i] \o Produced(i)]
    /\ UNCHANGED <<cvars, c2s, s_read, got>>

ClientStep(A) ==
    /\ A
    /\ Wrote
    /\ got' = [i \in Calls |-> got[i] \o Told(i)]
    /\ UNCHANGED <<svars, c_read, made>>

-----------------------------------------------------------------------------
\* The server reads a packet.
ServerRead ==
    /\ c_read < Len(c2s)
    /\ c_read' = c_read + 1
    /\ LET p == c2s[c_read + 1] IN
         \/ p.type = "request" /\ ServerStep(S!RecvRequest(p.id, kind[p.id]))
         \/ p.type = "cancel"  /\ ServerStep(S!RecvCancel(p.id))

\* The client reads a message.
ClientRead ==
    /\ s_read < Len(s2c)
    /\ s_read' = s_read + 1
    /\ ClientStep(C!Receive(s2c[s_read + 1]))

\* Calls that are made at once may take their ids in any order.
ClientCall ==
    /\ \/ /\ Script # <<>> /\ next_id + entering["unary"] + entering["stream"]
                               <= MaxCalls
          /\ ClientStep(C!CheckErr(Script[next_id + entering["unary"]
                                            + entering["stream"]]))
       \/ \E k \in C!Kinds : ClientStep(C!Register(k))
    /\ UNCHANGED s_read

ClientTask == ClientStep(\E i \in Calls : C!Caller(i)) /\ UNCHANGED s_read
ClientDrop == ClientStep(\E i \in Calls : C!CancelStream(i)) /\ UNCHANGED s_read
ClientRun  == ClientStep(C!Run) /\ UNCHANGED s_read
ClientFail == ClientStep(C!Fail) /\ UNCHANGED s_read
ServerTask == ServerStep(\E i \in Calls : S!Task(i)) /\ UNCHANGED c_read
ServerExit == ServerStep(S!Exit) /\ UNCHANGED c_read

Next ==
    \/ ServerRead \/ ServerTask
    \/ ClientRead \/ ClientTask \/ ClientRun \/ ClientCall
    \/ "drop"   \in Faults /\ ClientDrop
    \/ "client" \in Faults /\ ClientFail
    \/ "server" \in Faults /\ ServerExit

Spec == Init /\ [][Next]_vars

-----------------------------------------------------------------------------
\* The connection is up, as far as the client knows, until Recv or a Send
\* has failed.
Contract == INSTANCE CallContract
    WITH Closed <- C!Closed, Down <- C!Down,
         up <- ~recvErr /\ \A i \in Calls : phase[i] # "failed"
                                            /\ result[i] # C!Down

\* Callers get what the service methods of their calls produced, as
\* CallContract says, if no stream overflows its channel: the separate
\* critical sections of callers and loop neither mix up, reorder, repeat nor
\* lose outcomes.
ImplementsContract == Contract!Spec

=============================================================================

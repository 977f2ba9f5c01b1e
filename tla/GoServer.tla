------------------------------ MODULE GoServer ------------------------------
(***************************************************************************)
(* PacketServer of runtime-go/rpc.go, with the HandleCall that             *)
(* volexc/src/codegen_go.rs generates.                                     *)
(*                                                                         *)
(* A step is one critical section or one Send of the transport, whose      *)
(* writeMu makes messages whole.  Each call has a goroutine of its own and *)
(* a context derived from that of Run.                                     *)
(*                                                                         *)
(* The peer may send CANCEL for any call at any time, and REQUEST once per *)
(* call id.  A service method is the application's code: it takes any      *)
(* time, sends any items, returns or fails at will, heeds its context or   *)
(* not, and does not panic.                                                *)
(***************************************************************************)
EXTENDS Naturals, Sequences

CONSTANTS
    MaxCalls,   \* bound: calls made on one connection
    MaxItems    \* bound: items one handler sends

ASSUME GoServerAssumption == MaxCalls \in Nat /\ MaxItems \in Nat

Calls == 1..MaxCalls
Kinds == {"unary", "stream"}

Msg == [type : {"response", "item", "end", "error"}, id : Calls,
        body : 0..MaxItems]

M(t, i, b) == [type |-> t, id |-> i, body |-> b]

VARIABLES
    activeCalls,  \* the keys of activeCalls
    runCtx,       \* the context Run was called with
    callCtx,      \* the contexts of the calls
    method,       \* the kind of method a call names
    handler,      \* how far a call's goroutine has got
    reply,        \* the type of the last message a goroutine sends
    items,        \* how many items a service method has sent
    srv,          \* how far the goroutine of Run has got
    refusing,     \* the call whose REQUEST Run is refusing, or 0
    s2c           \* what was written to the connection

vars == <<activeCalls, runCtx, callCtx, method, handler, reply, items, srv,
          refusing, s2c>>

TypeOK ==
    /\ activeCalls \in SUBSET Calls
    /\ runCtx   \in {"live", "done"}
    /\ callCtx  \in [Calls -> {"none", "live", "done"}]
    /\ method   \in [Calls -> Kinds]
    /\ handler  \in [Calls -> {"none", "refused", "spawned", "working",
                       "streaming", "replying", "done"}]
    /\ reply    \in [Calls -> {"none", "response", "error", "end"}]
    /\ items    \in [Calls -> 0..MaxItems]
    /\ srv      \in {"running", "exited"}
    /\ refusing \in 0..MaxCalls
    /\ s2c      \in Seq(Msg)

Init ==
    /\ activeCalls = {}
    /\ runCtx   = "live"
    /\ callCtx  = [i \in Calls |-> "none"]
    /\ method   = [i \in Calls |-> "unary"]
    /\ handler  = [i \in Calls |-> "none"]
    /\ reply    = [i \in Calls |-> "none"]
    /\ items    = [i \in Calls |-> 0]
    /\ srv      = "running"
    /\ refusing = 0
    /\ s2c      = <<>>

-----------------------------------------------------------------------------
(***************************************************************************)
(* Run.                                                                    *)
(***************************************************************************)
Receiving == srv = "running" /\ refusing = 0

\* A REQUEST whose method index does not decode.
RecvBadRequest(i) ==
    /\ Receiving /\ handler[i] = "none"
    /\ handler' = [handler EXCEPT ![i] = "refused"]
    /\ refusing' = i
    /\ UNCHANGED <<activeCalls, runCtx, callCtx, method, reply, items, srv,
                   s2c>>

\* Send may fail; its error is ignored.
SendRefusal ==
    /\ refusing # 0
    /\ s2c' \in {s2c, Append(s2c, M("error", refusing, 0))}
    /\ refusing' = 0
    /\ UNCHANGED <<activeCalls, runCtx, callCtx, method, handler, reply, items,
                   srv>>

\* Mutant of RecvRequest: the call's context is not derived from that of Run.
RecvRequestDetached(i, k) ==
    /\ Receiving /\ handler[i] = "none"
    /\ activeCalls' = activeCalls \cup {i}
    /\ callCtx' = [callCtx EXCEPT ![i] = "live"]
    /\ method'  = [method EXCEPT ![i] = k]
    /\ handler' = [handler EXCEPT ![i] = "spawned"]
    /\ UNCHANGED <<runCtx, reply, items, srv, refusing, s2c>>

RecvRequest(i, k) ==
    /\ Receiving /\ handler[i] = "none"
    /\ activeCalls' = activeCalls \cup {i}
    /\ callCtx' = [callCtx EXCEPT ![i] = runCtx]
    /\ method'  = [method EXCEPT ![i] = k]
    /\ handler' = [handler EXCEPT ![i] = "spawned"]
    /\ UNCHANGED <<runCtx, reply, items, srv, refusing, s2c>>

RecvCancel(i) ==
    /\ Receiving
    /\ \/ /\ i \in activeCalls
          /\ activeCalls' = activeCalls \ {i}
          /\ callCtx' = [callCtx EXCEPT ![i] = "done"]
       \/ /\ i \notin activeCalls
          /\ UNCHANGED <<activeCalls, callCtx>>
    /\ UNCHANGED <<runCtx, method, handler, reply, items, srv, refusing, s2c>>

\* The application cancels the context of Run, and with it those of all calls.
RunCtxDone ==
    /\ runCtx = "live"
    /\ runCtx' = "done"
    /\ callCtx' = [i \in Calls |-> IF callCtx[i] = "live" THEN "done"
                                                          ELSE callCtx[i]]
    /\ UNCHANGED <<activeCalls, method, handler, reply, items, srv, refusing,
                   s2c>>

\* Recv failed, or the context is done: Run returns.
Exit ==
    /\ Receiving
    /\ srv' = "exited"
    /\ UNCHANGED <<activeCalls, runCtx, callCtx, method, handler, reply, items,
                   refusing, s2c>>

-----------------------------------------------------------------------------
(***************************************************************************)
(* Calls.                                                                  *)
(***************************************************************************)

\* HandleCall: an unknown method and a request that does not decode are
\* answered with an error, else the service method starts.
StartHandler(i) ==
    /\ handler[i] = "spawned"
    /\ \/ /\ handler' = [handler EXCEPT ![i] = "replying"]
          /\ reply' = [reply EXCEPT ![i] = "error"]
       \/ /\ handler' = [handler EXCEPT ![i] =
                            IF method[i] = "unary" THEN "working"
                                                   ELSE "streaming"]
          /\ UNCHANGED reply
    /\ UNCHANGED <<activeCalls, runCtx, callCtx, method, items, srv, refusing,
                   s2c>>

\* A service method returns, with or without an error.
Return(i) ==
    /\ handler[i] \in {"working", "streaming"}
    /\ \E t \in {"error", IF handler[i] = "working" THEN "response" ELSE "end"} :
           reply' = [reply EXCEPT ![i] = t]
    /\ handler' = [handler EXCEPT ![i] = "replying"]
    /\ UNCHANGED <<activeCalls, runCtx, callCtx, method, items, srv, refusing,
                   s2c>>

\* Mutant of SendReply: a streaming method that failed also ends its stream.
SendReplyAndEnd(i) ==
    /\ handler[i] = "replying"
    /\ s2c' = IF method[i] = "stream" /\ reply[i] = "error"
                THEN s2c \o <<M("end", i, 0), M("error", i, 0)>>
                ELSE Append(s2c, M(reply[i], i, 0))
    /\ handler' = [handler EXCEPT ![i] = "done"]
    /\ UNCHANGED <<activeCalls, runCtx, callCtx, method, reply, items, srv,
                   refusing>>

\* Send of the last message returns; HandleCall ignores its error.
SendReply(i) ==
    /\ handler[i] = "replying"
    /\ s2c' \in {s2c, Append(s2c, M(reply[i], i, 0))}
    /\ handler' = [handler EXCEPT ![i] = "done"]
    /\ UNCHANGED <<activeCalls, runCtx, callCtx, method, reply, items, srv,
                   refusing>>

\* The Send of a stream; a failure is the service method's business.
SendItem(i) ==
    /\ handler[i] = "streaming" /\ items[i] < MaxItems
    /\ items' = [items EXCEPT ![i] = @ + 1]
    /\ s2c' = Append(s2c, M("item", i, items[i] + 1))
    /\ UNCHANGED <<activeCalls, runCtx, callCtx, method, handler, reply, srv,
                   refusing>>

-----------------------------------------------------------------------------
Task(i) == StartHandler(i) \/ Return(i) \/ SendReply(i) \/ SendItem(i)

Peer == \E i \in Calls :
    RecvBadRequest(i) \/ RecvCancel(i) \/ \E k \in Kinds : RecvRequest(i, k)

Next ==
    \/ Peer \/ SendRefusal \/ RunCtxDone \/ Exit
    \/ \E i \in Calls : Task(i)

Spec == Init /\ [][Next]_vars

-----------------------------------------------------------------------------
(***************************************************************************)
(* Properties.                                                             *)
(***************************************************************************)

\* What is written for a call is one reply, or the items of a stream in
\* order and at most one ending, in whatever order Run and the goroutines of
\* calls get hold of the transport.
CallsEndOnce ==
    \A n \in DOMAIN s2c : \A k \in 1..(n - 1) : s2c[k].id = s2c[n].id =>
        /\ s2c[k].type = "item"
        /\ s2c[n].type = "item" => s2c[k].body < s2c[n].body

\* A call whose context is live can still be cancelled: by the context of Run,
\* because that one is live too, and, as long as Run receives, by CANCEL,
\* because the call is listed.  Once Run has returned nobody reads CANCEL, and
\* Run leaves the contexts of its calls live (rpc.go:498), although
\* doc/rpc_transport.md:235 promises implicit cancellation when a connection
\* is closed: of such a call only the first is said.
LiveCallsCanBeCancelled ==
    \A i \in Calls : callCtx[i] = "live" =>
        /\ runCtx = "live"
        /\ srv = "running" => i \in activeCalls
=============================================================================

---------------------------- MODULE RustHttpServer ----------------------------
(***************************************************************************)
(* HttpServer of runtime-rust/src/rpc.rs: handle_request, StreamBody and   *)
(* the generated handle_call between them.  Hyper polls the future of      *)
(* handle_request, then the body of its response, and drops them when the  *)
(* client disconnects; nothing else polls the service method, which makes  *)
(* no progress while the client does not take what is written.             *)
(*                                                                         *)
(* A request that is no POST, or is cut short, is refused before there is  *)
(* a call; the clients here make none.                                     *)
(***************************************************************************)
EXTENDS HttpCall

CONSTANT SqCap   \* capacity of a stream's channel: 16

ASSUME SqAssumption == SqCap \in Nat \ {0}

VARIABLES
    handler,      \* how far the future of handle_call is
    response_tx,  \* what it sent on the oneshot channel of the response
    stream_q,     \* messages in the channel of the stream
    stream_body   \* whether hyper has a StreamBody: "none", "open", "ended"

rustServerVars == <<handler, response_tx, stream_q, stream_body>>

RustServerInit ==
    /\ handler = "none" /\ response_tx = ""
    /\ stream_q = <<>> /\ stream_body = "none"

\* Those whose StreamSender is there, and those that still run.
Holding == {"streaming", "failing"}
Running == Holding \cup {"working", "detached"}

RustServerTypeOK ==
    /\ handler \in Running \cup {"none", "done", "dropped"}
    /\ response_tx \in {"", "stream", "unary", "error"}
    /\ stream_body \in {"none", "open", "ended"}
    /\ Len(stream_q) <= SqCap
    /\ handler \in Holding \cup {"detached"} => kind = "stream"

Refuse == \E c \in {ERR_CODE_UNKNOWN_METHOD, ERR_CODE_DECODE_ERROR} :
              /\ made' = <<Value("error", c)>>
              /\ handler' = "done" /\ response_tx' = "error"

\* handle_request, up to the first await of the service method.
HandleRequest ==
    /\ conn = "up" /\ handler = "none"
    /\ \/ Refuse
       \/ /\ kind = "unary" /\ handler' = "working"
          /\ UNCHANGED <<response_tx, made>>
       \/ /\ kind = "stream" /\ handler' = "streaming"
          /\ response_tx' = "stream"       \* into_stream_sender
          /\ UNCHANGED made
    /\ UNCHANGED <<callVars, wireVars, got, stream_q, stream_body>>

ReturnUnary ==
    /\ handler = "working"
    /\ handler' = "done"
    /\ \/ made' = <<Value("response", 0)>> /\ response_tx' = "unary"
       \/ made' = <<Value("error", ERR_CODE_HANDLER_ERROR)>> /\ response_tx' = "error"
    /\ UNCHANGED <<callVars, wireVars, got, stream_q, stream_body>>

\* handle_request returns the response that was sent to it.
Respond ==
    /\ response_tx # "" /\ conn = "up"
    /\ response_tx' = ""
    /\ CASE response_tx = "unary" -> Reply(200, "rpc", Payload2) /\ UNCHANGED stream_body
         [] response_tx = "error" -> ReplyError(made[1].body) /\ UNCHANGED stream_body
         [] response_tx = "stream" ->
              /\ head' = [status |-> 200, type |-> "rpc-stream"]
              /\ stream_body' = "open"
              /\ UNCHANGED <<body, complete>>
    /\ UNCHANGED <<callVars, conn, made, got, handler, stream_q>>

\* Hyper polls the body only while it can write.
Polled == handler # "dropped" /\ (stream_body = "none" \/ Len(body) < WireCap)

SendItem ==
    /\ handler = "streaming" /\ Polled
    /\ Len(made) < MaxItems /\ Len(stream_q) < SqCap
    /\ stream_q' = Append(stream_q, <<STREAM_ITEM, Len(made) + 1>>)
    /\ made' = Append(made, Value("item", Len(made) + 1))
    /\ UNCHANGED <<callVars, wireVars, got, handler, response_tx, stream_body>>

\* StreamSender::error marks the stream finished, then waits for room.
FailStream ==
    /\ handler = "streaming" /\ Polled
    /\ handler' = "failing"
    /\ UNCHANGED <<httpVars, response_tx, stream_q, stream_body>>

\* The method returns with its last message, or goes on without the sender.
SendFailure ==
    /\ handler = "failing" /\ Polled /\ Len(stream_q) < SqCap
    /\ stream_q' = Append(stream_q, <<STREAM_ERROR>> \o ErrorBody(ERR_CODE_HANDLER_ERROR))
    /\ made' = Append(made, Value("error", ERR_CODE_HANDLER_ERROR))
    /\ handler' \in {"done", "detached"}
    /\ UNCHANGED <<callVars, wireVars, got, response_tx, stream_body>>

\* The sender is dropped: STREAM_END, if there is room for it.
CloseStream ==
    /\ handler = "streaming" /\ Polled
    /\ stream_q' = IF Len(stream_q) < SqCap THEN Append(stream_q, <<STREAM_END>>)
                                            ELSE stream_q
    /\ made' = Append(made, Value("end", 0))
    /\ handler' \in {"done", "detached"}
    /\ UNCHANGED <<callVars, wireVars, got, response_tx, stream_body>>

ReturnStream ==
    /\ handler = "detached" /\ Polled
    /\ handler' = "done"
    /\ UNCHANGED <<httpVars, response_tx, stream_q, stream_body>>

\* StreamBody::poll_frame yields a message, framed.
PollFrame ==
    /\ stream_body = "open" /\ conn = "up"
    /\ stream_q # <<>> /\ Len(body) < WireCap
    /\ body' = body \o StreamFrame(Head(stream_q))
    /\ stream_q' = Tail(stream_q)
    /\ UNCHANGED <<callVars, conn, head, complete, made, got, handler,
                   response_tx, stream_body>>

\* A mutant: the body ends when the method has returned.
BodyEndsLate ==
    /\ stream_body = "open" /\ conn = "up"
    /\ stream_q = <<>> /\ handler = "done"
    /\ complete' = TRUE /\ stream_body' = "ended"
    /\ UNCHANGED <<callVars, conn, head, body, made, got, handler, response_tx, stream_q>>

\* The channel is empty and its sender gone: the body ends, hyper drops it,
\* and with it a method that had dropped its sender and was going on.
BodyEnd ==
    /\ stream_body = "open" /\ conn = "up"
    /\ stream_q = <<>> /\ handler \notin Holding
    /\ complete' = TRUE /\ stream_body' = "ended"
    /\ handler' = IF handler = "detached" THEN "dropped" ELSE handler
    /\ UNCHANGED <<callVars, conn, head, body, made, got, response_tx, stream_q>>

\* A mutant: the handler is a task of its own.
DisconnectKeepsHandler ==
    /\ conn \in {"closed", "cut"}
    /\ handler \in Running \/ response_tx # "" \/ stream_body = "open"
    /\ response_tx' = "" /\ stream_q' = <<>>
    /\ stream_body' = IF stream_body = "open" THEN "ended" ELSE stream_body
    /\ UNCHANGED <<httpVars, handler>>

\* Hyper sees the connection end, and drops the future or the body it has.
Disconnect ==
    /\ conn \in {"closed", "cut"}
    /\ handler \in Running \/ response_tx # "" \/ stream_body = "open"
    /\ handler' = IF handler \in Running THEN "dropped" ELSE handler
    /\ response_tx' = "" /\ stream_q' = <<>>
    /\ stream_body' = IF stream_body = "open" THEN "ended" ELSE stream_body
    /\ UNCHANGED httpVars

RustMethod == ReturnUnary \/ SendItem \/ FailStream \/ CloseStream \/ ReturnStream
RustServerTask == HandleRequest \/ Respond \/ SendFailure \/ PollFrame \/ BodyEnd
=============================================================================

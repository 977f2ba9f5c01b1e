----------------------------- MODULE GoHttpServer -----------------------------
(***************************************************************************)
(* HttpServer and HttpServerCall of runtime-go/rpc.go, with the generated  *)
(* HandleCall.  The goroutine of the request calls the service method and  *)
(* writes the response itself; net/http cancels its context when the       *)
(* client disconnects, and sends a response that was not flushed when the  *)
(* goroutine returns.                                                      *)
(***************************************************************************)
EXTENDS HttpCall

VARIABLES
    goroutine,  \* "none", "working" in the service method, or "done"
    ctx         \* the context of the call: "live" or "done"

goServerVars == <<goroutine, ctx>>

GoServerInit == goroutine = "none" /\ ctx = "live"

GoServerTypeOK == goroutine \in {"none", "working", "done"} /\ ctx \in {"live", "done"}

\* serveHTTP, up to the call of the service method.
ServeHTTP ==
    /\ conn = "up" /\ goroutine = "none"
    /\ \/ \E c \in {ERR_CODE_UNKNOWN_METHOD, ERR_CODE_DECODE_ERROR} :
            /\ made' = <<Value("error", c)>>
            /\ ReplyError(c)
            /\ goroutine' = "done"
       \/ /\ goroutine' = "working"
          /\ UNCHANGED <<head, body, complete, made>>
    /\ UNCHANGED <<callVars, conn, got, ctx>>

\* A unary method returns: SendResponse or SendError.
GoReturnUnary ==
    /\ kind = "unary" /\ goroutine = "working"
    /\ goroutine' = "done"
    /\ \/ /\ made' = <<Value("response", 0)>>
          /\ Reply(200, "rpc", Payload2)
       \/ /\ made' = <<Value("error", ERR_CODE_HANDLER_ERROR)>>
          /\ ReplyError(ERR_CODE_HANDLER_ERROR)
    /\ UNCHANGED <<callVars, conn, got, ctx>>

Streaming == head.status # 0

\* writeStreamFrame, after the head if it is the first: the message is
\* written when there is room, and flushed.
WriteStreamFrame(msg) ==
    /\ conn = "up" /\ Len(body) < WireCap
    /\ head' = [status |-> 200, type |-> "rpc-stream"]
    /\ body' = body \o StreamFrame(msg)

SendStreamItem ==
    /\ kind = "stream" /\ goroutine = "working" /\ Len(made) < MaxItems
    /\ WriteStreamFrame(<<STREAM_ITEM, Len(made) + 1>>)
    /\ made' = Append(made, Value("item", Len(made) + 1))
    /\ UNCHANGED <<callVars, conn, complete, got, goServerVars>>

\* A streaming method returns nil: SendStreamEnd.
SendStreamEnd ==
    /\ kind = "stream" /\ goroutine = "working"
    /\ WriteStreamFrame(<<STREAM_END>>) /\ complete' = TRUE
    /\ made' = Append(made, Value("end", 0))
    /\ goroutine' = "done"
    /\ UNCHANGED <<callVars, conn, got, ctx>>

\* It returns an error: SendError, which is a message of a stream that has
\* begun, and else the response.
SendError ==
    /\ kind = "stream" /\ goroutine = "working"
    /\ \/ /\ Streaming
          /\ WriteStreamFrame(<<STREAM_ERROR>> \o ErrorBody(ERR_CODE_HANDLER_ERROR))
          /\ complete' = TRUE
       \/ ~Streaming /\ conn = "up" /\ ReplyError(ERR_CODE_HANDLER_ERROR)
    /\ made' = Append(made, Value("error", ERR_CODE_HANDLER_ERROR))
    /\ goroutine' = "done"
    /\ UNCHANGED <<callVars, conn, got, ctx>>

\* The client is gone: writes fail, and the method returns.
GoReturnGone ==
    /\ goroutine = "working" /\ conn \in {"closed", "cut"}
    /\ goroutine' = "done"
    /\ UNCHANGED <<httpVars, ctx>>

GoDisconnect ==
    /\ conn \in {"closed", "cut"} /\ ctx = "live"
    /\ ctx' = "done"
    /\ UNCHANGED <<httpVars, goroutine>>

GoMethod == GoReturnUnary \/ SendStreamItem \/ SendStreamEnd \/ SendError \/ GoReturnGone
=============================================================================

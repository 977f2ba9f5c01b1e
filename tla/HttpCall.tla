------------------------------- MODULE HttpCall -------------------------------
(***************************************************************************)
(* One call over HTTP: the connection it has to itself, what the service   *)
(* method produced and what the caller was told.  HTTP delivers the head   *)
(* of the response, then its body in pieces of any size, and tells whether *)
(* the body is complete; the HTTP libraries are external.                  *)
(*                                                                         *)
(* The response of a unary method, an item and a message are what their    *)
(* bytes are; the codecs are in other modules.                             *)
(***************************************************************************)
EXTENDS Leb128

CONSTANTS
    MaxItems,  \* bound: items one method yields
    WireCap    \* bytes under way before a writer has to wait

\* A u64 holds the length of every message.
ASSUME HttpAssumption ==
    /\ MaxItems \in 1..(2 * Continue - 1) /\ WireCap \in Nat \ {0}
    /\ Bits64 > 2

VARIABLES
    client,    \* whose HttpClient: "rust", "go" or "ts"
    server,    \* whose HttpServer: "rust" or "go"
    kind,      \* of the method: "unary" or "stream"; "none" if no call is made
    conn,      \* "none", "up", "closed" by the client, or "cut"
    head,      \* status and content type of the response
    body,      \* bytes of the response under way
    complete,  \* whether the end of the body is under way after them
    made,      \* outcomes of the service method
    got        \* what the caller was told

callVars == <<client, server, kind>>
wireVars == <<conn, head, body, complete>>
httpVars == <<callVars, wireVars, made, got>>

Value(type, n) == [type |-> type, body |-> n]
Closed == Value("closed", 0)  \* RpcError::stream_closed()
Down   == Value("down", 0)    \* RpcError::new(0, ...) of a failed connection
Over(q) == q # <<>> /\ q[Len(q)].type # "item"

ERR_CODE_UNKNOWN_METHOD == 1
ERR_CODE_DECODE_ERROR   == 2
ERR_CODE_HANDLER_ERROR  == 3
STREAM_ITEM  == 1
STREAM_END   == 2
STREAM_ERROR == 3

Payload2 == <<1, 2>>          \* the response of a unary method, encoded
NoHead == [status |-> 0, type |-> ""]

\* [code: LEB128] [message: string]
ErrorBody(code) == encode_leb128_u64[code] \o encode_leb128_u64[1] \o <<1>>

\* [length: LEB128] [type] [payload]
StreamFrame(msg) == encode_leb128_u64[Len(msg)] \o msg

StatusOf(code) == CASE code = ERR_CODE_UNKNOWN_METHOD -> 404
                    [] code = ERR_CODE_DECODE_ERROR   -> 400
                    [] OTHER -> 500

HttpInit ==
    /\ client \in {"rust", "go", "ts"} /\ server \in {"rust", "go"}
    /\ kind \in {"unary", "stream", "none"}
    /\ conn = "none"
    /\ head = NoHead /\ body = <<>> /\ complete = FALSE
    /\ made = <<>> /\ got = <<>>

\* A response whose body is known when its head is written.
Reply(status, type, bytes) ==
    /\ head' = [status |-> status, type |-> type]
    /\ body' = bytes
    /\ complete' = TRUE

ReplyError(code) == Reply(StatusOf(code), "rpc-error", ErrorBody(code))

\* The connection breaks: all of the response was through, or part of it
\* is lost.
HttpCut ==
    /\ conn = "up" /\ conn' = "cut"
    /\ \/ UNCHANGED <<body, complete>>
       \/ /\ complete' = FALSE
          /\ \E n \in 0..Len(body) : body' = SubSeq(body, 1, n)
    /\ UNCHANGED <<callVars, head, made, got>>
=============================================================================

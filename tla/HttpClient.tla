------------------------------ MODULE HttpClient ------------------------------
(***************************************************************************)
(* HttpClient of runtime-rust/src/rpc.rs, runtime-go/rpc.go and            *)
(* runtime-typescript/rpc.ts, with one call.  The three make the same      *)
(* requests and read responses alike; where they differ `client` tells     *)
(* them apart.  A step is what one future, goroutine or turn of the event  *)
(* loop does between two waits.                                            *)
(***************************************************************************)
EXTENDS HttpCall

CONSTANT EventCap   \* capacity of the queue of events: 16 (Rust and Go)

ASSUME EventAssumption == EventCap \in Nat \ {0}

VARIABLES
    phase,   \* of the caller: "idle", "calling", "collecting", "open" (it
             \* has a StreamReceiver), "over" or "dropped"
    buf,     \* bytes that were collected, or are not parsed yet
    events,  \* events waiting for recv
    reader   \* the task that reads a stream: "none", "reading" or "done"

clientVars == <<phase, buf, events, reader>>

HttpClientInit == phase = "idle" /\ buf = <<>> /\ events = <<>> /\ reader = "none"

HttpClientTypeOK ==
    /\ phase \in {"idle", "calling", "collecting", "open", "over", "dropped"}
    /\ reader \in {"none", "reading", "done"}
    /\ client # "ts" => Len(events) <= EventCap
    /\ reader # "none" => kind = "stream" /\ phase \notin {"idle", "calling", "collecting"}

Tell(o) == got' = Append(got, o) /\ phase' = "over"

\* do_connect: the connection is made and the request sent.
Connect ==
    /\ phase = "idle" /\ phase' = "calling" /\ kind # "none"
    /\ conn' = "up"
    /\ UNCHANGED <<callVars, head, body, complete, made, got, buf, events, reader>>

\* The head of the response is there: a stream of events, or a body to
\* collect.
ReadHead ==
    /\ phase = "calling" /\ head.status # 0
    /\ IF kind = "stream" /\ head.status = 200
         THEN phase' = "open" /\ reader' = "reading"
         ELSE phase' = "collecting" /\ UNCHANGED reader
    /\ UNCHANGED <<httpVars, buf, events>>

ConnectFails ==
    /\ phase = "calling" /\ conn = "cut"
    /\ Tell(Down)
    /\ UNCHANGED <<callVars, wireVars, made, buf, events, reader>>

\* A piece of the body.
TakePiece(n) == buf' = buf \o SubSeq(body, 1, n) /\ body' = Rest(body, n)

Collect ==
    /\ phase = "collecting" /\ body # <<>>
    /\ \E n \in 1..Len(body) : TakePiece(n)
    /\ UNCHANGED <<callVars, conn, head, complete, made, got, phase, events, reader>>

parse_http_error ==
    IF head.type = "rpc-error" /\ buf # <<>> /\ decode_leb128_u64(buf).ok
      THEN Value("error", decode_leb128_u64(buf).v)
      ELSE Value("error", ERR_CODE_HANDLER_ERROR)

\* The response, if it is the bytes that were sent.
Response == Value("response", IF buf = Payload2 THEN 0 ELSE 1)

\* A mutant: an error of the body ends it.
CollectedAtCut ==
    /\ phase = "collecting" /\ body = <<>> /\ (complete \/ conn = "cut")
    /\ Tell(IF head.status = 200 THEN Response ELSE parse_http_error)
    /\ UNCHANGED <<callVars, wireVars, made, buf, events, reader>>

Collected ==
    /\ phase = "collecting" /\ body = <<>>
    /\ \/ /\ complete
          /\ Tell(IF head.status = 200 THEN Response ELSE parse_http_error)
       \/ ~complete /\ conn = "cut" /\ Tell(Down)
    /\ UNCHANGED <<callVars, wireVars, made, buf, events, reader>>

-----------------------------------------------------------------------------
(* The task that reads the body of a stream.                               *)

Length == decode_leb128_u64(buf)

\* A whole message is in the buffer.
WholeMessage == Length.ok /\ Length.v > 0 /\ Len(Length.rest) >= Length.v
Message == SubSeq(Length.rest, 1, Length.v)

EventOf(msg) ==
    CASE msg[1] = STREAM_ITEM -> Value("item", msg[2])
      [] msg[1] = STREAM_END -> Closed
      [] msg[1] = STREAM_ERROR -> Value("error", decode_leb128_u64(Tail(msg)).v)
      [] OTHER -> Value("error", 0)

Room == client = "ts" \/ Len(events) < EventCap

Reading == reader = "reading" /\ phase # "dropped"

Chunk ==
    /\ Reading /\ ~WholeMessage /\ body # <<>>
    /\ \E n \in 1..Len(body) : TakePiece(n)
    /\ UNCHANGED <<callVars, conn, head, complete, made, got, phase, events, reader>>

\* A message is parsed and its event queued.  After the last one the task
\* ends: in Rust and Go it drops the body, which closes the connection.
Emit ==
    /\ reader = "reading" /\ (client # "rust" \/ phase # "dropped")
    /\ WholeMessage /\ Room
    /\ LET event == EventOf(Message) IN
       /\ events' = Append(events, event)
       /\ IF event.type = "item" THEN UNCHANGED <<reader, conn>>
          ELSE /\ reader' = "done"
               /\ conn' = IF conn = "up" /\ client # "ts" THEN "closed" ELSE conn
    /\ buf' = Rest(Length.rest, Length.v)
    /\ UNCHANGED <<callVars, head, body, complete, made, got, phase>>

\* The end of the body is the end of the stream.
ReaderEnd ==
    /\ Reading /\ ~WholeMessage /\ body = <<>> /\ complete /\ Room
    /\ events' = Append(events, Closed)
    /\ reader' = "done"
    /\ UNCHANGED <<httpVars, phase, buf>>

\* A mutant: an error of the body is not told from its end.
CutLooksClosed == {Closed}

\* An error of the body.  Go takes a body that ends too early, between two
\* messages, for the end of the stream (io.ErrUnexpectedEOF).
CutEvents == IF client = "go" /\ ~Length.ok THEN {Down, Closed} ELSE {Down}

ReaderFails ==
    /\ Reading /\ ~WholeMessage /\ body = <<>> /\ ~complete /\ conn = "cut" /\ Room
    /\ \E event \in CutEvents : events' = Append(events, event)
    /\ reader' = "done"
    /\ UNCHANGED <<httpVars, phase, buf>>

\* The caller has gone.  In Rust the task aborts the connection, or fails
\* to queue an event and drops the body, which closes it too.  In the
\* others the body is closed already and reading it fails: the error is
\* queued, which in Go waits for room that nobody will make.
ReaderStop ==
    /\ reader = "reading" /\ phase = "dropped"
    /\ client = "rust" \/ (~WholeMessage /\ Room)
    /\ conn' = IF conn = "up" THEN "closed" ELSE conn
    /\ events' = IF client = "rust" THEN <<>> ELSE Append(events, Down)
    /\ reader' = "done"
    /\ UNCHANGED <<callVars, head, body, complete, made, got, phase, buf>>

-----------------------------------------------------------------------------
\* StreamReceiver::recv.
Recv ==
    /\ phase = "open" /\ events # <<>>
    /\ got' = Append(got, Head(events))
    /\ events' = Tail(events)
    /\ phase' = IF Head(events).type = "item" THEN "open" ELSE "over"
    /\ UNCHANGED <<callVars, wireVars, made, buf, reader>>

\* The call is dropped (Rust), its context cancelled (Go) or its signal
\* aborted (TypeScript).  The connection is closed at once, or by the task
\* that the dropped StreamReceiver signals.
Drop ==
    /\ phase \in {"calling", "collecting", "open"} /\ phase' = "dropped"
    /\ conn' = IF conn = "up" /\ (client # "rust" \/ reader = "none")
                 THEN "closed" ELSE conn
    /\ UNCHANGED <<callVars, head, body, complete, made, got, buf, events, reader>>

ClientTask ==
    \/ Connect \/ ReadHead \/ ConnectFails \/ Collect \/ Collected
    \/ Chunk \/ Emit \/ ReaderEnd \/ ReaderFails \/ ReaderStop
=============================================================================
